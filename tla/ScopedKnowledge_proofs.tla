----------------------- MODULE ScopedKnowledge_proofs -----------------------
(* Theorems about ScopedKnowledge, for any slots, requests, candidates and *)
(* gaps, any kinds of calls and any faults.                                *)
EXTENDS ScopedKnowledge, InductionLemmas

Moving == {"lock", "lookup", "write", "commit"}

(* Where a call can stand for what it was asked.                           *)
PlaceOK == \A c \in Call :
    /\ pc[c] = "new" <=> input[c] = Nothing
    /\ pc[c] = "done" <=> response[c] # "none"
    /\ pc[c] \in Moving => input[c].kind \in Writes
    /\ pc[c] = "edit" => input[c].kind = "edit"
    /\ pc[c] = "reject" => input[c].kind = "reject"
    /\ pc[c] \in {"propose", "close"} => input[c].kind = "learn"

(* The slots a call is writing are its own, and the next is one of those   *)
(* it has still to write, or was the last.                                 *)
TodoOK == \A c \in Call : pc[c] \in Moving =>
    /\ next[c] \in input[c].slots
    /\ todo[c] \subseteq input[c].slots
    /\ pc[c] # "commit" => next[c] \in todo[c]
    /\ pc[c] = "commit" => todo[c] = {}

(* A call has looked up what it has written, and holds the lock of what it *)
(* has looked up.                                                          *)
LockOK == \A c \in Call :
    /\ pc[c] \in {"lookup", "write"} => lock[next[c]] = c
    /\ pc[c] = "write" => read[c][next[c]] # Unread
    /\ \A s \in Slot :
         /\ read[c][s] # Unread => pc[c] \in Moving /\ s \in input[c].slots /\ lock[s] = c
         /\ pc[c] \in Moving /\ s \in input[c].slots \ todo[c] => read[c][s] # Unread

(* What a call looked up still is the entry, but for an edit's answer; a   *)
(* slot it inserts is still empty; the entry it edits is still there; an   *)
(* empty slot has no past.                                                 *)
CurrentOK == \A s \in Slot :
    /\ \A c \in Call : read[c][s] \notin {Unread, NoEntry} =>
         /\ entry[s] # NoEntry /\ entry[s].version = read[c][s].version
         /\ entry[s].answer = read[c][s].answer \/ entry[s].answer \notin wrote[s]
    /\ \A c \in Call : s \in Written(c) /\ read[c][s] = NoEntry => entry[s] = NoEntry
    /\ \A c \in Call : pc[c] = "edit" /\ s \in input[c].slots => entry[s] # NoEntry
    /\ entry[s] = NoEntry => wrote[s] = {} /\ history[s] = {}

Inv == /\ TypeOK /\ PlaceOK /\ TodoOK /\ LockOK /\ CurrentOK
       /\ HistoryIsComplete /\ AllOrNothing /\ ApprovedIsWritten
-----------------------------------------------------------------------------
(***************************************************************************)
(* Types.                                                                  *)
(***************************************************************************)
TablesOK ==
    /\ entry \in [Slot -> Entry \cup {NoEntry}]
    /\ history \in [Slot -> SUBSET Archived]
    /\ candidate \in [Candidate -> Status]
    /\ promoted \in [Candidate -> Slot \cup {Nothing}]
    /\ gap \in [Gap -> {"open", "resolved"}]

PastOK ==
    /\ wrote \in [Slot -> SUBSET Call]
    /\ edited \in [Slot -> SUBSET Answer]
    /\ hidden \in [Slot -> BOOLEAN]
    /\ learned \subseteq Call

LocksOK == lock \in [Slot -> Call \cup {Nothing}]

CallsOK ==
    /\ input \in [Call -> Input \cup {Nothing}]
    /\ pc \in [Call -> Place]
    /\ todo \in [Call -> SUBSET Slot]
    /\ next \in [Call -> Slot \cup {Nothing}]
    /\ read \in [Call -> [Slot -> Entry \cup {NoEntry, Unread}]]
    /\ response \in [Call -> Response]

LEMMA TypeParts == TypeOK <=> TablesOK /\ PastOK /\ LocksOK /\ CallsOK
  BY DEF TypeOK, TablesOK, PastOK, LocksOK, CallsOK

LEMMA TypeFromParts ==
  ASSUME TablesOK', PastOK', LocksOK', CallsOK'
  PROVE  TypeOK'
  BY DEF TypeOK, TablesOK, PastOK, LocksOK, CallsOK

LEMMA InputFacts ==
  ASSUME NEW i \in Input
  PROVE  /\ i.kind \in Kind /\ i.slots \subseteq Slot /\ i # Nothing
         /\ i.kind \notin {"reject", "learn"} => i.slots # {}
         /\ i.kind # "upload" => \A s, t \in i.slots : s = t
         /\ i.about \in Candidate <=> i.kind \in {"approve", "reject", "learn"}
         /\ i.about \in Gap <=> i.kind \in {"resolve", "resolve_kb"}
  BY NullAssumption, KindsAssumption DEF Input, WellFormed, Kind, Writes

LEMMA TheSlotIn ==
  ASSUME NEW i \in Input, i.kind \notin {"reject", "learn"}
  PROVE  TheSlot(i) \in i.slots /\ TheSlot(i) \in Slot
  BY InputFacts DEF TheSlot

LEMMA Edited ==
  ASSUME entry \in [Slot -> Entry \cup {NoEntry}], NEW s \in Slot, NEW a \in Answer,
         entry[s] # NoEntry
  PROVE  /\ [entry EXCEPT ![s].answer = a] \in [Slot -> Entry \cup {NoEntry}]
         /\ entry[s].answer \in Answer
  BY DEF Entry

LEMMA Hidden ==
  ASSUME entry \in [Slot -> Entry \cup {NoEntry}], NEW s \in Slot, entry[s] # NoEntry
  PROVE  [entry EXCEPT ![s].active = FALSE] \in [Slot -> Entry \cup {NoEntry}]
  BY DEF Entry

LEMMA ReadUpdate ==
  ASSUME read \in [Call -> [Slot -> Entry \cup {NoEntry, Unread}]], NEW c \in Call,
         NEW s \in Slot, NEW v \in Entry \cup {NoEntry}
  PROVE  [read EXCEPT ![c][s] = v] \in [Call -> [Slot -> Entry \cup {NoEntry, Unread}]]
  OBVIOUS

LEMMA LeaveKeepsTypes ==
  ASSUME LocksOK, CallsOK, NEW c \in Call, NEW a \in Response, Leave(c, a), UNCHANGED input
  PROVE  LocksOK' /\ CallsOK'
  BY DEF LocksOK, CallsOK, Leave, Goto, Place

LEMMA ReplyKeepsTypes ==
  ASSUME LocksOK, CallsOK, NEW c \in Call, NEW a \in Response, Reply(c, a),
         input' \in [Call -> Input \cup {Nothing}]
  PROVE  LocksOK' /\ CallsOK'
  BY DEF LocksOK, CallsOK, Reply, Goto, Place, locals

LEMMA GotoKeepsTypes ==
  ASSUME LocksOK, CallsOK, NEW c \in Call, NEW p \in Place, Goto(c, p),
         UNCHANGED <<lock, locals, response>>, input' \in [Call -> Input \cup {Nothing}]
  PROVE  LocksOK' /\ CallsOK'
  BY DEF LocksOK, CallsOK, Goto, locals

LEMMA CalledInput ==
  ASSUME CallsOK, NEW c \in Call, NEW i \in Input, NEW ks, Called(c, i, ks)
  PROVE  /\ input' \in [Call -> Input \cup {Nothing}]
         /\ input'[c] = i /\ \A d \in Call : d # c => input'[d] = input[d]
  BY DEF CallsOK, Called

LEMMA WantsKeepsTypes ==
  ASSUME CallsOK, NEW c \in Call, NEW S \in SUBSET Slot, Wants(c, S)
  PROVE  /\ pc' \in [Call -> Place] /\ next' \in [Call -> Slot \cup {Nothing}]
         /\ next'[c] \in S /\ pc'[c] = "lock"
         /\ \A d \in Call : d # c => pc'[d] = pc[d] /\ next'[d] = next[d]
  BY DEF CallsOK, Wants, Goto, Place

(* What is known of a call that is in the middle of something.             *)
LEMMA CallFacts ==
  ASSUME TypeOK, PlaceOK, TodoOK, NEW c \in Call, pc[c] # "new"
  PROVE  /\ input[c] \in Input
         /\ pc[c] \in Moving => /\ next[c] \in Slot /\ next[c] \in input[c].slots
                                /\ input[c].about \in Candidate => input[c].kind = "approve"
         /\ pc[c] \in {"edit", "reject", "propose", "close"} => input[c].kind \notin Writes
         /\ pc[c] = "edit" => TheSlot(input[c]) \in Slot
         /\ pc[c] = "reject" => input[c].about \in Candidate
  <1>1. input[c] \in Input
    BY DEF TypeOK, PlaceOK
  <1>2. QED
    BY <1>1, InputFacts, TheSlotIn DEF TypeOK, PlaceOK, TodoOK, Writes, Moving

(* What a call archives: the entry that it found, and the first of two     *)
(* answers that its file gives.                                            *)
Found(c, s) ==
    IF entry[s] = NoEntry THEN {}
    ELSE {[version |-> entry[s].version, answer |-> read[c][s].answer, by |-> c]}

First(c, s) ==
    IF s \notin input[c].twice THEN {}
    ELSE {[version |-> Stored(c, s).version - 1, answer |-> c, by |-> c]}

LEMMA StoredType ==
  ASSUME TypeOK, CurrentOK, NEW c \in Call, NEW s \in Slot, s \in Written(c)
  PROVE  /\ Stored(c, s) \in Entry /\ Archives(c, s) \subseteq Archived
         /\ Stored(c, s).answer = c
         /\ entry[s] = NoEntry => Stored(c, s).version = 1 + Again(c, s)
         /\ entry[s] # NoEntry => Stored(c, s).version = entry[s].version + 1 + Again(c, s)
         /\ Archives(c, s) = Found(c, s) \cup First(c, s)
  <1>1. read[c][s] \in Entry \cup {NoEntry} /\ entry[s] \in Entry \cup {NoEntry}
    BY DEF TypeOK, Written
  <1>2. Again(c, s) \in {0, 1} /\ (s \in input[c].twice => Again(c, s) = 1)
    BY DEF Again
  <1>3. /\ entry[s] = NoEntry <=> read[c][s] = NoEntry
        /\ entry[s] # NoEntry => entry[s].version = read[c][s].version
    BY DEF CurrentOK, Written
  <1>4. Archives(c, s) = Found(c, s) \cup First(c, s)
    BY <1>3 DEF Archives, Found, First
  <1>5. CASE entry[s] = NoEntry
    <2>1. Stored(c, s) = [answer |-> c, version |-> 1 + Again(c, s), active |-> TRUE]
      BY <1>3, <1>5 DEF Stored
    <2>2. Found(c, s) = {}
      BY <1>5 DEF Found
    <2>3. First(c, s) \subseteq Archived
      BY <1>2, <2>1 DEF First, Archived, Answer
    <2>4. Stored(c, s) \in Entry
      BY <1>2, <2>1 DEF Entry, Answer
    <2>5. QED
      BY <1>4, <1>5, <2>1, <2>2, <2>3, <2>4
  <1>6. CASE entry[s] # NoEntry
    <2>1. read[c][s] \in Entry /\ entry[s] \in Entry
      BY <1>1, <1>3, <1>6
    <2>2. Stored(c, s) = [answer |-> c, version |-> entry[s].version + 1 + Again(c, s),
                          active |-> entry[s].active]
      BY <1>3, <1>6 DEF Stored
    <2>3. Found(c, s) \subseteq Archived
      BY <1>6, <2>1 DEF Found, Archived, Entry
    <2>4. First(c, s) \subseteq Archived
      BY <1>2, <2>1, <2>2 DEF First, Archived, Entry, Answer
    <2>5. Stored(c, s) \in Entry
      BY <1>2, <2>1, <2>2 DEF Entry, Answer
    <2>6. QED
      BY <1>4, <1>6, <2>2, <2>3, <2>4, <2>5
  <1>7. QED
    BY <1>5, <1>6

LEMMA TypeStep ==
  ASSUME TypeOK, PlaceOK, TodoOK, CurrentOK, [Next]_vars
  PROVE  TypeOK'
  <1> USE DEF tables, past, locals
  <1>0. TablesOK /\ PastOK /\ LocksOK /\ CallsOK
    BY TypeParts
  <1>1. ASSUME NEW c \in Call, NEW i \in Input, StartWriting(c, i) PROVE TypeOK'
    <2>1. input' \in [Call -> Input \cup {Nothing}]
      BY <1>0, <1>1, CalledInput DEF StartWriting
    <2>2. pc' \in [Call -> Place] /\ next' \in [Call -> Slot \cup {Nothing}]
      BY <1>0, <1>1, InputFacts, WantsKeepsTypes DEF StartWriting
    <2>3. LocksOK' /\ CallsOK'
      BY <1>0, <1>1, <2>1, <2>2, InputFacts DEF StartWriting, LocksOK, CallsOK
    <2>4. QED
      BY <1>0, <1>1, <2>3, TypeFromParts DEF StartWriting, TablesOK, PastOK
  <1>2. ASSUME NEW c \in Call, Lock(c) PROVE TypeOK'
    BY <1>0, <1>2, CallFacts, TypeFromParts
       DEF Lock, Goto, TablesOK, PastOK, LocksOK, CallsOK, Place, Moving
  <1>3. ASSUME NEW c \in Call, Lookup(c) PROVE TypeOK'
    <2>1. next[c] \in Slot
      BY <1>3, CallFacts DEF Lookup, Moving
    <2>2. read' \in [Call -> [Slot -> Entry \cup {NoEntry, Unread}]]
      BY <1>0, <1>3, <2>1, ReadUpdate DEF Lookup, TablesOK, CallsOK
    <2>3. LocksOK' /\ CallsOK'
      BY <1>0, <1>3, <2>2 DEF Lookup, Goto, LocksOK, CallsOK, Place
    <2>4. QED
      BY <1>0, <1>3, <2>3, TypeFromParts DEF Lookup, TablesOK, PastOK
  <1>4. ASSUME NEW c \in Call, Write(c) PROVE TypeOK'
    <2>1. pc' \in [Call -> Place] /\ next' \in [Call -> Slot \cup {Nothing}]
      <3>1. todo[c] \ {next[c]} \in SUBSET Slot
        BY <1>0 DEF CallsOK
      <3>2. CASE todo[c] = {next[c]}
        BY <1>0, <1>4, <3>2 DEF Write, Goto, CallsOK, Place
      <3>3. CASE todo[c] # {next[c]}
        BY <1>0, <1>4, <3>1, <3>3, WantsKeepsTypes DEF Write
      <3>4. QED
        BY <3>2, <3>3
    <2>2. LocksOK' /\ CallsOK'
      BY <1>0, <1>4, <2>1 DEF Write, LocksOK, CallsOK
    <2>3. QED
      BY <1>0, <1>4, <2>2, TypeFromParts DEF Write, TablesOK, PastOK
  <1>5. ASSUME NEW c \in Call, Collide(c) \/ AbortDeadlock(c) \/ Fail(c) PROVE TypeOK'
    <2>1. Leave(c, "failed") /\ UNCHANGED <<tables, input, past>>
      BY <1>5 DEF Collide, AbortDeadlock, Fail
    <2>2. LocksOK' /\ CallsOK'
      BY <1>0, <2>1, LeaveKeepsTypes DEF Response
    <2>3. QED
      BY <1>0, <2>1, <2>2, TypeFromParts DEF TablesOK, PastOK
  <1>6. ASSUME NEW c \in Call, Commit(c) PROVE TypeOK'
    <2>1. LocksOK' /\ CallsOK'
      BY <1>0, <1>6, LeaveKeepsTypes DEF Commit, Response
    <2>2. \A s \in Slot : s \in Written(c) => Stored(c, s) \in Entry /\ Archives(c, s) \subseteq Archived
      BY StoredType
    <2>3. next[c] \in Slot
      BY <1>6, CallFacts DEF Commit, Moving
    <2>4. TablesOK'
      BY <1>0, <1>6, <2>2, <2>3 DEF Commit, TablesOK, Status
    <2>5. PastOK'
      BY <1>0, <1>6 DEF Commit, PastOK
    <2>6. QED
      BY <2>1, <2>4, <2>5, TypeFromParts
  <1>7. ASSUME NEW c \in Call, NEW i \in Input, ResolveOnly(c, i) PROVE TypeOK'
    <2>1. LocksOK' /\ CallsOK'
      BY <1>0, <1>7, CalledInput, ReplyKeepsTypes DEF ResolveOnly, Response
    <2>2. QED
      BY <1>0, <1>7, <2>1, TypeFromParts DEF ResolveOnly, TablesOK, PastOK
  <1>8. ASSUME NEW c \in Call, NEW i \in Input,
               Refuse(c, i) \/ CreateCollides(c, i) \/ NotFound(c, i)
        PROVE  TypeOK'
    <2>1. input' \in [Call -> Input \cup {Nothing}]
      BY <1>0, <1>8, CalledInput DEF Refuse, CreateCollides, NotFound
    <2>2. LocksOK' /\ CallsOK'
      BY <1>0, <1>8, <2>1, ReplyKeepsTypes DEF Refuse, CreateCollides, NotFound, Response
    <2>3. QED
      BY <1>0, <1>8, <2>2, TypeFromParts
         DEF Refuse, CreateCollides, NotFound, TablesOK, PastOK
  <1>9. ASSUME NEW c \in Call, NEW i \in Input, StartReject(c, i) \/ StartEdit(c, i) PROVE TypeOK'
    <2>1. PICK p \in Place, ks \in SUBSET Kind : Goto(c, p) /\ Called(c, i, ks)
      BY <1>9 DEF StartReject, StartEdit, Place, Kind
    <2>2. LocksOK' /\ CallsOK'
      BY <1>0, <1>9, <2>1, CalledInput, GotoKeepsTypes DEF StartReject, StartEdit
    <2>3. QED
      BY <1>0, <1>9, <2>2, TypeFromParts DEF StartReject, StartEdit, TablesOK, PastOK
  <1>10. ASSUME NEW c \in Call, NEW i \in Input, RecordEdit(c, i) PROVE TypeOK'
    <2>1. LocksOK' /\ CallsOK'
      BY <1>0, <1>10, CalledInput, GotoKeepsTypes DEF RecordEdit, Place
    <2>2. QED
      BY <1>0, <1>10, <2>1, TypeFromParts DEF RecordEdit, TablesOK, PastOK
  <1>11. ASSUME NEW c \in Call, Reject(c) PROVE TypeOK'
    <2>1. LocksOK' /\ CallsOK'
      BY <1>0, <1>11, ReplyKeepsTypes DEF Reject, Response, CallsOK
    <2>2. QED
      BY <1>0, <1>11, <2>1, CallFacts, TypeFromParts DEF Reject, TablesOK, PastOK, Status
  <1>12. ASSUME NEW c \in Call, Propose(c) PROVE TypeOK'
    BY <1>0, <1>12, GotoKeepsTypes, TypeFromParts DEF Propose, Place, CallsOK, TablesOK, PastOK
  <1>13. ASSUME NEW c \in Call, CloseSession(c) PROVE TypeOK'
    BY <1>0, <1>13, LeaveKeepsTypes, TypeFromParts DEF CloseSession, Response, TablesOK, PastOK
  <1>14. ASSUME NEW c \in Call, NEW i \in Input, Create(c, i) PROVE TypeOK'
    <2>1. LocksOK' /\ CallsOK'
      BY <1>0, <1>14, CalledInput, ReplyKeepsTypes DEF Create, Response
    <2>2. [answer |-> c, version |-> 1, active |-> TRUE] \in Entry
      BY DEF Entry, Answer
    <2>3. QED
      BY <1>0, <1>14, <2>1, <2>2, TypeFromParts DEF Create, TablesOK, PastOK
  <1>15. ASSUME NEW c \in Call, Edit(c) PROVE TypeOK'
    <2>1. LocksOK' /\ CallsOK'
      BY <1>0, <1>15, ReplyKeepsTypes DEF Edit, Response, CallsOK
    <2>2. TheSlot(input[c]) \in Slot
      BY <1>15, CallFacts DEF Edit
    <2>3. input[c].kind = "edit"
      BY <1>15 DEF Edit, PlaceOK
    <2>4. entry[TheSlot(input[c])] # NoEntry
      BY <1>15, <2>2, <2>3, CallFacts, TheSlotIn DEF Edit, CurrentOK
    <2>5. entry' \in [Slot -> Entry \cup {NoEntry}] /\ edited' \in [Slot -> SUBSET Answer]
      BY <1>0, <1>15, <2>2, <2>4, Edited DEF Edit, TablesOK, PastOK, Answer
    <2>6. QED
      BY <1>0, <1>15, <2>1, <2>5, TypeFromParts DEF Edit, TablesOK, PastOK
  <1>16. ASSUME NEW c \in Call, NEW i \in Input, Delete(c, i) PROVE TypeOK'
    <2>1. LocksOK' /\ CallsOK'
      BY <1>0, <1>16, CalledInput, ReplyKeepsTypes DEF Delete, Response
    <2>2. TheSlot(i) \in Slot
      BY <1>16, TheSlotIn DEF Delete, Called
    <2>3. entry' \in [Slot -> Entry \cup {NoEntry}]
      BY <1>0, <1>16, <2>2, Hidden DEF Delete, TablesOK
    <2>4. QED
      BY <1>0, <1>16, <2>1, <2>3, TypeFromParts DEF Delete, TablesOK, PastOK
  <1>17. CASE UNCHANGED vars
    BY <1>17 DEF vars, TypeOK
  <1>18. QED
    BY <1>1, <1>2, <1>3, <1>4, <1>5, <1>6, <1>7, <1>8, <1>9, <1>10, <1>11, <1>12, <1>13, <1>14,
       <1>15, <1>16, <1>17
       DEF Next, Start, Advance

-----------------------------------------------------------------------------
(***************************************************************************)
(* Where calls stand, and their locks.                                     *)
(***************************************************************************)
CallInv == PlaceOK /\ TodoOK /\ LockOK

LEMMA LeaveKeeps ==
  ASSUME TypeOK, CallInv, NEW c \in Call, pc[c] # "new", NEW a \in Response \ {"none"},
         Leave(c, a), UNCHANGED input
  PROVE  CallInv'
  <1>1. PlaceOK'
    BY DEF TypeOK, CallInv, PlaceOK, Leave, Goto, Moving
  <1>2. TodoOK'
    BY DEF TypeOK, CallInv, TodoOK, Leave, Goto, Moving
  <1>3. LockOK'
    BY NullAssumption DEF TypeOK, CallInv, LockOK, TodoOK, Leave, Goto, Moving
  <1>4. QED
    BY <1>1, <1>2, <1>3 DEF CallInv

(* A call at no slot goes to no slot. *)
LEMMA StandsKeeps ==
  ASSUME TypeOK, CallInv, NEW c \in Call, pc[c] \notin Moving, pc'[c] \notin Moving,
         \A d \in Call \ {c} : pc'[d] = pc[d] /\ input'[d] = input[d] /\ response'[d] = response[d],
         UNCHANGED <<lock, locals>>,
         pc'[c] # "new", input'[c] # Nothing, pc'[c] = "done" <=> response'[c] # "none",
         pc'[c] = "edit" => input'[c].kind = "edit",
         pc'[c] = "reject" => input'[c].kind = "reject",
         pc'[c] \in {"propose", "close"} => input'[c].kind = "learn"
  PROVE  CallInv'
  <1>1. PlaceOK'
    BY DEF CallInv, PlaceOK
  <1>2. TodoOK'
    BY DEF CallInv, TodoOK, locals
  <1>3. LockOK'
    BY DEF CallInv, LockOK, locals, Moving
  <1>4. QED
    BY <1>1, <1>2, <1>3 DEF CallInv

LEMMA CallInvStep ==
  ASSUME TypeOK, CallInv, [Next]_vars
  PROVE  CallInv'
  <1> USE DEF locals
  <1>0. PlaceOK /\ TodoOK /\ LockOK
    BY DEF CallInv
  <1>1. ASSUME NEW c \in Call, NEW i \in Input, StartWriting(c, i) PROVE CallInv'
    <2>1. pc[c] = "new" /\ i.kind \in Writes /\ i # Nothing
      BY <1>1, InputFacts DEF StartWriting, Called
    <2>2. input'[c] = i /\ todo'[c] = i.slots /\ next'[c] \in i.slots /\ pc'[c] = "lock"
      BY <1>1 DEF TypeOK, StartWriting, Called, Wants, Goto
    <2>3. /\ \A d \in Call \ {c} : /\ pc'[d] = pc[d] /\ input'[d] = input[d]
                                   /\ next'[d] = next[d] /\ todo'[d] = todo[d]
          /\ UNCHANGED <<lock, read, response>>
      BY <1>1 DEF TypeOK, StartWriting, Called, Wants, Goto
    <2>4. PlaceOK'
      BY <1>0, <2>1, <2>2, <2>3 DEF PlaceOK
    <2>5. TodoOK'
      BY <1>0, <2>2, <2>3 DEF TodoOK
    <2>6. LockOK'
      BY <1>0, <2>1, <2>2, <2>3 DEF LockOK, Moving
    <2>7. QED
      BY <2>4, <2>5, <2>6 DEF CallInv
  <1>2. ASSUME NEW c \in Call, Lock(c) PROVE CallInv'
    <2>1. PlaceOK'
      BY <1>0, <1>2 DEF TypeOK, PlaceOK, Lock, Goto, Moving
    <2>2. TodoOK'
      BY <1>0, <1>2 DEF TypeOK, TodoOK, Lock, Goto, Moving
    <2>3. next[c] \in Slot
      BY <1>0, <1>2, CallFacts DEF Lock, Moving
    <2>4. LockOK'
      BY <1>0, <1>2, <2>3, NullAssumption DEF TypeOK, LockOK, Lock, Goto, Moving
    <2>5. QED
      BY <2>1, <2>2, <2>4 DEF CallInv
  <1>3. ASSUME NEW c \in Call, Lookup(c) PROVE CallInv'
    <2>1. PlaceOK'
      BY <1>0, <1>3 DEF TypeOK, PlaceOK, Lookup, Goto, Moving
    <2>2. TodoOK'
      BY <1>0, <1>3 DEF TypeOK, TodoOK, Lookup, Goto, Moving
    <2>3. next[c] \in Slot /\ next[c] \in input[c].slots /\ entry[next[c]] # Unread
      BY <1>0, <1>3, CallFacts, NullAssumption DEF TypeOK, Lookup, Moving
    <2>4. LockOK'
      BY <1>0, <1>3, <2>3 DEF TypeOK, LockOK, Lookup, Goto, Moving
    <2>5. QED
      BY <2>1, <2>2, <2>4 DEF CallInv
  <1>4. ASSUME NEW c \in Call, Write(c) PROVE CallInv'
    <2>1. /\ pc[c] = "write" /\ pc'[c] \in {"lock", "commit"}
          /\ todo'[c] = todo[c] \ {next[c]}
          /\ pc'[c] = "lock" => next'[c] \in todo'[c]
          /\ pc'[c] = "commit" => todo'[c] = {} /\ next'[c] = next[c]
          /\ \A d \in Call \ {c} : pc'[d] = pc[d] /\ next'[d] = next[d] /\ todo'[d] = todo[d]
          /\ UNCHANGED <<lock, read, response, input>>
      BY <1>4 DEF TypeOK, Write, Wants, Goto
    <2>2. PlaceOK'
      BY <1>0, <2>1 DEF PlaceOK, Moving
    <2>3. TodoOK'
      BY <1>0, <2>1 DEF TodoOK, Moving
    <2>4. LockOK'
      BY <1>0, <2>1 DEF LockOK, Moving
    <2>5. QED
      BY <2>2, <2>3, <2>4 DEF CallInv
  <1>5. ASSUME NEW c \in Call,
               Collide(c) \/ AbortDeadlock(c) \/ Fail(c) \/ Commit(c) \/ CloseSession(c)
        PROVE  CallInv'
    <2>1. pc[c] # "new" /\ UNCHANGED input
      BY <1>5 DEF Collide, AbortDeadlock, Fail, Commit, CloseSession
    <2>2. Leave(c, "failed") \/ Leave(c, "ok")
      BY <1>5 DEF Collide, AbortDeadlock, Fail, Commit, CloseSession
    <2>3. QED
      BY <2>1, <2>2, LeaveKeeps DEF Response
  <1>6. ASSUME NEW c \in Call, NEW i \in Input,
               \/ ResolveOnly(c, i) \/ Refuse(c, i) \/ CreateCollides(c, i)
               \/ NotFound(c, i) \/ Create(c, i) \/ Delete(c, i)
        PROVE  CallInv'
    <2>1. /\ pc[c] = "new" /\ input'[c] = i /\ i # Nothing
          /\ \A d \in Call \ {c} : input'[d] = input[d]
      BY <1>6, InputFacts
         DEF TypeOK, ResolveOnly, Refuse, CreateCollides, NotFound, Create, Delete, Called
    <2>2. Reply(c, "unanswered") \/ Reply(c, "refused") \/ Reply(c, "failed") \/ Reply(c, "ok")
      BY <1>6 DEF ResolveOnly, Refuse, CreateCollides, NotFound, Create, Delete
    <2>3. /\ pc'[c] = "done" /\ response'[c] # "none" /\ UNCHANGED <<lock, locals>>
          /\ \A d \in Call \ {c} : pc'[d] = pc[d] /\ response'[d] = response[d]
      BY <2>2 DEF TypeOK, Reply, Goto
    <2>4. QED
      BY <2>1, <2>3, StandsKeeps DEF Moving
  <1>7. ASSUME NEW c \in Call, NEW i \in Input,
               StartReject(c, i) \/ StartEdit(c, i) \/ RecordEdit(c, i)
        PROVE  CallInv'
    <2>1. /\ pc[c] = "new" /\ input'[c] = i /\ i # Nothing /\ UNCHANGED <<lock, locals, response>>
          /\ \A d \in Call \ {c} : input'[d] = input[d] /\ pc'[d] = pc[d]
          /\ \/ pc'[c] = "reject" /\ i.kind = "reject"
             \/ pc'[c] = "edit" /\ i.kind = "edit"
             \/ pc'[c] = "propose" /\ i.kind = "learn"
      BY <1>7, InputFacts DEF TypeOK, StartReject, StartEdit, RecordEdit, Called, Goto
    <2>2. response[c] = "none"
      BY <1>0, <2>1 DEF PlaceOK
    <2>3. QED
      BY <2>1, <2>2, StandsKeeps DEF Moving
  <1>8. ASSUME NEW c \in Call, Reject(c) \/ Propose(c) \/ Edit(c) PROVE CallInv'
    <2>1. pc[c] \notin Moving /\ pc[c] # "new" /\ pc[c] # "done" /\ UNCHANGED input
      BY <1>8 DEF Reject, Propose, Edit, Moving
    <2>2. input[c] # Nothing /\ response[c] = "none"
      BY <1>0, <2>1 DEF PlaceOK
    <2>3. /\ UNCHANGED <<lock, locals>>
          /\ \A d \in Call \ {c} : pc'[d] = pc[d] /\ response'[d] = response[d]
          /\ \/ pc'[c] = "done" /\ response'[c] = "ok"
             \/ pc'[c] = "close" /\ response'[c] = response[c] /\ pc[c] = "propose"
      BY <1>8 DEF TypeOK, Reject, Propose, Edit, Reply, Goto
    <2>4. QED
      BY <1>0, <2>1, <2>2, <2>3, StandsKeeps DEF Moving, PlaceOK
  <1>9. CASE UNCHANGED vars
    BY <1>0, <1>9 DEF vars, CallInv, PlaceOK, TodoOK, LockOK
  <1>10. QED
    BY <1>1, <1>2, <1>3, <1>4, <1>5, <1>6, <1>7, <1>8, <1>9 DEF Next, Start, Advance

-----------------------------------------------------------------------------
(***************************************************************************)
(* What a call has looked up.                                              *)
(***************************************************************************)
slots == <<entry, history, wrote>>

(* Only four steps touch the entries, their history or who wrote them.     *)
LEMMA SlotSteps ==
  ASSUME TypeOK, [Next]_vars
  PROVE  \/ UNCHANGED <<slots, edited>>
         \/ \E c \in Call : Commit(c) \/ Edit(c)
         \/ \E c \in Call, i \in Input : Create(c, i) \/ Delete(c, i)
  <1> USE DEF slots, tables, past
  <1>1. ASSUME NEW c \in Call, NEW i \in Input,
               \/ StartWriting(c, i) \/ ResolveOnly(c, i) \/ Refuse(c, i) \/ StartReject(c, i)
               \/ RecordEdit(c, i) \/ CreateCollides(c, i) \/ StartEdit(c, i) \/ NotFound(c, i)
        PROVE  UNCHANGED <<slots, edited>>
    BY <1>1 DEF StartWriting, ResolveOnly, Refuse, StartReject, RecordEdit, CreateCollides,
                StartEdit, NotFound
  <1>2. ASSUME NEW c \in Call,
               \/ Lock(c) \/ Lookup(c) \/ Write(c) \/ Collide(c) \/ AbortDeadlock(c) \/ Fail(c)
               \/ Reject(c) \/ Propose(c) \/ CloseSession(c)
        PROVE  UNCHANGED <<slots, edited>>
    BY <1>2 DEF Lock, Lookup, Write, Collide, AbortDeadlock, Fail, Reject, Propose, CloseSession
  <1>3. CASE UNCHANGED vars
    BY <1>3 DEF vars
  <1>4. QED
    BY <1>1, <1>2, <1>3 DEF Next, Start, Advance

(* A step that leaves the entries and reads nothing, writes nothing and    *)
(* starts no edit.                                                         *)
LEMMA QuietKeeps ==
  ASSUME TypeOK, CurrentOK, UNCHANGED slots,
         \A d \in Call, s \in Slot :
            /\ read'[d][s] \in {read[d][s], Unread}
            /\ s \in Written(d)' => s \in Written(d)
         , \A d \in Call : pc'[d] = "edit" => pc[d] = "edit" /\ input'[d] = input[d]
  PROVE  CurrentOK'
  BY NullAssumption DEF CurrentOK, slots, Written

LEMMA LeavesQuiet ==
  ASSUME TypeOK, NEW c \in Call, NEW a \in Response, Leave(c, a), UNCHANGED input
  PROVE  /\ \A d \in Call, s \in Slot : /\ read'[d][s] \in {read[d][s], Unread}
                                      /\ s \in Written(d)' => s \in Written(d)
         /\ \A d \in Call : pc'[d] = "edit" => pc[d] = "edit" /\ input'[d] = input[d]
         /\ \A s \in Slot : read'[c][s] = Unread
         /\ \A d \in Call \ {c}, s \in Slot : read'[d][s] = read[d][s]
  BY DEF TypeOK, Leave, Goto, Written

LEMMA RepliesQuiet ==
  ASSUME TypeOK, NEW c \in Call, NEW a \in Response, Reply(c, a),
         \A d \in Call \ {c} : input'[d] = input[d]
  PROVE  /\ \A d \in Call, s \in Slot : /\ read'[d][s] \in {read[d][s], Unread}
                                      /\ s \in Written(d)' => s \in Written(d)
         /\ \A d \in Call : pc'[d] = "edit" => pc[d] = "edit" /\ input'[d] = input[d]
         /\ UNCHANGED read
  BY DEF TypeOK, Reply, Goto, Written, locals

LEMMA CurrentQuiet ==
  ASSUME TypeOK, CallInv, CurrentOK, [Next]_vars, UNCHANGED slots
  PROVE  CurrentOK'
  <1> USE DEF locals
  <1>0. PlaceOK /\ TodoOK /\ LockOK
    BY DEF CallInv
  <1>1. ASSUME NEW c \in Call, NEW i \in Input, StartWriting(c, i) PROVE CurrentOK'
    <2>1. /\ pc[c] = "new" /\ UNCHANGED read
          /\ \A d \in Call \ {c} : todo'[d] = todo[d] /\ input'[d] = input[d] /\ pc'[d] = pc[d]
          /\ pc'[c] = "lock"
      BY <1>1 DEF TypeOK, StartWriting, Called, Wants, Goto
    <2>2. \A s \in Slot : read[c][s] = Unread
      BY <1>0, <2>1 DEF LockOK, Moving
    <2>3. \A d \in Call, s \in Slot : s \in Written(d)' => s \in Written(d)
      BY <2>1, <2>2 DEF Written
    <2>4. QED
      BY <2>1, <2>3, QuietKeeps
  <1>2. ASSUME NEW c \in Call, Lock(c) \/ Propose(c) PROVE CurrentOK'
    <2>1. UNCHANGED <<read, todo, input>> /\ \A d \in Call : pc'[d] = "edit" => pc[d] = "edit"
      BY <1>2 DEF TypeOK, Lock, Propose, Goto
    <2>2. QED
      BY <2>1, QuietKeeps DEF Written
  <1>3. ASSUME NEW c \in Call, Lookup(c) PROVE CurrentOK'
    <2>1. next[c] \in Slot /\ next[c] \in todo[c]
      BY <1>0, <1>3, CallFacts DEF Lookup, Moving, TodoOK
    <2>2. /\ \A d \in Call, s \in Slot : ~(d = c /\ s = next[c]) => read'[d][s] = read[d][s]
          /\ read'[c][next[c]] = entry[next[c]]
          /\ UNCHANGED <<todo, input>> /\ \A d \in Call : pc'[d] = "edit" => pc[d] = "edit"
      BY <1>3, <2>1 DEF TypeOK, Lookup, Goto
    <2>3. QED
      BY <2>1, <2>2 DEF CurrentOK, Written, slots
  <1>4. ASSUME NEW c \in Call, Write(c) PROVE CurrentOK'
    <2>1. /\ UNCHANGED <<read, input>> /\ \A d \in Call : pc'[d] = "edit" => pc[d] = "edit"
          /\ \A d \in Call \ {c} : todo'[d] = todo[d]
          /\ todo'[c] = todo[c] \ {next[c]}
          /\ read[c][next[c]] = NoEntry => entry[next[c]] = NoEntry
      BY <1>4 DEF TypeOK, Write, Wants, Goto
    <2>2. QED
      BY <2>1 DEF CurrentOK, Written, slots
  <1>5. ASSUME NEW c \in Call,
               Collide(c) \/ AbortDeadlock(c) \/ Fail(c) \/ Commit(c) \/ CloseSession(c)
        PROVE  CurrentOK'
    <2>1. Leave(c, "failed") \/ Leave(c, "ok")
      BY <1>5 DEF Collide, AbortDeadlock, Fail, Commit, CloseSession
    <2>2. UNCHANGED input
      BY <1>5 DEF Collide, AbortDeadlock, Fail, Commit, CloseSession
    <2>3. QED
      BY <2>1, <2>2, LeavesQuiet, QuietKeeps DEF Response
  <1>6. ASSUME NEW c \in Call, NEW i \in Input,
               \/ ResolveOnly(c, i) \/ Refuse(c, i) \/ CreateCollides(c, i)
               \/ NotFound(c, i) \/ Create(c, i) \/ Delete(c, i)
        PROVE  CurrentOK'
    <2>1. \A d \in Call \ {c} : input'[d] = input[d]
      BY <1>6 DEF TypeOK, ResolveOnly, Refuse, CreateCollides, NotFound, Create, Delete, Called
    <2>2. Reply(c, "unanswered") \/ Reply(c, "refused") \/ Reply(c, "failed") \/ Reply(c, "ok")
      BY <1>6 DEF ResolveOnly, Refuse, CreateCollides, NotFound, Create, Delete
    <2>3. QED
      BY <2>1, <2>2, RepliesQuiet, QuietKeeps DEF Response
  <1>7. ASSUME NEW c \in Call, Reject(c) \/ Edit(c) PROVE CurrentOK'
    <2>1. Reply(c, "ok") /\ UNCHANGED input
      BY <1>7 DEF Reject, Edit
    <2>2. QED
      BY <2>1, RepliesQuiet, QuietKeeps DEF Response
  <1>8. ASSUME NEW c \in Call, NEW i \in Input, StartReject(c, i) \/ RecordEdit(c, i)
        PROVE  CurrentOK'
    <2>1. /\ UNCHANGED <<read, todo>>
          /\ \A d \in Call \ {c} : pc'[d] = pc[d] /\ input'[d] = input[d]
          /\ pc'[c] # "edit"
      BY <1>8 DEF TypeOK, StartReject, RecordEdit, Called, Goto
    <2>2. \A d \in Call, s \in Slot : s \in Written(d)' => s \in Written(d)
      BY <2>1 DEF Written
    <2>3. QED
      BY <2>1, <2>2, QuietKeeps
  <1>9. ASSUME NEW c \in Call, NEW i \in Input, StartEdit(c, i) PROVE CurrentOK'
    <2>1. /\ UNCHANGED <<read, todo>>
          /\ \A d \in Call \ {c} : pc'[d] = pc[d] /\ input'[d] = input[d]
          /\ input'[c] = i /\ i.kind = "edit" /\ entry[TheSlot(i)] # NoEntry
      BY <1>9 DEF TypeOK, StartEdit, Called, Goto, Editable
    <2>2. TheSlot(i) \in i.slots
      BY <2>1, TheSlotIn
    <2>3. \A s \in i.slots : s = TheSlot(i)
      BY <2>1, <2>2, InputFacts
    <2>4. \A d \in Call, s \in Slot : pc'[d] = "edit" /\ s \in input'[d].slots => entry[s] # NoEntry
      BY <2>1, <2>3 DEF CurrentOK
    <2>5. \A d \in Call, s \in Slot : s \in Written(d)' => s \in Written(d)
      BY <2>1 DEF Written
    <2>6. QED
      BY <2>1, <2>4, <2>5 DEF CurrentOK, slots
  <1>10. CASE UNCHANGED vars
    BY <1>10, QuietKeeps DEF vars, Written
  <1>11. QED
    BY <1>1, <1>2, <1>3, <1>4, <1>5, <1>6, <1>7, <1>8, <1>9, <1>10 DEF Next, Start, Advance

-----------------------------------------------------------------------------
(***************************************************************************)
(* The four steps that touch the entries.                                  *)
(***************************************************************************)
Known == TypeOK /\ CallInv /\ CurrentOK

(* A call that has not answered has committed nothing.                     *)
LEMMA Unwritten ==
  ASSUME CallInv, AllOrNothing, NEW c \in Call, pc[c] # "done", NEW s \in Slot
  PROVE  c \notin wrote[s]
  BY DEF CallInv, PlaceOK, AllOrNothing

(* What a commit makes of a slot it has written, and of the others.        *)
LEMMA CommitFacts ==
  ASSUME Known, NEW c \in Call, Commit(c), NEW s \in Slot
  PROVE  /\ s \in Written(c) <=> s \in input[c].slots
         /\ s \notin Written(c) => /\ entry'[s] = entry[s] /\ history'[s] = history[s]
                                  /\ wrote'[s] = wrote[s]
         /\ s \in Written(c) =>
               /\ entry'[s] # NoEntry /\ entry'[s].answer = c /\ wrote'[s] = wrote[s] \cup {c}
               /\ entry'[s] = Stored(c, s)
               /\ history'[s] = history[s] \cup Found(c, s) \cup First(c, s)
               /\ entry[s] # NoEntry =>
                    entry[s].answer = read[c][s].answer \/ entry[s].answer \notin wrote[s]
               /\ \A d \in Call \ {c} : read[d][s] = Unread
  <1>0. PlaceOK /\ TodoOK /\ LockOK /\ TypeOK /\ CurrentOK
    BY DEF Known, CallInv
  <1>1. s \in Written(c) <=> s \in input[c].slots
    BY <1>0 DEF Commit, Written, TodoOK, LockOK, Moving
  <1>2. s \notin Written(c) => entry'[s] = entry[s] /\ history'[s] = history[s] /\ wrote'[s] = wrote[s]
    BY DEF Commit
  <1>3. ASSUME s \in Written(c)
        PROVE  /\ entry'[s] # NoEntry /\ entry'[s].answer = c /\ wrote'[s] = wrote[s] \cup {c}
               /\ entry'[s] = Stored(c, s)
               /\ history'[s] = history[s] \cup Found(c, s) \cup First(c, s)
    <2>1. entry'[s] = Stored(c, s) /\ history'[s] = history[s] \cup Archives(c, s)
          /\ wrote'[s] = wrote[s] \cup {c}
      BY <1>3 DEF Commit
    <2>2. Stored(c, s) # NoEntry
      BY <1>0, <1>3, StoredType, NullAssumption
    <2>3. QED
      BY <1>0, <1>3, <2>1, <2>2, StoredType
  <1>4. ASSUME s \in Written(c), entry[s] # NoEntry
        PROVE  entry[s].answer = read[c][s].answer \/ entry[s].answer \notin wrote[s]
    BY <1>0, <1>4 DEF CurrentOK, Written
  <1>5. ASSUME s \in Written(c), NEW d \in Call \ {c} PROVE read[d][s] = Unread
    BY <1>0, <1>5 DEF LockOK, Written
  <1>6. QED
    BY <1>1, <1>2, <1>3, <1>4, <1>5

LEMMA CurrentStep ==
  ASSUME Known, AllOrNothing, [Next]_vars
  PROVE  CurrentOK'
  <1>0. TypeOK /\ CallInv /\ CurrentOK /\ PlaceOK /\ TodoOK /\ LockOK
    BY DEF Known, CallInv
  <1>1. CASE UNCHANGED <<slots, edited>>
    BY <1>0, <1>1, CurrentQuiet
  <1>2. ASSUME NEW c \in Call, Commit(c) PROVE CurrentOK'
    <2>1. Leave(c, "ok") /\ UNCHANGED input
      BY <1>2 DEF Commit
    <2>2. /\ \A d \in Call, s \in Slot : read'[d][s] \in {read[d][s], Unread}
          /\ \A d \in Call, s \in Slot : s \in Written(d)' => s \in Written(d)
          /\ \A d \in Call : pc'[d] = "edit" => pc[d] = "edit" /\ input'[d] = input[d]
          /\ \A s \in Slot : read'[c][s] = Unread
      BY <1>0, <2>1, LeavesQuiet DEF Response
    <2>3. SUFFICES ASSUME NEW s \in Slot
                   PROVE  /\ \A d \in Call : read'[d][s] \notin {Unread, NoEntry} =>
                               /\ entry'[s] # NoEntry /\ entry'[s].version = read'[d][s].version
                               /\ \/ entry'[s].answer = read'[d][s].answer
                                  \/ entry'[s].answer \notin wrote'[s]
                          /\ \A d \in Call : s \in Written(d)' /\ read'[d][s] = NoEntry
                                             => entry'[s] = NoEntry
                          /\ \A d \in Call : pc'[d] = "edit" /\ s \in input'[d].slots
                                             => entry'[s] # NoEntry
                          /\ entry'[s] = NoEntry => wrote'[s] = {} /\ history'[s] = {}
      BY DEF CurrentOK
    <2>4. CASE s \in Written(c)
      <3>1. entry'[s] # NoEntry /\ \A d \in Call \ {c} : read[d][s] = Unread
        BY <1>2, <2>4, CommitFacts
      <3>2. \A d \in Call : read'[d][s] = Unread
        BY <2>2, <3>1
      <3>3. \A d \in Call : s \notin Written(d)'
        BY <3>2 DEF Written
      <3>4. QED
        BY <3>1, <3>2, <3>3
    <2>5. CASE s \notin Written(c)
      <3>1. entry'[s] = entry[s] /\ history'[s] = history[s] /\ wrote'[s] = wrote[s]
        BY <1>2, <2>5, CommitFacts
      <3>2. \A d \in Call : read'[d][s] \notin {Unread, NoEntry} =>
               /\ entry'[s] # NoEntry /\ entry'[s].version = read'[d][s].version
               /\ entry'[s].answer = read'[d][s].answer \/ entry'[s].answer \notin wrote'[s]
        BY <1>0, <2>2, <3>1 DEF CurrentOK
      <3>3. \A d \in Call : s \in Written(d)' /\ read'[d][s] = NoEntry => entry'[s] = NoEntry
        <4>1. SUFFICES ASSUME NEW d \in Call, s \in Written(d)', read'[d][s] = NoEntry
                       PROVE  entry'[s] = NoEntry
          OBVIOUS
        <4>2. s \in Written(d) /\ read[d][s] = NoEntry
          BY <2>2, <4>1, NullAssumption
        <4>3. QED
          BY <1>0, <3>1, <4>2 DEF CurrentOK
      <3>4. QED
        BY <1>0, <2>2, <3>1, <3>2, <3>3 DEF CurrentOK
    <2>6. QED
      BY <2>4, <2>5
  <1>3. ASSUME NEW c \in Call, NEW i \in Input, Create(c, i) PROVE CurrentOK'
    <2>1. Reply(c, "ok") /\ \A d \in Call \ {c} : input'[d] = input[d]
      BY <1>0, <1>3 DEF TypeOK, Create, Called
    <2>2. /\ \A d \in Call, s \in Slot : s \in Written(d)' => s \in Written(d)
          /\ \A d \in Call : pc'[d] = "edit" => pc[d] = "edit" /\ input'[d] = input[d]
          /\ UNCHANGED read
      BY <1>0, <2>1, RepliesQuiet DEF Response
    <2>3. TheSlot(i) \in Slot
      BY <1>3, TheSlotIn DEF Create, Called
    <2>4. /\ entry[TheSlot(i)] = NoEntry /\ Free(TheSlot(i)) /\ UNCHANGED <<wrote, history>>
          /\ entry' = [entry EXCEPT ![TheSlot(i)] = [answer |-> c, version |-> 1, active |-> TRUE]]
      BY <1>3 DEF Create, past
    <2>5. [answer |-> c, version |-> 1, active |-> TRUE] \in Entry
      BY DEF Entry, Answer
    <2>6. \A d \in Call : read[d][TheSlot(i)] \in {Unread, NoEntry}
      BY <1>0, <2>3, <2>4 DEF CurrentOK
    <2>7. \A s \in Slot \ {TheSlot(i)} : entry'[s] = entry[s]
      BY <1>0, <2>4 DEF TypeOK
    <2>8. entry'[TheSlot(i)] # NoEntry
      BY <1>0, <2>3, <2>4, <2>5, NullAssumption DEF TypeOK
    <2>9. QED
      BY <1>0, <2>2, <2>4, <2>6, <2>7, <2>8 DEF CurrentOK, Free
  <1>4. ASSUME NEW c \in Call, NEW s \in Slot, NEW a,
               Reply(c, "ok"), \A d \in Call \ {c} : input'[d] = input[d],
               UNCHANGED <<wrote, history>>, entry[s] # NoEntry, a = entry[s].answer \/ a \notin wrote[s],
               entry'[s] # NoEntry, entry'[s].answer = a, entry'[s].version = entry[s].version,
               \A t \in Slot \ {s} : entry'[t] = entry[t]
        PROVE  CurrentOK'
    <2>1. /\ \A d \in Call, t \in Slot : t \in Written(d)' => t \in Written(d)
          /\ \A d \in Call : pc'[d] = "edit" => pc[d] = "edit" /\ input'[d] = input[d]
          /\ UNCHANGED read
      BY <1>0, <1>4, RepliesQuiet DEF Response
    <2>2. QED
      BY <1>0, <1>4, <2>1 DEF CurrentOK
  <1>5. ASSUME NEW c \in Call, Edit(c) PROVE CurrentOK'
    <2> DEFINE s == TheSlot(input[c])
    <2>1. s \in Slot /\ s \in input[c].slots
      BY <1>0, <1>5, CallFacts, TheSlotIn DEF Edit, PlaceOK
    <2>2. entry[s] # NoEntry /\ entry[s] \in Entry
      BY <1>0, <1>5, <2>1 DEF Edit, CurrentOK, TypeOK
    <2>3. /\ Reply(c, "ok") /\ UNCHANGED <<wrote, history, input>>
          /\ entry' = [entry EXCEPT ![s].answer = c]
      BY <1>5 DEF Edit
    <2>4. c \notin wrote[s]
      BY <1>0, <1>5, <2>1, Unwritten DEF Edit
    <2> HIDE DEF s
    <2>5. entry'[s] \in Entry /\ entry'[s].answer = c /\ entry'[s].version = entry[s].version
      BY <1>0, <2>1, <2>2, <2>3 DEF TypeOK, Entry, Answer
    <2>6. entry'[s] # NoEntry /\ \A t \in Slot \ {s} : entry'[t] = entry[t]
      BY <1>0, <2>3, <2>5, NullAssumption DEF TypeOK
    <2>7. QED
      BY <1>4, <2>1, <2>2, <2>3, <2>4, <2>5, <2>6
  <1>6. ASSUME NEW c \in Call, NEW i \in Input, Delete(c, i) PROVE CurrentOK'
    <2> DEFINE s == TheSlot(i)
    <2>1. s \in Slot
      BY <1>6, TheSlotIn DEF Delete, Called
    <2>2. /\ Reply(c, "ok") /\ UNCHANGED <<wrote, history>> /\ entry[s] # NoEntry
          /\ \A d \in Call \ {c} : input'[d] = input[d]
          /\ entry' = [entry EXCEPT ![s].active = FALSE]
      BY <1>0, <1>6 DEF TypeOK, Delete, Called
    <2> HIDE DEF s
    <2>3. entry[s] \in Entry
      BY <1>0, <2>1, <2>2 DEF TypeOK
    <2>4. entry'[s] \in Entry /\ entry'[s].answer = entry[s].answer /\ entry'[s].version = entry[s].version
      BY <1>0, <2>1, <2>2, <2>3 DEF TypeOK, Entry
    <2>5. entry'[s] # NoEntry /\ \A t \in Slot \ {s} : entry'[t] = entry[t]
      BY <1>0, <2>2, <2>4, NullAssumption DEF TypeOK
    <2>6. QED
      BY <1>4, <2>1, <2>2, <2>4, <2>5
  <1>7. QED
    BY <1>0, <1>1, <1>2, <1>3, <1>5, <1>6, SlotSteps

-----------------------------------------------------------------------------
(***************************************************************************)
(* The history.                                                            *)
(***************************************************************************)
(* What HistoryIsComplete says of one slot.                                *)
Complete(e, h, w, d) ==
    /\ \A v \in 1 .. e.version - 1 : \E x \in h : x.version = v
    /\ \A x \in h : x.version < e.version
    /\ \A x, y \in h : x.version = y.version => x = y
    /\ \A c \in w : e.answer = c \/ c \in d \/ \E x \in h : x.answer = c

LEMMA CompleteSlots ==
  HistoryIsComplete <=>
    \A s \in Slot : entry[s] # NoEntry => Complete(entry[s], history[s], wrote[s], edited[s])
  BY DEF HistoryIsComplete, Complete

LEMMA HistoryFromSlots ==
  ASSUME \A s \in Slot : entry'[s] # NoEntry =>
            Complete(entry'[s], history'[s], wrote'[s], edited'[s])
  PROVE  HistoryIsComplete'
  BY DEF HistoryIsComplete, Complete

(* A new version archives the one before it. *)
LEMMA Archiving ==
  ASSUME NEW e, NEW f, NEW h \in SUBSET Archived, NEW w, NEW d, NEW c, NEW a, e.version \in Nat,
         Complete(e, h, w, d), f.answer = c, f.version = e.version + 1,
         e.answer = a \/ e.answer \notin w
  PROVE  Complete(f, h \cup {[version |-> e.version, answer |-> a, by |-> c]}, w \cup {c}, d)
  <1> DEFINE r == [version |-> e.version, answer |-> a, by |-> c]
             g == h \cup {r}
  <1>1. r.version = e.version /\ r.answer = a
    OBVIOUS
  <1>2. \A x \in h : x.version < e.version /\ x.version # r.version
    BY <1>1 DEF Complete
  <1> HIDE DEF r
  <1>3. ASSUME NEW v \in 1 .. f.version - 1 PROVE \E x \in g : x.version = v
    <2>1. CASE v = e.version
      BY <1>1, <2>1
    <2>2. CASE v # e.version
      <3>1. v \in 1 .. e.version - 1
        BY <1>3, <2>2
      <3>2. QED
        BY <3>1 DEF Complete
    <2>3. QED
      BY <2>1, <2>2
  <1>4. ASSUME NEW x \in g PROVE x.version < f.version
    <2>1. CASE x = r
      BY <1>1, <2>1
    <2>2. CASE x \in h
      <3>1. x.version < e.version /\ x.version \in Nat
        BY <1>2, <2>2 DEF Archived
      <3>2. QED
        BY <3>1
    <2>3. QED
      BY <2>1, <2>2
  <1>5. \A x, y \in g : x.version = y.version => x = y
    BY <1>2 DEF Complete
  <1>6. ASSUME NEW b \in w \cup {c} PROVE f.answer = b \/ b \in d \/ \E x \in g : x.answer = b
    BY <1>1, <1>6 DEF Complete
  <1>7. QED
    BY <1>3, <1>4, <1>5, <1>6 DEF Complete, r

LEMMA HistoryStep ==
  ASSUME Known, AllOrNothing, HistoryIsComplete, [Next]_vars
  PROVE  HistoryIsComplete'
  <1>0. /\ TypeOK /\ CallInv /\ CurrentOK /\ PlaceOK /\ TodoOK
        /\ \A s \in Slot : entry[s] # NoEntry => Complete(entry[s], history[s], wrote[s], edited[s])
        /\ \A s \in Slot : entry[s] # NoEntry => entry[s] \in Entry
    BY CompleteSlots DEF Known, CallInv, TypeOK
  <1>1. CASE UNCHANGED <<slots, edited>>
    BY <1>1 DEF HistoryIsComplete, slots
  <1>2. ASSUME NEW c \in Call, Commit(c) PROVE HistoryIsComplete'
    <2>1. SUFFICES ASSUME NEW s \in Slot, entry'[s] # NoEntry
                   PROVE  Complete(entry'[s], history'[s], wrote'[s], edited'[s])
      BY HistoryFromSlots
    <2>2. edited'[s] = edited[s]
      BY <1>2 DEF Commit
    <2>3. CASE s \notin Written(c)
      BY <1>0, <1>2, <2>1, <2>2, <2>3, CommitFacts
    <2>4. CASE s \in Written(c) /\ entry[s] = NoEntry
      <3>1. /\ entry'[s].version = 1 + Again(c, s) /\ entry'[s].answer = c
            /\ wrote'[s] = {c} /\ history'[s] = First(c, s) /\ entry'[s] = Stored(c, s)
        <4>1. /\ entry'[s] = Stored(c, s) /\ wrote'[s] = wrote[s] \cup {c}
              /\ history'[s] = history[s] \cup Found(c, s) \cup First(c, s)
          BY <1>2, <2>4, CommitFacts
        <4>2. Stored(c, s).version = 1 + Again(c, s) /\ Stored(c, s).answer = c
          BY <1>0, <2>4, StoredType
        <4>3. wrote[s] = {} /\ history[s] = {} /\ Found(c, s) = {}
          BY <1>0, <2>4 DEF CurrentOK, Found
        <4>4. QED
          BY <4>1, <4>2, <4>3
      <3>2. CASE s \notin input[c].twice
        <4>1. entry'[s].version = 1 /\ history'[s] = {}
          BY <3>1, <3>2 DEF Again, First
        <4>2. QED
          BY <3>1, <4>1 DEF Complete
      <3>3. CASE s \in input[c].twice
        <4>1. /\ entry'[s].version = 2
              /\ history'[s] = {[version |-> 1, answer |-> c, by |-> c]}
          BY <3>1, <3>3 DEF Again, First
        <4>2. QED
          BY <3>1, <4>1 DEF Complete
      <3>4. QED
        BY <3>2, <3>3
    <2>5. CASE s \in Written(c) /\ entry[s] # NoEntry
      <3> DEFINE found == [version |-> entry[s].version, answer |-> read[c][s].answer, by |-> c]
                 said == [answer |-> c, version |-> entry[s].version + 1]
      <3>1. /\ entry'[s].answer = c /\ entry'[s] = Stored(c, s)
            /\ entry'[s].version = entry[s].version + 1 + Again(c, s)
            /\ wrote'[s] = wrote[s] \cup {c}
            /\ history'[s] = history[s] \cup {found} \cup First(c, s)
            /\ entry[s].answer = read[c][s].answer \/ entry[s].answer \notin wrote[s]
        BY <1>0, <1>2, <2>5, CommitFacts, StoredType DEF Found
      <3>2. /\ Complete(entry[s], history[s], wrote[s], edited[s])
            /\ entry[s].version \in Nat \ {0} /\ history[s] \in SUBSET Archived
        BY <1>0, <2>5 DEF Entry, TypeOK
      <3>3. found \in Archived
        BY <1>0, <2>5, <3>2 DEF TypeOK, CurrentOK, Written, Entry, Archived
      <3>4. CASE s \notin input[c].twice
        <4>1. entry'[s].version = entry[s].version + 1 /\ history'[s] = history[s] \cup {found}
          BY <3>1, <3>2, <3>4 DEF Again, First, Entry
        <4>2. Complete(entry'[s], history[s] \cup {found}, wrote[s] \cup {c}, edited[s])
          BY <3>1, <3>2, <4>1, Archiving
        <4>3. QED
          BY <2>2, <3>1, <4>1, <4>2
      <3>5. CASE s \in input[c].twice
        <4>1. /\ entry'[s].version = said.version + 1 /\ said.version \in Nat /\ said.answer = c
              /\ history'[s] = history[s] \cup {found}
                    \cup {[version |-> said.version, answer |-> c, by |-> c]}
          BY <3>1, <3>2, <3>5 DEF Again, First
        <4>2. Complete(said, history[s] \cup {found}, wrote[s] \cup {c}, edited[s])
          BY <3>1, <3>2, Archiving
        <4>3. history[s] \cup {found} \in SUBSET Archived
          BY <3>2, <3>3
        <4> DEFINE h == history[s] \cup {found}
                   w == wrote[s] \cup {c}
        <4> HIDE DEF said, h, w
        <4>4. Complete(entry'[s], h \cup {[version |-> said.version, answer |-> c, by |-> c]},
                       w \cup {c}, edited[s])
          <5>1. Complete(said, h, w, edited[s]) /\ h \in SUBSET Archived
            BY <4>2, <4>3 DEF h, w
          <5>2. QED
            BY <3>1, <4>1, <5>1, Archiving
        <4>5. w \cup {c} = wrote'[s]
          BY <3>1 DEF w
        <4>6. history'[s] = h \cup {[version |-> said.version, answer |-> c, by |-> c]}
          BY <4>1 DEF h
        <4>7. QED
          BY <2>2, <4>4, <4>5, <4>6
      <3>6. QED
        BY <3>4, <3>5
    <2>6. QED
      BY <2>3, <2>4, <2>5
  <1>3. ASSUME NEW c \in Call, NEW i \in Input, Create(c, i) PROVE HistoryIsComplete'
    <2> DEFINE s == TheSlot(i)
    <2>1. s \in Slot
      BY <1>3, TheSlotIn DEF Create, Called
    <2>2. /\ entry[s] = NoEntry /\ UNCHANGED <<history, wrote, edited>>
          /\ entry' = [entry EXCEPT ![s] = [answer |-> c, version |-> 1, active |-> TRUE]]
      BY <1>3 DEF Create, past
    <2> HIDE DEF s
    <2>3. wrote[s] = {} /\ history[s] = {}
      BY <1>0, <2>1, <2>2 DEF CurrentOK
    <2>4. entry'[s].version = 1
      BY <1>0, <2>1, <2>2 DEF TypeOK
    <2>5. Complete(entry'[s], history'[s], wrote'[s], edited'[s])
      BY <2>2, <2>3, <2>4 DEF Complete
    <2>6. \A t \in Slot \ {s} : entry'[t] = entry[t]
      BY <1>0, <2>2 DEF TypeOK
    <2>7. QED
      BY <1>0, <2>2, <2>5, <2>6, HistoryFromSlots
  <1>4. ASSUME NEW c \in Call, Edit(c) PROVE HistoryIsComplete'
    <2> DEFINE s == TheSlot(input[c])
    <2>1. s \in Slot /\ s \in input[c].slots
      BY <1>0, <1>4, CallFacts, TheSlotIn DEF Edit, PlaceOK
    <2>2. entry[s] # NoEntry
      BY <1>0, <1>4, <2>1 DEF Edit, CurrentOK
    <2>3. /\ UNCHANGED <<wrote, history>>
          /\ entry' = [entry EXCEPT ![s].answer = c]
          /\ edited' = [edited EXCEPT ![s] = @ \cup {entry[s].answer}]
      BY <1>4 DEF Edit
    <2> HIDE DEF s
    <2>4. entry'[s].version = entry[s].version /\ edited'[s] = edited[s] \cup {entry[s].answer}
      BY <1>0, <2>1, <2>2, <2>3 DEF TypeOK, Entry
    <2>5. Complete(entry'[s], history'[s], wrote'[s], edited'[s])
      BY <1>0, <2>1, <2>2, <2>3, <2>4 DEF Complete
    <2>6. \A t \in Slot \ {s} : entry'[t] = entry[t] /\ edited'[t] = edited[t]
      BY <1>0, <2>3 DEF TypeOK
    <2>7. QED
      BY <1>0, <2>3, <2>5, <2>6, HistoryFromSlots
  <1>5. ASSUME NEW c \in Call, NEW i \in Input, Delete(c, i) PROVE HistoryIsComplete'
    <2> DEFINE s == TheSlot(i)
    <2>1. s \in Slot
      BY <1>5, TheSlotIn DEF Delete, Called
    <2>2. /\ UNCHANGED <<wrote, history, edited>> /\ entry[s] # NoEntry
          /\ entry' = [entry EXCEPT ![s].active = FALSE]
      BY <1>5 DEF Delete
    <2> HIDE DEF s
    <2>3. entry'[s].answer = entry[s].answer /\ entry'[s].version = entry[s].version
      BY <1>0, <2>1, <2>2 DEF TypeOK, Entry
    <2>4. Complete(entry'[s], history'[s], wrote'[s], edited'[s])
      BY <1>0, <2>1, <2>2, <2>3 DEF Complete
    <2>5. \A t \in Slot \ {s} : entry'[t] = entry[t]
      BY <1>0, <2>2 DEF TypeOK
    <2>6. QED
      BY <1>0, <2>2, <2>4, <2>5, HistoryFromSlots
  <1>6. QED
    BY <1>0, <1>1, <1>2, <1>3, <1>4, <1>5, SlotSteps

-----------------------------------------------------------------------------
(***************************************************************************)
(* Answers and reviews.                                                    *)
(***************************************************************************)
GapsStay == \A g \in Gap : gap[g] = "resolved" => gap'[g] = "resolved"

(* A step that commits nothing through the service.                        *)
LEMMA NoneKeeps ==
  ASSUME TypeOK, CallInv, AllOrNothing, UNCHANGED wrote, GapsStay,
         NEW c \in Call, pc[c] # "done",
         \A d \in Call \ {c} : input'[d] = input[d] /\ response'[d] = response[d],
         response'[c] = "ok" => /\ input'[c].kind \notin Writes
                                /\ \A g \in Gap : g = input'[c].about => gap'[g] = "resolved"
  PROVE  AllOrNothing'
  <1>1. \A s \in Slot : c \notin wrote'[s]
    BY Unwritten
  <1>2. ASSUME NEW d \in Call
        PROVE  /\ \A s \in Slot : d \in wrote'[s] <=>
                    response'[d] = "ok" /\ input'[d].kind \in Writes /\ s \in input'[d].slots
               /\ response'[d] = "ok" => \A g \in Gap : g = input'[d].about => gap'[g] = "resolved"
    <2>1. CASE d = c
      BY <1>1, <2>1
    <2>2. CASE d # c
      BY <2>2 DEF AllOrNothing, GapsStay
    <2>3. QED
      BY <2>1, <2>2
  <1>3. QED
    BY <1>2 DEF AllOrNothing

LEMMA AllOrNothingStep ==
  ASSUME Known, AllOrNothing, [Next]_vars
  PROVE  AllOrNothing'
  <1> USE DEF tables, past
  <1>0. TypeOK /\ CallInv /\ PlaceOK /\ TodoOK
    BY DEF Known, CallInv
  <1>1. ASSUME NEW c \in Call, Commit(c) PROVE AllOrNothing'
    <2>1. /\ pc[c] = "commit" /\ UNCHANGED input /\ Leave(c, "ok")
          /\ gap' = [g \in Gap |-> IF g = input[c].about THEN "resolved" ELSE gap[g]]
      BY <1>1 DEF Commit
    <2>2. input[c].kind \in Writes
      BY <1>0, <2>1 DEF PlaceOK, Moving
    <2>3. \A d \in Call : response'[d] = IF d = c THEN "ok" ELSE response[d]
      BY <1>0, <2>1 DEF TypeOK, Leave
    <2>4. ASSUME NEW s \in Slot
          PROVE  wrote'[s] = IF s \in input[c].slots THEN wrote[s] \cup {c} ELSE wrote[s]
      <3>1. s \in Written(c) <=> s \in input[c].slots
        BY <1>1, CommitFacts
      <3>2. wrote'[s] = IF s \in Written(c) THEN wrote[s] \cup {c} ELSE wrote[s]
        BY <1>1 DEF Commit
      <3>3. QED
        BY <3>1, <3>2
    <2>5. \A s \in Slot : c \notin wrote[s]
      BY <1>0, <2>1, Unwritten
    <2>6. ASSUME NEW d \in Call, NEW s \in Slot
          PROVE  d \in wrote'[s] <=>
                   response'[d] = "ok" /\ input'[d].kind \in Writes /\ s \in input'[d].slots
      <3>1. d \in wrote[s] <=>
              response[d] = "ok" /\ input[d].kind \in Writes /\ s \in input[d].slots
        BY DEF AllOrNothing
      <3>2. input' = input
        BY <2>1
      <3>3. CASE d = c
        BY <2>2, <2>3, <2>4, <2>5, <3>2, <3>3
      <3>4. CASE d # c
        BY <2>3, <2>4, <3>1, <3>2, <3>4
      <3>5. QED
        BY <3>3, <3>4
    <2>7. ASSUME NEW d \in Call, response'[d] = "ok", NEW g \in Gap, g = input'[d].about
          PROVE  gap'[g] = "resolved"
      BY <2>1, <2>3, <2>7 DEF AllOrNothing
    <2>8. QED
      BY <2>6, <2>7 DEF AllOrNothing
  <1>2. ASSUME NEW c \in Call, Collide(c) \/ AbortDeadlock(c) \/ Fail(c) PROVE AllOrNothing'
    <2>1. pc[c] # "done" /\ Leave(c, "failed") /\ UNCHANGED <<wrote, gap, input>>
      BY <1>2 DEF Collide, AbortDeadlock, Fail
    <2>2. response'[c] = "failed" /\ \A d \in Call \ {c} : response'[d] = response[d]
      BY <1>0, <2>1 DEF TypeOK, Leave
    <2>3. QED
      BY <1>0, <2>1, <2>2, NoneKeeps DEF GapsStay
  <1>3. ASSUME NEW c \in Call, Lock(c) \/ Lookup(c) \/ Write(c) \/ Propose(c) PROVE AllOrNothing'
    BY <1>3 DEF Lock, Lookup, Write, Propose, AllOrNothing
  <1>4. ASSUME NEW c \in Call, CloseSession(c) PROVE AllOrNothing'
    <2>1. /\ pc[c] # "done" /\ Leave(c, "ok") /\ UNCHANGED <<wrote, gap, input>>
          /\ input[c] \in Input /\ input[c].kind = "learn"
      BY <1>0, <1>4, CallFacts DEF CloseSession, PlaceOK
    <2>2. \A d \in Call \ {c} : response'[d] = response[d]
      BY <1>0, <2>1 DEF TypeOK, Leave
    <2>3. input[c].about \notin Gap /\ input[c].kind \notin Writes
      BY <2>1, InputFacts DEF Writes
    <2>4. QED
      BY <1>0, <2>1, <2>2, <2>3, NoneKeeps DEF GapsStay
  <1>5. ASSUME NEW c \in Call, Reject(c) \/ Edit(c) PROVE AllOrNothing'
    <2>1. /\ pc[c] # "done" /\ Reply(c, "ok") /\ UNCHANGED <<wrote, gap, input>>
          /\ input[c] \in Input /\ input[c].kind \in {"reject", "edit"}
      BY <1>0, <1>5, CallFacts DEF Reject, Edit, PlaceOK
    <2>2. \A d \in Call \ {c} : response'[d] = response[d]
      BY <1>0, <2>1 DEF TypeOK, Reply
    <2>3. input[c].about \notin Gap /\ input[c].kind \notin Writes
      BY <2>1, InputFacts DEF Writes
    <2>4. QED
      BY <1>0, <2>1, <2>2, <2>3, NoneKeeps DEF GapsStay
  <1>6. ASSUME NEW c \in Call, NEW i \in Input,
               \/ StartWriting(c, i) \/ StartReject(c, i) \/ StartEdit(c, i) \/ RecordEdit(c, i)
        PROVE  AllOrNothing'
    <2>1. /\ pc[c] = "new" /\ UNCHANGED <<wrote, gap, response>>
          /\ \A d \in Call \ {c} : input'[d] = input[d]
      BY <1>0, <1>6 DEF TypeOK, StartWriting, StartReject, StartEdit, RecordEdit, Called
    <2>2. response'[c] # "ok"
      BY <1>0, <2>1 DEF PlaceOK
    <2>3. QED
      BY <1>0, <2>1, <2>2, NoneKeeps DEF GapsStay
  <1>7. ASSUME NEW c \in Call, NEW i \in Input,
               ResolveOnly(c, i) \/ Refuse(c, i) \/ CreateCollides(c, i) \/ NotFound(c, i)
        PROVE  AllOrNothing'
    <2>1. /\ pc[c] = "new" /\ UNCHANGED wrote /\ GapsStay
          /\ \A d \in Call \ {c} : input'[d] = input[d]
      BY <1>0, <1>7 DEF TypeOK, ResolveOnly, Refuse, CreateCollides, NotFound, Called, GapsStay
    <2>2. Reply(c, "unanswered") \/ Reply(c, "refused") \/ Reply(c, "failed")
      BY <1>7 DEF ResolveOnly, Refuse, CreateCollides, NotFound
    <2>3. response'[c] # "ok" /\ \A d \in Call \ {c} : response'[d] = response[d]
      BY <1>0, <2>2 DEF TypeOK, Reply
    <2>4. QED
      BY <1>0, <2>1, <2>3, NoneKeeps
  <1>8. ASSUME NEW c \in Call, NEW i \in Input, Create(c, i) \/ Delete(c, i) PROVE AllOrNothing'
    <2>1. /\ pc[c] = "new" /\ UNCHANGED wrote /\ input'[c] = i /\ Reply(c, "ok")
          /\ i.kind \in {"create", "resolve_kb", "delete"}
          /\ \A d \in Call \ {c} : input'[d] = input[d]
      BY <1>0, <1>8 DEF TypeOK, Create, Delete, Called
    <2>2. \A g \in Gap : gap'[g] = "resolved" \/ (gap'[g] = gap[g] /\ g # i.about)
      <3>1. CASE Create(c, i)
        BY <3>1 DEF Create
      <3>2. CASE Delete(c, i)
        BY <2>1, <3>2, InputFacts DEF Delete, Called
      <3>3. QED
        BY <1>8, <3>1, <3>2
    <2>3. \A d \in Call \ {c} : response'[d] = response[d]
      BY <1>0, <2>1 DEF TypeOK, Reply
    <2>4. i.kind \notin Writes
      BY <2>1 DEF Writes
    <2>5. QED
      BY <1>0, <2>1, <2>2, <2>3, <2>4, NoneKeeps DEF GapsStay
  <1>9. CASE UNCHANGED vars
    BY <1>9 DEF vars, AllOrNothing
  <1>10. QED
    BY <1>1, <1>2, <1>3, <1>4, <1>5, <1>6, <1>7, <1>8, <1>9 DEF Next, Start, Advance

(* Only a commit approves, and only a rejection takes an approval back.    *)
LEMMA ReviewSteps ==
  ASSUME Known, [Next]_vars
  PROVE  \/ UNCHANGED <<candidate, promoted>>
         \/ \E c \in Call : Commit(c) \/ Reject(c)
  <1> USE DEF tables
  <1>1. ASSUME NEW c \in Call, NEW i \in Input, Start(c, i) PROVE UNCHANGED <<candidate, promoted>>
    BY <1>1 DEF Start, StartWriting, ResolveOnly, Refuse, StartReject, RecordEdit, Create,
                CreateCollides, StartEdit, Delete, NotFound
  <1>2. ASSUME NEW c \in Call, Advance(c) \/ Fail(c), ~Commit(c), ~Reject(c)
        PROVE  UNCHANGED <<candidate, promoted>>
    BY <1>2 DEF Advance, Lock, Lookup, Write, Collide, AbortDeadlock, Fail, Propose, CloseSession,
                Edit
  <1>3. CASE UNCHANGED vars
    BY <1>3 DEF vars
  <1>4. QED
    BY <1>1, <1>2, <1>3 DEF Next

(* What was written stays on record, and so does what was asked.           *)
LEMMA WroteStays ==
  ASSUME Known, AllOrNothing, [Next]_vars, NEW s \in Slot, NEW c \in wrote[s]
  PROVE  c \in wrote'[s] /\ input'[c] = input[c]
  <1>0. TypeOK /\ CallInv /\ PlaceOK
    BY DEF Known, CallInv
  <1>1. c \in Call /\ pc[c] # "new"
    BY <1>0 DEF TypeOK, AllOrNothing, PlaceOK
  <1>2. wrote[s] \subseteq wrote'[s]
    <2>1. ASSUME NEW d \in Call, Commit(d) PROVE wrote[s] \subseteq wrote'[s]
      BY <2>1 DEF Commit
    <2>2. ASSUME NEW d \in Call, NEW i \in Input, Edit(d) \/ Create(d, i) \/ Delete(d, i)
          PROVE  wrote'[s] = wrote[s]
      BY <2>2 DEF Edit, Create, Delete, past
    <2>3. ASSUME NEW d \in Call, Edit(d) PROVE wrote'[s] = wrote[s]
      BY <2>3 DEF Edit
    <2>4. QED
      BY <1>0, <2>1, <2>2, <2>3, SlotSteps DEF slots
  <1>3. ASSUME NEW d \in Call, NEW i \in Input, Start(d, i) PROVE input'[c] = input[c]
    BY <1>0, <1>1, <1>3
       DEF TypeOK, Start, StartWriting, ResolveOnly, Refuse, StartReject, RecordEdit, Create,
           CreateCollides, StartEdit, Delete, NotFound, Called
  <1>4. ASSUME NEW d \in Call, Advance(d) \/ Fail(d) PROVE input'[c] = input[c]
    BY <1>4 DEF Advance, Lock, Lookup, Write, Collide, Commit, AbortDeadlock, Reject, Propose,
                CloseSession, Edit, Fail
  <1>5. CASE UNCHANGED vars
    BY <1>1, <1>2, <1>5 DEF vars
  <1>6. QED
    BY <1>1, <1>2, <1>3, <1>4, <1>5 DEF Next

LEMMA ApprovedStep ==
  ASSUME Known, AllOrNothing, ApprovedIsWritten, [Next]_vars
  PROVE  ApprovedIsWritten'
  <1>0. TypeOK /\ CallInv /\ PlaceOK /\ TodoOK
    BY DEF Known, CallInv
  <1>1. SUFFICES ASSUME NEW k \in Candidate, candidate'[k] = "approved"
                 PROVE  \E s \in Slot : /\ promoted'[k] = s
                                       /\ \E c \in wrote'[s] : /\ input'[c].kind = "approve"
                                                              /\ input'[c].about = k
    BY DEF ApprovedIsWritten
  <1>2. CASE candidate[k] = "approved" /\ promoted'[k] = promoted[k]
    <2>1. PICK s \in Slot : promoted[k] = s
                          /\ \E c \in wrote[s] : input[c].kind = "approve" /\ input[c].about = k
      BY <1>2 DEF ApprovedIsWritten
    <2>2. PICK c \in wrote[s] : input[c].kind = "approve" /\ input[c].about = k
      BY <2>1
    <2>3. QED
      BY <1>2, <2>1, <2>2, WroteStays
  <1>3. ASSUME NEW c \in Call, Commit(c), input[c].about = k
        PROVE  \E s \in Slot : /\ promoted'[k] = s
                              /\ \E d \in wrote'[s] : input'[d].kind = "approve" /\ input'[d].about = k
    <2>1. next[c] \in Slot /\ next[c] \in input[c].slots /\ input[c].kind = "approve"
      BY <1>0, <1>3, CallFacts DEF Commit, Moving
    <2>2. promoted'[k] = next[c] /\ UNCHANGED input
      BY <1>3 DEF Commit
    <2>3. c \in wrote'[next[c]]
      BY <1>3, <2>1, CommitFacts
    <2>4. QED
      BY <1>3, <2>1, <2>2, <2>3
  <1>4. ASSUME NEW c \in Call, Commit(c), input[c].about # k
        PROVE  candidate[k] = "approved" /\ promoted'[k] = promoted[k]
    BY <1>1, <1>4 DEF Commit
  <1>5. ASSUME NEW c \in Call, Reject(c)
        PROVE  candidate[k] = "approved" /\ promoted'[k] = promoted[k]
    BY <1>0, <1>1, <1>5 DEF Reject, TypeOK
  <1>6. CASE UNCHANGED <<candidate, promoted>>
    BY <1>1, <1>2, <1>6
  <1>7. QED
    BY <1>2, <1>3, <1>4, <1>5, <1>6, ReviewSteps

-----------------------------------------------------------------------------
(***************************************************************************)
(* The theorems.                                                           *)
(***************************************************************************)
LEMMA InvInit == Init => Inv
  <1> SUFFICES ASSUME Init PROVE Inv
    OBVIOUS
  <1>1. [answer |-> Original, version |-> 1, active |-> TRUE] \in Entry
    BY DEF Entry, Answer
  <1>2. TypeOK
    BY <1>1, NullAssumption DEF Init, FromBefore, TypeOK, Status, Place, Response
  <1>3. PlaceOK /\ TodoOK /\ LockOK
    BY DEF Init, PlaceOK, TodoOK, LockOK, Moving
  <1>4. CurrentOK
    BY DEF Init, FromBefore, CurrentOK, Written
  <1>5. HistoryIsComplete
    BY NullAssumption DEF Init, FromBefore, HistoryIsComplete
  <1>6. AllOrNothing /\ ApprovedIsWritten
    BY DEF Init, AllOrNothing, ApprovedIsWritten
  <1>7. QED
    BY <1>2, <1>3, <1>4, <1>5, <1>6 DEF Inv

LEMMA InvStep == Inv /\ [Next]_vars => Inv'
  <1> SUFFICES ASSUME Inv, [Next]_vars PROVE Inv'
    OBVIOUS
  <1>1. /\ TypeOK /\ PlaceOK /\ TodoOK /\ CurrentOK /\ CallInv /\ Known
        /\ HistoryIsComplete /\ AllOrNothing /\ ApprovedIsWritten
    BY DEF Inv, CallInv, Known
  <1>2. TypeOK'
    BY <1>1, TypeStep
  <1>3. CallInv'
    BY <1>1, CallInvStep
  <1>4. CurrentOK'
    BY <1>1, CurrentStep
  <1>5. HistoryIsComplete' /\ AllOrNothing' /\ ApprovedIsWritten'
    BY <1>1, HistoryStep, AllOrNothingStep, ApprovedStep
  <1>6. QED
    BY <1>2, <1>3, <1>4, <1>5 DEF Inv, CallInv

LEMMA InvHolds == Spec => []Inv
  BY InvInit, InvStep, PTL DEF Spec

(* The tables, the locks and the requests keep their types; above all, no  *)
(* UPDATE by id ever meets a slot without an entry.                        *)
THEOREM TypeCorrect == Spec => []TypeOK
  <1>1. Inv => TypeOK
    BY DEF Inv
  <1>2. QED
    BY <1>1, InvHolds, PTL

(* The advisory lock makes every lookup and the write that follows it one  *)
(* step for the other writers (scoped_knowledge_service.py:340-447): no    *)
(* version is archived twice or skipped, and no committed answer is lost   *)
(* but to the dashboard's edit in place.                                   *)
THEOREM HistoryIsCompleteHolds == Spec => []HistoryIsComplete
  <1>1. Inv => HistoryIsComplete
    BY DEF Inv
  <1>2. QED
    BY <1>1, InvHolds, PTL

(* Uploads, approvals and resolutions are atomic, whatever ends them.      *)
THEOREM AllOrNothingHolds == Spec => []AllOrNothing
  <1>1. Inv => AllOrNothing
    BY DEF Inv
  <1>2. QED
    BY <1>1, InvHolds, PTL

(* A candidate on record as approved was written to the entry it names     *)
(* (staging_service.py:184-221).                                           *)
THEOREM ApprovedIsWrittenHolds == Spec => []ApprovedIsWritten
  <1>1. Inv => ApprovedIsWritten
    BY DEF Inv
  <1>2. QED
    BY <1>1, InvHolds, PTL

-----------------------------------------------------------------------------
(***************************************************************************)
(* The refinement of KnowledgeLedger.                                      *)
(***************************************************************************)
(* What a call looked up is an answer that the version it will replace has *)
(* or had: only an edit in place comes between.                            *)
ReadWasAnswer == \A c \in Call, s \in Slot : read[c][s] \notin {Unread, NoEntry} =>
    read[c][s].answer \in {entry[s].answer} \cup edited[s]

LEMMA ReadSteps ==
  ASSUME TypeOK, CallInv, [Next]_vars, NEW d \in Call, NEW s \in Slot
  PROVE  \/ read'[d][s] \in {read[d][s], Unread}
         \/ UNCHANGED <<slots, edited>> /\ read'[d][s] = entry[s]
  <1> USE DEF locals, tables, past, slots
  <1>0. PlaceOK /\ TodoOK
    BY DEF CallInv
  <1>1. ASSUME NEW c \in Call, Lookup(c)
        PROVE  \/ read'[d][s] = read[d][s]
               \/ UNCHANGED <<slots, edited>> /\ read'[d][s] = entry[s]
    <2>1. next[c] \in Slot
      BY <1>0, <1>1, CallFacts DEF Lookup, Moving
    <2>2. QED
      BY <1>1, <2>1 DEF TypeOK, Lookup
  <1>2. ASSUME NEW c \in Call, Leave(c, "failed") \/ Leave(c, "ok")
        PROVE  read'[d][s] \in {read[d][s], Unread}
    <2>1. read' = [read EXCEPT ![c] = [t \in Slot |-> Unread]]
      BY <1>2 DEF Leave
    <2>2. read'[d] = IF d = c THEN [t \in Slot |-> Unread] ELSE read[d]
      BY <2>1 DEF TypeOK
    <2>3. QED
      BY <2>2
  <1>3. ASSUME NEW c \in Call,
               Collide(c) \/ Commit(c) \/ AbortDeadlock(c) \/ CloseSession(c) \/ Fail(c)
        PROVE  read'[d][s] \in {read[d][s], Unread}
    BY <1>2, <1>3 DEF Collide, Commit, AbortDeadlock, CloseSession, Fail
  <1>4. ASSUME NEW c \in Call, Lock(c) \/ Write(c) \/ Reject(c) \/ Propose(c) \/ Edit(c)
        PROVE  UNCHANGED read
    BY <1>4 DEF Lock, Write, Reject, Propose, Edit, Reply
  <1>5. ASSUME NEW c \in Call, NEW i \in Input, Start(c, i) PROVE UNCHANGED read
    BY <1>5 DEF Start, StartWriting, ResolveOnly, Refuse, StartReject, RecordEdit, Create,
                CreateCollides, StartEdit, Delete, NotFound, Reply
  <1>6. CASE UNCHANGED vars
    BY <1>6 DEF vars
  <1>7. CASE \E c \in Call : (\E i \in Input : Start(c, i)) \/ Advance(c) \/ Fail(c)
    <2>1. PICK c \in Call : (\E i \in Input : Start(c, i)) \/ Advance(c) \/ Fail(c)
      BY <1>7
    <2>2. CASE Lookup(c)
      BY <1>1, <2>2
    <2>3. CASE ~Lookup(c)
      BY <1>3, <1>4, <1>5, <2>1, <2>3 DEF Advance
    <2>4. QED
      BY <2>2, <2>3
  <1>8. QED
    BY <1>6, <1>7 DEF Next

LEMMA ReadWasAnswerStep ==
  ASSUME Known, ReadWasAnswer, [Next]_vars
  PROVE  ReadWasAnswer'
  <1>0. TypeOK /\ CallInv /\ CurrentOK /\ PlaceOK
    BY DEF Known, CallInv
  <1>1. SUFFICES ASSUME NEW d \in Call, NEW s \in Slot, read'[d][s] \notin {Unread, NoEntry}
                 PROVE  read'[d][s].answer \in {entry'[s].answer} \cup edited'[s]
    BY DEF ReadWasAnswer
  <1>2. CASE UNCHANGED <<slots, edited>>
    BY <1>0, <1>1, <1>2, ReadSteps DEF ReadWasAnswer, slots
  <1>3. ASSUME read'[d][s] = read[d][s],
               /\ entry[s].answer \in {entry'[s].answer} \cup edited'[s]
               /\ edited[s] \subseteq edited'[s]
        PROVE  read'[d][s].answer \in {entry'[s].answer} \cup edited'[s]
    BY <1>1, <1>3 DEF ReadWasAnswer
  <1>4. ASSUME ~UNCHANGED <<slots, edited>> PROVE read'[d][s] = read[d][s]
    BY <1>0, <1>1, <1>4, ReadSteps
  <1>5. ASSUME NEW c \in Call, Commit(c), ~UNCHANGED <<slots, edited>>
        PROVE  read'[d][s].answer \in {entry'[s].answer} \cup edited'[s]
    <2>1. UNCHANGED edited
      BY <1>5 DEF Commit
    <2>2. CASE s \in Written(c)
      <3>1. d # c
        BY <1>0, <1>1, <1>5 DEF Commit, Leave, TypeOK
      <3>2. read[d][s] = Unread
        BY <1>5, <2>2, <3>1, CommitFacts
      <3>3. QED
        BY <1>1, <1>4, <1>5, <3>2
    <2>3. CASE s \notin Written(c)
      BY <1>3, <1>4, <1>5, <2>1, <2>3, CommitFacts
    <2>4. QED
      BY <2>2, <2>3
  <1>6. ASSUME NEW c \in Call, Edit(c), ~UNCHANGED <<slots, edited>>
        PROVE  read'[d][s].answer \in {entry'[s].answer} \cup edited'[s]
    <2> DEFINE u == TheSlot(input[c])
    <2>1. u \in Slot
      BY <1>0, <1>6, CallFacts DEF Edit, Known, CallInv
    <2>2. /\ entry' = [entry EXCEPT ![u].answer = c]
          /\ edited' = [edited EXCEPT ![u] = @ \cup {entry[u].answer}]
      BY <1>6 DEF Edit
    <2> HIDE DEF u
    <2>3. CASE s = u
      <3>1. edited'[s] = edited[s] \cup {entry[s].answer}
        BY <1>0, <2>1, <2>2, <2>3 DEF TypeOK
      <3>2. QED
        BY <1>3, <1>4, <1>6, <3>1
    <2>4. CASE s # u
      <3>1. edited'[s] = edited[s] /\ entry'[s] = entry[s]
        BY <1>0, <2>2, <2>4 DEF TypeOK
      <3>2. QED
        BY <1>3, <1>4, <1>6, <3>1
    <2>5. QED
      BY <2>3, <2>4
  <1>7. ASSUME NEW c \in Call, NEW i \in Input, Create(c, i), ~UNCHANGED <<slots, edited>>
        PROVE  read'[d][s].answer \in {entry'[s].answer} \cup edited'[s]
    <2> DEFINE u == TheSlot(i)
    <2>1. /\ entry[u] = NoEntry /\ Free(u) /\ UNCHANGED edited
          /\ entry' = [entry EXCEPT ![u] = [answer |-> c, version |-> 1, active |-> TRUE]]
      BY <1>7 DEF Create, past
    <2> HIDE DEF u
    <2>2. s # u
      <3>1. read[d][s] \notin {Unread, NoEntry}
        BY <1>1, <1>4, <1>7
      <3>2. entry[s] # NoEntry
        BY <1>0, <3>1 DEF CurrentOK
      <3>3. QED
        BY <2>1, <3>2
    <2>3. entry'[s] = entry[s]
      BY <1>0, <2>1, <2>2 DEF TypeOK
    <2>4. QED
      BY <1>3, <1>4, <1>7, <2>1, <2>3
  <1>8. ASSUME NEW c \in Call, NEW i \in Input, Delete(c, i), ~UNCHANGED <<slots, edited>>
        PROVE  read'[d][s].answer \in {entry'[s].answer} \cup edited'[s]
    <2> DEFINE u == TheSlot(i)
    <2>1. u \in Slot
      BY <1>8, TheSlotIn DEF Delete, Called
    <2>2. /\ entry' = [entry EXCEPT ![u].active = FALSE] /\ entry[u] # NoEntry /\ UNCHANGED edited
      BY <1>8 DEF Delete
    <2> HIDE DEF u
    <2>3. entry'[s].answer = entry[s].answer
      BY <1>0, <2>1, <2>2 DEF TypeOK, Entry
    <2>4. QED
      BY <1>3, <1>4, <1>8, <2>2, <2>3
  <1>9. QED
    BY <1>0, <1>2, <1>5, <1>6, <1>7, <1>8, SlotSteps

LEMMA LedgerInit == Init => Ledger!Init
  BY DEF Init, Ledger!Init

(* One step of the ledger, for a call and what it has asked for.           *)
LEMMA LedgerNext ==
  ASSUME NEW c \in Call, NEW i \in Input, input'[c] = i,
         \/ Ledger!Hear(c, i) \/ Ledger!Publish(c, i) \/ Ledger!Close(c, i)
         \/ Ledger!Reject(c, i) \/ Ledger!Create(c, i) \/ Ledger!Edit(c, i)
         \/ Ledger!Delete(c, i) \/ Ledger!Learn(c, i) \/ Ledger!Refuse(c, i)
         \/ Ledger!Fail(c, i)
  PROVE  Ledger!Next
  BY DEF Ledger!Next

(* A call that has not answered answers, with its arrival or later. *)
LEMMA LedgerAnswer ==
  ASSUME TypeOK, PlaceOK, NEW c \in Call, NEW i \in Input, NEW a \in Response,
         pc[c] # "done", response' = [response EXCEPT ![c] = a],
         \/ pc[c] = "new" /\ input' = [input EXCEPT ![c] = i]
         \/ input[c] = i /\ UNCHANGED input
  PROVE  Ledger!Answer(c, i, a) /\ input'[c] = i
  <1>1. response[c] = "none"
    BY DEF PlaceOK
  <1>2. input[c] \in {Nothing, i} /\ input' = [input EXCEPT ![c] = i]
    BY DEF TypeOK, PlaceOK
  <1>3. input'[c] = i
    BY <1>2 DEF TypeOK
  <1>4. QED
    BY <1>1, <1>2, <1>3 DEF Ledger!Answer

(* A call that ends without an effect fails, whatever it has done before.  *)
LEMMA LedgerFail ==
  ASSUME TypeOK, PlaceOK, NEW c \in Call, pc[c] \notin {"new", "done"}, Leave(c, "failed"),
         UNCHANGED <<tables, input, past>>
  PROVE  Ledger!Next
  <1>1. input[c] \in Input
    BY DEF TypeOK, PlaceOK
  <1>2. Ledger!Answer(c, input[c], "failed") /\ input'[c] = input[c]
    BY <1>1, LedgerAnswer DEF Leave, Response
  <1>3. Ledger!Fail(c, input[c])
    BY <1>2 DEF Ledger!Fail, Ledger!slots, Ledger!reviews, tables, past
  <1>4. QED
    BY <1>1, <1>2, <1>3, LedgerNext

LEMMA LedgerHear ==
  ASSUME TypeOK, PlaceOK, NEW c \in Call, NEW i \in Input,
         \/ StartWriting(c, i) \/ StartReject(c, i) \/ StartEdit(c, i) \/ RecordEdit(c, i)
  PROVE  Ledger!Next
  <1>1. /\ pc[c] = "new" /\ input' = [input EXCEPT ![c] = i]
        /\ i.kind = "approve" => candidate[i.about] \in {"pending", "approved"}
        /\ UNCHANGED <<tables, edited, response>>
    BY DEF StartWriting, StartReject, StartEdit, RecordEdit, Called, past
  <1>2. input[c] = Nothing /\ input'[c] = i
    BY <1>1 DEF TypeOK, PlaceOK
  <1>3. Ledger!Hear(c, i)
    BY <1>1, <1>2 DEF Ledger!Hear, Ledger!slots, Ledger!reviews, tables
  <1>4. QED
    BY <1>2, <1>3, LedgerNext

(* Of requests that are answered as they arrive. *)
LEMMA LedgerTurnedDown ==
  ASSUME TypeOK, PlaceOK, NEW c \in Call, NEW i \in Input,
         Refuse(c, i) \/ NotFound(c, i) \/ CreateCollides(c, i)
  PROVE  Ledger!Next
  <1>1. /\ pc[c] = "new" /\ input' = [input EXCEPT ![c] = i]
        /\ UNCHANGED <<tables, past>>
    BY DEF Refuse, NotFound, CreateCollides, Called
  <1>2. CASE CreateCollides(c, i)
    <2>1. Ledger!Answer(c, i, "failed") /\ input'[c] = i
      BY <1>1, <1>2, LedgerAnswer DEF CreateCollides, Reply, Response
    <2>2. Ledger!Fail(c, i)
      BY <1>1, <2>1 DEF Ledger!Fail, Ledger!slots, Ledger!reviews, tables, past
    <2>3. QED
      BY <2>1, <2>2, LedgerNext
  <1>3. CASE Refuse(c, i) \/ NotFound(c, i)
    <2>1. Ledger!Answer(c, i, "refused") /\ input'[c] = i
      BY <1>1, <1>3, LedgerAnswer DEF Refuse, NotFound, Reply, Response
    <2>2. CASE Refuse(c, i)
      <3>1. i.kind \in {"approve", "reject"} /\ candidate[i.about] # "pending"
        BY <2>2 DEF Refuse, Called
      <3>2. Ledger!Refuse(c, i)
        BY <1>1, <2>1, <3>1 DEF Ledger!Refuse, Ledger!slots, Ledger!reviews, tables, past
      <3>3. QED
        BY <2>1, <3>2, LedgerNext
    <2>3. CASE NotFound(c, i)
      <3>1. /\ i.kind \in {"edit", "delete"}
            /\ i.kind = "edit" => ~Editable(TheSlot(i))
            /\ i.kind = "delete" => entry[TheSlot(i)] = NoEntry
        BY <2>3 DEF NotFound, Called
      <3>2. \A s \in i.slots : s = TheSlot(i)
        BY <3>1, InputFacts, TheSlotIn
      <3>3. Ledger!Refuse(c, i)
        BY <1>1, <2>1, <3>1, <3>2
           DEF Editable, Ledger!Refuse, Ledger!slots, Ledger!reviews, tables, past
      <3>4. QED
        BY <2>1, <3>3, LedgerNext
    <2>4. QED
      BY <1>3, <2>2, <2>3
  <1>4. QED
    BY <1>2, <1>3

LEMMA LedgerClose ==
  ASSUME TypeOK, PlaceOK, NEW c \in Call, NEW i \in Input, ResolveOnly(c, i)
  PROVE  Ledger!Next
  <1>1. /\ pc[c] = "new" /\ input' = [input EXCEPT ![c] = i] /\ i.kind = "resolve"
        /\ gap' = [gap EXCEPT ![i.about] = "resolved"]
        /\ UNCHANGED <<entry, history, candidate, promoted, past>>
    BY DEF ResolveOnly, Called
  <1>2. Ledger!Answer(c, i, "unanswered") /\ input'[c] = i
    BY <1>1, LedgerAnswer DEF ResolveOnly, Reply, Response
  <1>3. gap' = [g \in Gap |-> IF g = i.about THEN "resolved" ELSE gap[g]]
    BY <1>1 DEF TypeOK
  <1>4. Ledger!Close(c, i)
    BY <1>1, <1>2, <1>3
       DEF Ledger!Close, Ledger!Resolve, Ledger!slots, Ledger!reviews, past
  <1>5. QED
    BY <1>2, <1>4, LedgerNext

LEMMA LedgerReject ==
  ASSUME TypeOK, PlaceOK, NEW c \in Call, Reject(c)
  PROVE  Ledger!Next
  <1>1. pc[c] = "reject" /\ input[c] \in Input /\ input[c].kind = "reject"
    BY DEF TypeOK, PlaceOK, Reject
  <1>2. Ledger!Answer(c, input[c], "ok") /\ input'[c] = input[c]
    BY <1>1, LedgerAnswer DEF Reject, Reply, Response
  <1>3. Ledger!Reject(c, input[c])
    BY <1>1, <1>2 DEF Reject, Ledger!Reject, Ledger!slots, past
  <1>4. QED
    BY <1>1, <1>2, <1>3, LedgerNext

LEMMA LedgerLearn ==
  ASSUME TypeOK, PlaceOK, NEW c \in Call, CloseSession(c)
  PROVE  Ledger!Next
  <1>1. pc[c] = "close" /\ input[c] \in Input /\ input[c].kind = "learn"
    BY DEF TypeOK, PlaceOK, CloseSession
  <1>2. Ledger!Answer(c, input[c], "ok") /\ input'[c] = input[c]
    BY <1>1, LedgerAnswer DEF CloseSession, Leave, Response
  <1>3. Ledger!Learn(c, input[c])
    BY <1>1, <1>2 DEF CloseSession, Ledger!Learn, Ledger!slots, Ledger!reviews, tables, past
  <1>4. QED
    BY <1>1, <1>2, <1>3, LedgerNext

LEMMA LedgerCreate ==
  ASSUME TypeOK, PlaceOK, NEW c \in Call, NEW i \in Input, Create(c, i)
  PROVE  Ledger!Next
  <1>1. /\ pc[c] = "new" /\ input' = [input EXCEPT ![c] = i]
        /\ i.kind \in {"create", "resolve_kb"} /\ Reply(c, "ok")
    BY DEF Create, Called
  <1>2. Ledger!Answer(c, i, "ok") /\ input'[c] = i
    BY <1>1, LedgerAnswer DEF Reply, Response
  <1>3. TheSlot(i) \in i.slots
    BY <1>1, TheSlotIn
  <1>4. Ledger!Create(c, i)
    BY <1>1, <1>2, <1>3
       DEF Create, Ledger!Create, Ledger!New, Ledger!Resolve, Ledger!reviews, past
  <1>5. QED
    BY <1>2, <1>4, LedgerNext

LEMMA LedgerDelete ==
  ASSUME TypeOK, PlaceOK, NEW c \in Call, NEW i \in Input, Delete(c, i)
  PROVE  Ledger!Next
  <1>1. /\ pc[c] = "new" /\ input' = [input EXCEPT ![c] = i]
        /\ i.kind = "delete" /\ Reply(c, "ok")
    BY DEF Delete, Called
  <1>2. Ledger!Answer(c, i, "ok") /\ input'[c] = i
    BY <1>1, LedgerAnswer DEF Reply, Response
  <1>3. TheSlot(i) \in i.slots
    BY <1>1, TheSlotIn
  <1>4. Ledger!Delete(c, i)
    BY <1>1, <1>2, <1>3 DEF Delete, Ledger!Delete, Ledger!reviews
  <1>5. QED
    BY <1>2, <1>4, LedgerNext

(* The entry is still there when the edit that found it writes. *)
LEMMA LedgerEdit ==
  ASSUME TypeOK, PlaceOK, CurrentOK, NEW c \in Call, Edit(c)
  PROVE  Ledger!Next
  <1>1. pc[c] = "edit" /\ input[c] \in Input /\ input[c].kind = "edit"
    BY DEF TypeOK, PlaceOK, Edit
  <1>2. Ledger!Answer(c, input[c], "ok") /\ input'[c] = input[c]
    BY <1>1, LedgerAnswer DEF Edit, Reply, Response
  <1>3. TheSlot(input[c]) \in input[c].slots /\ TheSlot(input[c]) \in Slot
    BY <1>1, TheSlotIn
  <1>4. entry[TheSlot(input[c])] # NoEntry
    BY <1>1, <1>3 DEF CurrentOK
  <1>5. Ledger!Edit(c, input[c])
    BY <1>1, <1>2, <1>3, <1>4 DEF Edit, Ledger!Edit, Ledger!reviews
  <1>6. QED
    BY <1>1, <1>2, <1>5, LedgerNext

(* The commit: what was written on the way becomes one step. *)
LEMMA LedgerPublish ==
  ASSUME Known, ReadWasAnswer, NEW c \in Call, Commit(c)
  PROVE  Ledger!Next
  <1> DEFINE i == input[c]
  <1>0. TypeOK /\ PlaceOK /\ TodoOK /\ CurrentOK
    BY DEF Known, CallInv
  <1>1. pc[c] = "commit" /\ i \in Input /\ i.kind \in Writes /\ next[c] \in i.slots
    BY <1>0 DEF TypeOK, PlaceOK, TodoOK, Commit, Moving
  <1>2. Ledger!Answer(c, i, "ok") /\ input'[c] = i
    BY <1>0, <1>1, LedgerAnswer DEF Commit, Leave, Response
  <1>3. \A s \in Slot : s \in Written(c) <=> s \in i.slots
    BY CommitFacts
  <1>4. ASSUME NEW s \in Slot, s \in Written(c)
        PROVE  Stored(c, s) = Ledger!NextVersion(i, s, c) /\ First(c, s) = Ledger!First(i, s, c)
    <2>1. entry[s] = NoEntry => read[c][s] = NoEntry
      BY <1>0, <1>4 DEF CurrentOK, Written
    <2>2. entry[s] # NoEntry =>
             read[c][s] # NoEntry /\ read[c][s].version = entry[s].version /\ entry[s].version \in Nat
      BY <1>0, <1>4 DEF CurrentOK, Written, TypeOK, Entry
    <2>3. Ledger!Versions(i, s) = 1 + Again(c, s) /\ Again(c, s) \in {0, 1}
      BY DEF Ledger!Versions, Again
    <2>4. Stored(c, s) = Ledger!NextVersion(i, s, c)
      <3>1. CASE entry[s] = NoEntry
        BY <2>1, <2>3, <3>1 DEF Stored, Ledger!NextVersion, Ledger!New
      <3>2. CASE entry[s] # NoEntry
        <4>1. entry[s].version + 1 + Again(c, s) = entry[s].version + Ledger!Versions(i, s)
          BY <2>2, <2>3, <3>2
        <4>2. QED
          BY <2>2, <3>2, <4>1 DEF Stored, Ledger!NextVersion
      <3>3. QED
        BY <3>1, <3>2
    <2>5. QED
      BY <2>4 DEF First, Ledger!First
  <1>5. entry' = [s \in Slot |-> IF s \in i.slots THEN Ledger!NextVersion(i, s, c) ELSE entry[s]]
    BY <1>3, <1>4 DEF Commit
  <1>6. Ledger!Archive(i, c)
    <2>1. ASSUME NEW s \in Slot, s \notin i.slots
          PROVE  history'[s] = history[s]
      BY <1>3, <2>1, CommitFacts
    <2>2. ASSUME NEW s \in Slot, s \in i.slots
          PROVE  history'[s] = history[s] \cup Found(c, s) \cup Ledger!First(i, s, c)
      BY <1>3, <1>4, <2>2, CommitFacts
    <2>3. ASSUME NEW s \in Slot, s \in i.slots, entry[s] # NoEntry
          PROVE  \E a \in {entry[s].answer} \cup edited[s] :
                   history'[s] = history[s] \cup Ledger!First(i, s, c) \cup
                      {[version |-> entry[s].version, answer |-> a, by |-> c]}
      <3>1. read[c][s] \notin {Unread, NoEntry}
        BY <1>0, <1>3, <2>3 DEF CurrentOK, Written
      <3>2. read[c][s].answer \in {entry[s].answer} \cup edited[s]
        BY <3>1 DEF ReadWasAnswer
      <3>3. history'[s] = history[s] \cup Ledger!First(i, s, c) \cup
               {[version |-> entry[s].version, answer |-> read[c][s].answer, by |-> c]}
        BY <2>2, <2>3 DEF Found
      <3>4. QED
        BY <3>2, <3>3
    <2>4. ASSUME NEW s \in Slot, s \in i.slots, entry[s] = NoEntry
          PROVE  history'[s] = history[s] \cup Ledger!First(i, s, c)
      BY <2>2, <2>4 DEF Found
    <2>5. history' = [s \in Slot |-> history'[s]]
      BY DEF Commit
    <2>6. QED
      BY <2>1, <2>3, <2>4, <2>5 DEF Ledger!Archive
  <1>7. Ledger!Publish(c, i)
    BY <1>1, <1>2, <1>5, <1>6 DEF Commit, Ledger!Publish, Ledger!Resolve
  <1>8. QED
    BY <1>1, <1>2, <1>7, LedgerNext

LEMMA LedgerStep == Inv /\ ReadWasAnswer /\ [Next]_vars => [Ledger!Next]_(Ledger!ledger)
  <1> SUFFICES ASSUME Inv, ReadWasAnswer, [Next]_vars
               PROVE  Ledger!Next \/ UNCHANGED Ledger!ledger
    OBVIOUS
  <1>0. Known /\ TypeOK /\ PlaceOK /\ CurrentOK
    BY DEF Inv, Known, CallInv
  <1>1. ASSUME NEW c \in Call, NEW i \in Input, Start(c, i) PROVE Ledger!Next
    BY <1>0, <1>1, LedgerHear, LedgerTurnedDown, LedgerClose, LedgerCreate, LedgerDelete DEF Start
  <1>2. ASSUME NEW c \in Call, Collide(c) \/ AbortDeadlock(c) \/ Fail(c) PROVE Ledger!Next
    <2>1. pc[c] \notin {"new", "done"} /\ Leave(c, "failed") /\ UNCHANGED <<tables, input, past>>
      BY <1>2 DEF Collide, AbortDeadlock, Fail
    <2>2. QED
      BY <1>0, <2>1, LedgerFail
  <1>3. ASSUME NEW c \in Call, Commit(c) \/ Reject(c) \/ CloseSession(c) \/ Edit(c)
        PROVE  Ledger!Next
    BY <1>0, <1>3, LedgerPublish, LedgerReject, LedgerLearn, LedgerEdit
  <1>4. ASSUME NEW c \in Call, Lock(c) \/ Lookup(c) \/ Write(c) \/ Propose(c)
        PROVE  UNCHANGED Ledger!ledger
    BY <1>4 DEF Lock, Lookup, Write, Propose, tables, past, Ledger!ledger, Ledger!slots, Ledger!reviews
  <1>5. CASE UNCHANGED vars
    BY <1>5 DEF vars, tables, past, Ledger!ledger, Ledger!slots, Ledger!reviews
  <1>6. QED
    BY <1>1, <1>2, <1>3, <1>4, <1>5 DEF Next, Advance

(* Whatever requests overlap, and however locks, deadlocks and failures    *)
(* end them, an outsider sees them come one at a time: a request takes     *)
(* effect in the step that answers it, or never.                           *)
THEOREM ImplementsLedgerHolds == Spec => ImplementsLedger
  <1>1. Init => ReadWasAnswer
    BY DEF Init, ReadWasAnswer
  <1>2. Inv /\ ReadWasAnswer /\ [Next]_vars => ReadWasAnswer'
    BY ReadWasAnswerStep DEF Inv, Known, CallInv
  <1>3. QED
    BY LedgerInit, LedgerStep, InvHolds, <1>1, <1>2, PTL DEF Spec, ImplementsLedger, Ledger!Spec

-----------------------------------------------------------------------------
(***************************************************************************)
(* Waiting.                                                                *)
(***************************************************************************)
(* A lock is held by a call that is writing, and only finitely many calls  *)
(* are underway.                                                           *)
HeldOK == \A s \in Slot : lock[s] \in Call => pc[lock[s]] \in Moving

FewUnderway == IsFiniteSet(Underway)

LEMMA HeldStep ==
  ASSUME TypeOK, CallInv, HeldOK, [Next]_vars
  PROVE  HeldOK'
  <1> USE DEF locals
  <1>0. PlaceOK /\ TodoOK /\ \A s \in Slot : lock[s] \in Call \cup {Nothing}
    BY DEF CallInv, TypeOK
  (* A step of a call that holds nothing, or goes on writing. *)
  <1>1. ASSUME NEW c \in Call, UNCHANGED lock, \A d \in Call \ {c} : pc'[d] = pc[d],
               pc[c] \in Moving => pc'[c] \in Moving
        PROVE  HeldOK'
    BY <1>1 DEF HeldOK
  <1>2. ASSUME NEW c \in Call, NEW i \in Input, Start(c, i) PROVE HeldOK'
    <2>1. pc[c] = "new" /\ UNCHANGED lock
      BY <1>2 DEF Start, StartWriting, ResolveOnly, Refuse, StartReject, RecordEdit, Create,
                  CreateCollides, StartEdit, Delete, NotFound, Reply, Called
    <2>2. \A d \in Call \ {c} : pc'[d] = pc[d]
      BY <1>2 DEF TypeOK, Start, StartWriting, ResolveOnly, Refuse, StartReject, RecordEdit, Create,
                  CreateCollides, StartEdit, Delete, NotFound, Reply, Goto, Wants
    <2>3. QED
      BY <1>1, <2>1, <2>2 DEF Moving
  <1>3. ASSUME NEW c \in Call, Lookup(c) \/ Write(c) \/ Reject(c) \/ Propose(c) \/ Edit(c)
        PROVE  HeldOK'
    <2>1. UNCHANGED lock /\ \A d \in Call \ {c} : pc'[d] = pc[d]
      BY <1>3 DEF TypeOK, Lookup, Write, Reject, Propose, Edit, Reply, Goto, Wants
    <2>2. pc[c] \in Moving => pc'[c] \in Moving
      BY <1>3 DEF TypeOK, Lookup, Write, Reject, Propose, Edit, Goto, Wants, Moving
    <2>3. QED
      BY <1>1, <2>1, <2>2
  <1>4. ASSUME NEW c \in Call, Lock(c) PROVE HeldOK'
    <2>1. pc[c] \in Moving /\ pc'[c] \in Moving /\ \A d \in Call \ {c} : pc'[d] = pc[d]
      BY <1>4 DEF TypeOK, Lock, Goto, Moving
    <2>2. \A s \in Slot : lock'[s] \in {lock[s], c}
      BY <1>4 DEF TypeOK, Lock
    <2>3. QED
      BY <2>1, <2>2 DEF HeldOK
  <1>5. ASSUME NEW c \in Call, Leave(c, "failed") \/ Leave(c, "ok") PROVE HeldOK'
    <2>1. /\ \A d \in Call \ {c} : pc'[d] = pc[d]
          /\ \A s \in Slot : lock'[s] = IF lock[s] = c THEN Nothing ELSE lock[s]
      BY <1>5 DEF TypeOK, Leave, Goto
    <2>2. QED
      BY <1>0, <2>1, NullAssumption DEF HeldOK
  <1>6. CASE UNCHANGED vars
    BY <1>6 DEF vars, HeldOK
  <1>7. ASSUME NEW c \in Call,
               Collide(c) \/ Commit(c) \/ AbortDeadlock(c) \/ CloseSession(c) \/ Fail(c)
        PROVE  HeldOK'
    BY <1>5, <1>7 DEF Collide, Commit, AbortDeadlock, CloseSession, Fail
  <1>8. QED
    BY <1>2, <1>3, <1>4, <1>6, <1>7 DEF Next, Advance

(* What a step does to the call that makes it, and to the others. *)
LEMMA ForwardStep ==
  ASSUME TypeOK, CallInv, Next
  PROVE  \E c \in Call : Forward(c) /\ \A d \in Call \ {c} : UNCHANGED <<pc[d], todo[d]>>
  <1> USE DEF locals
  <1>0. PlaceOK /\ TodoOK
    BY DEF CallInv
  <1>1. ASSUME NEW c \in Call, NEW i \in Input, Start(c, i)
        PROVE  Forward(c) /\ \A d \in Call \ {c} : UNCHANGED <<pc[d], todo[d]>>
    <2>1. pc[c] = "new"
      BY <1>1 DEF Start, StartWriting, ResolveOnly, Refuse, StartReject, RecordEdit, Create,
                  CreateCollides, StartEdit, Delete, NotFound, Called
    <2>2. pc'[c] # "new" /\ \A d \in Call \ {c} : UNCHANGED <<pc[d], todo[d]>>
      BY <1>1 DEF TypeOK, Start, StartWriting, ResolveOnly, Refuse, StartReject, RecordEdit, Create,
                  CreateCollides, StartEdit, Delete, NotFound, Reply, Goto, Wants
    <2>3. QED
      BY <2>1, <2>2 DEF Forward
  <1>2. ASSUME NEW c \in Call, Leave(c, "failed") \/ Leave(c, "ok"), pc[c] \notin {"new", "done"}
        PROVE  Forward(c) /\ \A d \in Call \ {c} : UNCHANGED <<pc[d], todo[d]>>
    <2>1. /\ pc'[c] = "done" /\ todo'[c] = {}
          /\ \A d \in Call \ {c} : UNCHANGED <<pc[d], todo[d]>>
      BY <1>2 DEF TypeOK, Leave, Goto
    <2>2. Order[pc'[c]] > Order[pc[c]]
      BY <1>2, <2>1 DEF TypeOK, Place, Order
    <2>3. QED
      BY <1>2, <2>1, <2>2 DEF Forward
  <1>3. ASSUME NEW c \in Call,
               Collide(c) \/ Commit(c) \/ AbortDeadlock(c) \/ CloseSession(c) \/ Fail(c)
        PROVE  Forward(c) /\ \A d \in Call \ {c} : UNCHANGED <<pc[d], todo[d]>>
    <2>1. Leave(c, "failed") \/ Leave(c, "ok")
      BY <1>3 DEF Collide, Commit, AbortDeadlock, CloseSession, Fail
    <2>2. pc[c] \notin {"new", "done"}
      BY <1>3 DEF Collide, Commit, AbortDeadlock, CloseSession, Fail
    <2>3. QED
      BY <1>2, <2>1, <2>2
  <1>4. ASSUME NEW c \in Call, Lock(c) \/ Lookup(c) \/ Reject(c) \/ Propose(c) \/ Edit(c)
        PROVE  Forward(c) /\ \A d \in Call \ {c} : UNCHANGED <<pc[d], todo[d]>>
    <2>1. /\ todo'[c] = todo[c] /\ \A d \in Call \ {c} : UNCHANGED <<pc[d], todo[d]>>
          /\ \/ pc[c] = "lock" /\ pc'[c] = "lookup"
             \/ pc[c] = "lookup" /\ pc'[c] = "write"
             \/ pc[c] \in {"reject", "edit"} /\ pc'[c] = "done"
             \/ pc[c] = "propose" /\ pc'[c] = "close"
      BY <1>4 DEF TypeOK, Lock, Lookup, Reject, Propose, Edit, Reply, Goto
    <2>2. pc[c] # "new" /\ pc'[c] # "new" /\ Order[pc'[c]] > Order[pc[c]]
      BY <2>1 DEF Order
    <2>3. QED
      BY <2>1, <2>2 DEF Forward
  <1>5. ASSUME NEW c \in Call, Write(c)
        PROVE  Forward(c) /\ \A d \in Call \ {c} : UNCHANGED <<pc[d], todo[d]>>
    <2>1. /\ todo'[c] = todo[c] \ {next[c]} /\ pc[c] = "write" /\ pc'[c] \in {"lock", "commit"}
          /\ \A d \in Call \ {c} : UNCHANGED <<pc[d], todo[d]>>
      BY <1>5 DEF TypeOK, Write, Goto, Wants
    <2>2. next[c] \in todo[c]
      BY <1>0, <2>1 DEF TodoOK, Moving
    <2>3. QED
      BY <2>1, <2>2 DEF Forward
  <1>6. QED
    BY <1>1, <1>3, <1>4, <1>5 DEF Next, Advance

LEMMA FewStep ==
  ASSUME TypeOK, CallInv, FewUnderway, [Next]_vars
  PROVE  FewUnderway'
  <1>1. CASE UNCHANGED vars
    <2>1. Underway' = Underway
      BY <1>1 DEF Underway, vars
    <2>2. QED
      BY <2>1 DEF FewUnderway
  <1>2. CASE Next
    <2>1. PICK c \in Call : \A d \in Call \ {c} : pc'[d] = pc[d]
      BY <1>2, ForwardStep
    <2>2. Underway' \subseteq Underway \cup {c}
      BY <2>1 DEF Underway
    <2>3. IsFiniteSet(Underway \cup {c})
      BY FS_AddElement DEF FewUnderway
    <2>4. QED
      BY <2>2, <2>3, FS_Subset DEF FewUnderway
  <1>3. QED
    BY <1>1, <1>2

(* If all wait, those that wait for a lock wait for one another, each for  *)
(* just one: a circle, which the database finds.                           *)
LEMMA SomebodyGoesOn ==
  ASSUME TypeOK, CallInv, HeldOK, FewUnderway
  PROVE  NobodyStuck
  <1>0. PlaceOK /\ TodoOK /\ LockOK
    BY DEF CallInv
  <1>1. SUFFICES ASSUME NEW u \in Underway, \A c \in Underway : Waits(c) /\ ~Deadlocked(c)
                 PROVE  FALSE
    BY DEF NobodyStuck
  <1> DEFINE S == {c \in Call : pc[c] = "lock"}
             f == [c \in S |-> lock[next[c]]]
  <1>2. ASSUME NEW c \in Call, pc[c] \in Moving PROVE c \in S
    <2>1. Waits(c)
      BY <1>1, <1>2 DEF Underway, Moving
    <2>2. ASSUME pc[c] = "write" PROVE Free(next[c])
      <3>1. next[c] \in Slot /\ next[c] \in todo[c] /\ lock[next[c]] = c
        BY <1>0, <2>2, CallFacts DEF TodoOK, LockOK, Moving
      <3>2. QED
        BY <1>0, <3>1 DEF Free, Written, LockOK
    <2>3. QED
      BY <1>2, <2>1, <2>2 DEF Waits, Moving
  <1>3. S # {}
    <2>1. u \in Call /\ Waits(u)
      BY <1>1 DEF Underway
    <2>2. ASSUME pc[u] = "edit", ~Free(TheSlot(input[u])) PROVE S # {}
      <3>1. PICK d \in Call : TheSlot(input[u]) \in Written(d)
        BY <2>2 DEF Free
      <3>2. pc[d] \in Moving
        BY <1>0, <3>1 DEF Written, LockOK
      <3>3. QED
        BY <1>2, <3>2
    <2>3. QED
      BY <1>2, <2>1, <2>2 DEF Waits, Moving
  <1>4. f \in [S -> S]
    <2>1. ASSUME NEW c \in S PROVE lock[next[c]] \in S
      <3>1. Waits(c) /\ pc[c] = "lock"
        BY <1>1, <2>1 DEF Underway
      <3>2. next[c] \in Slot /\ lock[next[c]] # Nothing
        BY <1>0, <3>1, CallFacts DEF Waits, Moving
      <3>3. lock[next[c]] \in Call
        BY <3>2 DEF TypeOK
      <3>4. QED
        BY <1>2, <3>2, <3>3 DEF HeldOK
    <2>2. QED
      BY <2>1
  <1>5. IsFiniteSet(S)
    <2>1. S \subseteq Underway
      BY DEF Underway
    <2>2. QED
      BY <2>1, FS_Subset DEF FewUnderway
  <1>6. PICK C \in SUBSET S : /\ C # {}
                              /\ \A d \in C : f[d] \in C
                              /\ \A d, e \in C : f[d] = f[e] => d = e
    <2> HIDE DEF S, f
    <2>1. QED
      BY <1>3, <1>4, <1>5, CircleOfOne
  <1>7. PICK c \in C : TRUE
    BY <1>6
  <1>8. Deadlocked(c)
    <2>1. C \in SUBSET Call /\ \A d \in C : pc[d] = "lock" /\ f[d] = lock[next[d]]
      BY <1>6
    <2> HIDE DEF S, f
    <2>2. \A d \in C : lock[next[d]] \in C
      BY <1>6, <2>1
    <2>3. \A d, e \in C : lock[next[d]] = lock[next[e]] => d = e
      BY <1>6, <2>1
    <2>4. QED
      BY <1>7, <2>1, <2>2, <2>3 DEF Deadlocked
  <1>9. c \in Underway
    BY <1>6, <1>7 DEF Underway
  <1>10. QED
    BY <1>1, <1>8, <1>9

(* However many requests wait for each other's locks, one of them goes on, *)
(* or the database takes one out: what CallsEnd, with fairness, rests on.  *)
THEOREM NobodyStuckHolds == Spec => []NobodyStuck
  <1>1. Init => HeldOK
    BY NullAssumption DEF Init, HeldOK
  <1>2. Init => FewUnderway
    <2>1. SUFFICES ASSUME Init PROVE FewUnderway
      OBVIOUS
    <2>2. Underway = {}
      BY <2>1 DEF Init, Underway
    <2>3. QED
      BY <2>2, FS_EmptySet DEF FewUnderway
  <1>3. Inv /\ HeldOK /\ FewUnderway /\ [Next]_vars => HeldOK' /\ FewUnderway'
    BY HeldStep, FewStep DEF Inv, CallInv
  <1>4. Inv /\ HeldOK /\ FewUnderway => NobodyStuck
    BY SomebodyGoesOn DEF Inv, CallInv
  <1>5. QED
    BY InvHolds, <1>1, <1>2, <1>3, <1>4, PTL DEF Spec

(* ... and every step that one of them makes brings it nearer to its end.  *)
THEOREM EveryStepCountsHolds == Spec => EveryStepCounts
  <1>1. Inv /\ [Next]_vars =>
          [\E c \in Call : Forward(c) /\ \A d \in Call \ {c} : UNCHANGED <<pc[d], todo[d]>>]_vars
    BY ForwardStep DEF Inv, CallInv
  <1>2. QED
    BY InvHolds, <1>1, PTL DEF Spec, EveryStepCounts
=============================================================================
