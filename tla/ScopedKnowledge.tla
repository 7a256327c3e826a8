--------------------------- MODULE ScopedKnowledge --------------------------
(***************************************************************************)
(* The knowledge base the reply drafts are composed from: its versioned    *)
(* entries (scoped_knowledge_service.py), written by document uploads,     *)
(* approved candidates and resolved gaps; the dashboard's calls, which     *)
(* write the same table past that service (dashboard_kb_service.py,        *)
(* operator_dashboard_api.py); the review of candidates                    *)
(* (staging_service.py, operator_knowledge_proposals.py); the resolution   *)
(* of gaps (gap_recorder.py); and what an operator's edit of a draft       *)
(* teaches (draft_learning_service.py).                                    *)
(*                                                                         *)
(* A Call is one request and one database transaction, read committed.     *)
(* It stops where another call can come in between: at the advisory lock,  *)
(* after the lookup, and before its commit.  An answer is named by the     *)
(* call that wrote it.                                                     *)
(***************************************************************************)
EXTENDS Naturals

CONSTANTS
    Slot,           \* tenant, scope, target and topic (or question key, without
                    \* a topic): the cells of the table's two unique indexes
    Topical,        \* the slots with a topic
    Call,           \* requests, numbered in the order in which they arrive
    Candidate,      \* extraction candidates
    Gap,            \* rows of concierge_knowledge_gaps
    Files,          \* what uploads hold: slots, and which of them twice
    Kinds,          \* the calls this instance makes, a subset of Kind
    Existing,       \* slots that have an entry from before
    Faulty,         \* requests that an error or a restart may end
    Original,       \* the answer of an entry from before
    Nothing,        \* no candidate, no gap, no slot, nobody
    NoEntry,        \* the lookup selected no row
    Unread          \* the call has not looked that slot up

Writes == {"upload", "approve", "resolve"}      \* through write_scoped_knowledge
Kind == Writes \cup {"reject", "create", "edit", "delete", "resolve_kb", "learn"}

ASSUME KindsAssumption == Kinds \subseteq Kind /\ Call \subseteq Nat
ASSUME FilesAssumption ==
    Files \subseteq {f \in [slots : SUBSET Slot, twice : SUBSET Slot] : f.twice \subseteq f.slots}

VARIABLES
    entry,          \* concierge_scoped_knowledge, by slot
    history,        \* concierge_scoped_knowledge_history, by slot: the rows of
                    \* an update, which hold what it replaced
    candidate,      \* extraction_candidates: review_status
    promoted,       \* extraction_candidates: promoted_to_id
    gap,            \* concierge_knowledge_gaps: resolved
    lock,           \* pg_advisory_xact_lock, by slot
    input,          \* what each call asks for
    pc,             \* where it stands
    todo,           \* the slots it has still to write
    next,           \* the slot it is writing
    read,           \* the entry it looked up, by slot
    response,       \* what it answered
    wrote,          \* the calls whose write committed, by slot
    edited,         \* the answers the dashboard replaced in place, by slot
    hidden,         \* the entry was deleted after its answer was written
    learned         \* the durable edits in operator_draft_events

tables == <<entry, history, candidate, promoted, gap>>
locals == <<todo, next, read>>
past == <<wrote, edited, hidden, learned>>
vars == <<tables, lock, input, pc, locals, response, past>>
-----------------------------------------------------------------------------
(***************************************************************************)
(* Types.                                                                  *)
(***************************************************************************)
Answer == Call \cup {Original}
Entry == [answer : Answer, version : Nat \ {0}, active : BOOLEAN]
Archived == [version : Nat \ {0}, answer : Answer, by : Call]

(* Which slots and which row a call can name.  A file's questions have no  *)
(* topic, and it may hold one of them again; the question of a gap has no  *)
(* topic either, but the dashboard makes one of the gap's intent.          *)
WellFormed(i) ==
    /\ i.slots = {} <=> i.kind \in {"reject", "learn"}
    /\ i.kind \in {"upload", "resolve"} => i.slots \cap Topical = {}
    /\ i.kind = "resolve_kb" => i.slots \subseteq Topical
    /\ i.kind = "upload" => [slots |-> i.slots, twice |-> i.twice] \in Files
    /\ i.kind # "upload" => i.twice = {} /\ \A s, t \in i.slots : s = t
    /\ i.about \in CASE i.kind \in {"approve", "reject", "learn"} -> Candidate
                     [] i.kind \in {"resolve", "resolve_kb"} -> Gap
                     [] OTHER -> {Nothing}

Input == {i \in [kind : Kinds, slots : SUBSET Slot, twice : SUBSET Slot,
                 about : Candidate \cup Gap \cup {Nothing}] : WellFormed(i)}

ASSUME NullAssumption ==
    /\ NoEntry \notin Entry /\ Unread \notin Entry /\ NoEntry # Unread
    /\ Original \notin Call
    /\ Nothing \notin Candidate \cup Gap \cup Slot \cup Call \cup Input
    /\ Candidate \cap Gap = {}

Status == {"absent", "pending", "approved", "rejected"}
Response == {"none", "ok", "unanswered", "refused", "failed"}
Place == {"new", "lock", "lookup", "write", "commit", "edit", "reject", "propose",
          "close", "done"}

TypeOK ==
    /\ entry \in [Slot -> Entry \cup {NoEntry}]
    /\ history \in [Slot -> SUBSET Archived]
    /\ candidate \in [Candidate -> Status]
    /\ promoted \in [Candidate -> Slot \cup {Nothing}]
    /\ gap \in [Gap -> {"open", "resolved"}]
    /\ lock \in [Slot -> Call \cup {Nothing}]
    /\ input \in [Call -> Input \cup {Nothing}]
    /\ pc \in [Call -> Place]
    /\ todo \in [Call -> SUBSET Slot]
    /\ next \in [Call -> Slot \cup {Nothing}]
    /\ read \in [Call -> [Slot -> Entry \cup {NoEntry, Unread}]]
    /\ response \in [Call -> Response]
    /\ wrote \in [Slot -> SUBSET Call]
    /\ edited \in [Slot -> SUBSET Answer]
    /\ hidden \in [Slot -> BOOLEAN]
    /\ learned \subseteq Call

FromBefore == [s \in Slot |->
    IF s \in Existing THEN [answer |-> Original, version |-> 1, active |-> TRUE] ELSE NoEntry]

(* A pending candidate was staged by an earlier upload; an absent one may  *)
(* still be proposed from an operator's edit.                              *)
Init ==
    /\ entry = FromBefore
    /\ history = [s \in Slot |-> {}]
    /\ candidate \in [Candidate -> {"absent", "pending"}]
    /\ promoted = [k \in Candidate |-> Nothing]
    /\ gap = [g \in Gap |-> "open"]
    /\ lock = [s \in Slot |-> Nothing]
    /\ input = [c \in Call |-> Nothing]
    /\ pc = [c \in Call |-> "new"]
    /\ todo = [c \in Call |-> {}]
    /\ next = [c \in Call |-> Nothing]
    /\ read = [c \in Call |-> [s \in Slot |-> Unread]]
    /\ response = [c \in Call |-> "none"]
    /\ wrote = [s \in Slot |-> {}]
    /\ edited = [s \in Slot |-> {}]
    /\ hidden = [s \in Slot |-> FALSE]
    /\ learned = {}
-----------------------------------------------------------------------------
(***************************************************************************)
(* Helpers.                                                                *)
(***************************************************************************)
Goto(c, p) == pc' = [pc EXCEPT ![c] = p]

(* The request i reaches its handler, one of ks. *)
Called(c, i, ks) ==
    /\ pc[c] = "new" /\ \A d \in Call : d < c => pc[d] # "new"
    /\ i.kind \in ks
    /\ input' = [input EXCEPT ![c] = i]

(* The slots a call has written and not committed.                         *)
Written(c) == {s \in Slot : read[c][s] # Unread /\ s \notin todo[c]}

(* Nobody has a row of this slot written and not committed: an UPDATE of   *)
(* it, or an INSERT with its key, need not wait.                           *)
Free(s) == \A c \in Call : s \notin Written(c)

(* Mutant: locks of the session, which nobody releases. *)
Leave_KeepsLocks(c, answer) ==
    /\ Goto(c, "done")
    /\ response' = [response EXCEPT ![c] = answer]
    /\ todo' = [todo EXCEPT ![c] = {}]
    /\ next' = [next EXCEPT ![c] = Nothing]
    /\ read' = [read EXCEPT ![c] = [s \in Slot |-> Unread]]
    /\ UNCHANGED lock

(* The request ends, and its session with it: what it had not committed is *)
(* rolled back, and the locks of its transaction are released.             *)
Leave(c, answer) ==
    /\ Goto(c, "done")
    /\ response' = [response EXCEPT ![c] = answer]
    /\ lock' = [s \in Slot |-> IF lock[s] = c THEN Nothing ELSE lock[s]]
    /\ todo' = [todo EXCEPT ![c] = {}]
    /\ next' = [next EXCEPT ![c] = Nothing]
    /\ read' = [read EXCEPT ![c] = [s \in Slot |-> Unread]]

(* A call that holds no lock ends. *)
Reply(c, answer) ==
    /\ Goto(c, "done")
    /\ response' = [response EXCEPT ![c] = answer]
    /\ UNCHANGED <<lock, locals>>

-----------------------------------------------------------------------------
(***************************************************************************)
(* Writes through the scoped service.                                      *)
(***************************************************************************)
(* The handler calls write_scoped_knowledge for its next question, in the  *)
(* order of the file.                                                      *)
Wants(c, slots) == \E s \in slots :
    /\ next' = [next EXCEPT ![c] = s]
    /\ Goto(c, "lock")

(* An upload has questions and answers, a candidate is read and approvable, *)
(* or a gap is read, has an answer and its property is known.               *)
StartWriting(c, i) ==
    /\ Called(c, i, Writes)
    /\ i.kind = "approve" => candidate[i.about] \in {"pending", "approved"}
    /\ todo' = [todo EXCEPT ![c] = i.slots]
    /\ Wants(c, i.slots)
    /\ UNCHANGED <<tables, lock, read, response, past>>

(* Mutant: the advisory lock is not taken. *)
Lock_Skipped(c) ==
    /\ pc[c] = "lock"
    /\ Goto(c, "lookup")
    /\ UNCHANGED <<tables, lock, input, locals, response, past>>

(* pg_advisory_xact_lock, which the end of the transaction releases.       *)
Lock(c) ==
    /\ pc[c] = "lock" /\ lock[next[c]] = Nothing
    /\ lock' = [lock EXCEPT ![next[c]] = c]
    /\ Goto(c, "lookup")
    /\ UNCHANGED <<tables, input, locals, response, past>>

(* _fetch_existing_entry, a deleted entry included. *)
Lookup(c) ==
    /\ pc[c] = "lookup"
    /\ read' = [read EXCEPT ![c][next[c]] = entry[next[c]]]
    /\ Goto(c, "write")
    /\ UNCHANGED <<tables, lock, input, todo, next, response, past>>

(* The INSERT, or the history row and the UPDATE by knowledge_entry_id.    *)
Write(c) ==
    /\ pc[c] = "write" /\ Free(next[c])
    /\ read[c][next[c]] = NoEntry => entry[next[c]] = NoEntry
    /\ todo' = [todo EXCEPT ![c] = @ \ {next[c]}]
    /\ IF todo[c] = {next[c]} THEN Goto(c, "commit") /\ UNCHANGED next
                              ELSE Wants(c, todo[c] \ {next[c]})
    /\ UNCHANGED <<tables, lock, input, read, response, past>>

(* Mutant: a row that cannot be inserted is skipped and the rest committed. *)
Collide_Skips(c) ==
    /\ pc[c] = "write" /\ Free(next[c])
    /\ read[c][next[c]] = NoEntry /\ entry[next[c]] # NoEntry
    /\ todo' = [todo EXCEPT ![c] = @ \ {next[c]}]
    /\ read' = [read EXCEPT ![c][next[c]] = Unread]
    /\ IF todo[c] = {next[c]} THEN Goto(c, "commit") /\ UNCHANGED next
                              ELSE Wants(c, todo[c] \ {next[c]})
    /\ UNCHANGED <<tables, lock, input, response, past>>

(* Mutant: the review is recorded though the answer could not be written. *)
Collide_Reviewed(c) ==
    /\ pc[c] = "write" /\ Free(next[c])
    /\ read[c][next[c]] = NoEntry /\ entry[next[c]] # NoEntry
    /\ candidate' = [k \in Candidate |-> IF k = input[c].about THEN "approved"
                                                               ELSE candidate[k]]
    /\ promoted' = [k \in Candidate |-> IF k = input[c].about THEN next[c] ELSE promoted[k]]
    /\ Leave(c, "failed")
    /\ UNCHANGED <<entry, history, gap, input, past>>

(* The dashboard has inserted the slot since the lookup: unique violation. *)
(* resolve_gap swallows it, and then its commit raises.                    *)
Collide(c) ==
    /\ pc[c] = "write" /\ Free(next[c])
    /\ read[c][next[c]] = NoEntry /\ entry[next[c]] # NoEntry
    /\ Leave(c, "failed")
    /\ UNCHANGED <<tables, input, past>>

(* A question that the file holds again is looked up again under the same  *)
(* lock, finds the row as the call has just written it, and updates it.    *)
Again(c, s) == IF s \in input[c].twice THEN 1 ELSE 0

(* Mutant: a new row's version is left at zero. *)
Stored_VersionZero(c, s) ==
    IF read[c][s] = NoEntry
    THEN [answer |-> c, version |-> 0, active |-> TRUE]
    ELSE [answer |-> c, version |-> read[c][s].version + 1, active |-> entry[s].active]

(* Mutant: the whole row is written back as it was looked up. *)
Stored_ActiveAsRead(c, s) ==
    IF read[c][s] = NoEntry
    THEN [answer |-> c, version |-> 1, active |-> TRUE]
    ELSE [answer |-> c, version |-> read[c][s].version + 1, active |-> read[c][s].active]

(* What the UPDATE or INSERT of the call makes of the row, and what it     *)
(* appends to the history.  A deleted entry stays deleted.                 *)
Stored(c, s) ==
    IF read[c][s] = NoEntry
    THEN [answer |-> c, version |-> 1 + Again(c, s), active |-> TRUE]
    ELSE [answer |-> c, version |-> read[c][s].version + 1 + Again(c, s), active |-> entry[s].active]

Archives(c, s) ==
    (IF read[c][s] = NoEntry THEN {}
     ELSE {[version |-> read[c][s].version, answer |-> read[c][s].answer, by |-> c]})
    \cup
    (IF s \notin input[c].twice THEN {}
     ELSE {[version |-> Stored(c, s).version - 1, answer |-> c, by |-> c]})

(* The review of an approved candidate and the resolved gap are part of    *)
(* the transaction.  The candidate's status is not read again.             *)
Commit(c) ==
    /\ pc[c] = "commit"
    /\ entry' = [s \in Slot |-> IF s \in Written(c) THEN Stored(c, s) ELSE entry[s]]
    /\ history' = [s \in Slot |-> IF s \in Written(c) THEN history[s] \cup Archives(c, s)
                                                       ELSE history[s]]
    /\ wrote' = [s \in Slot |-> IF s \in Written(c) THEN wrote[s] \cup {c} ELSE wrote[s]]
    /\ hidden' = [s \in Slot |-> s \notin Written(c) /\ hidden[s]]
    /\ candidate' = [k \in Candidate |-> IF k = input[c].about THEN "approved"
                                                               ELSE candidate[k]]
    /\ promoted' = [k \in Candidate |-> IF k = input[c].about THEN next[c] ELSE promoted[k]]
    /\ gap' = [g \in Gap |-> IF g = input[c].about THEN "resolved" ELSE gap[g]]
    /\ Leave(c, "ok")
    /\ UNCHANGED <<input, edited, learned>>

(* The gap has no property that is known, or a question without a key:     *)
(* nothing is written and the gap is resolved all the same.                *)
ResolveOnly(c, i) ==
    /\ Called(c, i, {"resolve"})
    /\ gap' = [gap EXCEPT ![i.about] = "resolved"]
    /\ Reply(c, "unanswered")
    /\ UNCHANGED <<entry, history, candidate, promoted, past>>

(* Two uploads wait for each other's lock: PostgreSQL aborts one of them.  *)
Deadlocked(c) == \E C \in SUBSET Call :
    /\ c \in C
    /\ \A d \in C : pc[d] = "lock" /\ lock[next[d]] \in C
    /\ \A d, e \in C : lock[next[d]] = lock[next[e]] => d = e

AbortDeadlock(c) ==
    /\ pc[c] = "lock" /\ Deadlocked(c)
    /\ Leave(c, "failed")
    /\ UNCHANGED <<tables, input, past>>

(* An error of the database, a disconnected client, a restart. *)
Fail(c) ==
    /\ c \in Faulty /\ pc[c] \notin {"new", "done"}
    /\ Leave(c, "failed")
    /\ UNCHANGED <<tables, input, past>>
-----------------------------------------------------------------------------
(***************************************************************************)
(* The review of candidates.                                               *)
(***************************************************************************)
(* The candidate is missing, or not in a state the endpoint acts on.       *)
Refuse(c, i) ==
    /\ Called(c, i, {"approve", "reject"})
    /\ candidate[i.about] # "pending"
    /\ Reply(c, "refused")
    /\ UNCHANGED <<tables, past>>

(* The dashboard's endpoint rejects a candidate in any state. *)
StartReject(c, i) ==
    /\ Called(c, i, {"reject"})
    /\ candidate[i.about] # "absent"
    /\ Goto(c, "reject")
    /\ UNCHANGED <<tables, lock, locals, response, past>>

Reject(c) ==
    /\ pc[c] = "reject"
    /\ candidate' = [candidate EXCEPT ![input[c].about] = "rejected"]
    /\ promoted' = [promoted EXCEPT ![input[c].about] = Nothing]
    /\ Reply(c, "ok")
    /\ UNCHANGED <<entry, history, gap, input, past>>

(* record_edit_and_propose commits the event of a durable edit, inserts a  *)
(* candidate and returns: nobody commits the insert, and the request's     *)
(* session rolls it back when it closes.                                   *)
RecordEdit(c, i) ==
    /\ Called(c, i, {"learn"})
    /\ candidate[i.about] = "absent"
    /\ learned' = learned \cup {c}
    /\ Goto(c, "propose")
    /\ UNCHANGED <<tables, lock, locals, response, wrote, edited, hidden>>

Propose(c) ==
    /\ pc[c] = "propose"
    /\ Goto(c, "close")
    /\ UNCHANGED <<tables, lock, input, locals, response, past>>

CloseSession(c) ==
    /\ pc[c] = "close"
    /\ Leave(c, "ok")
    /\ UNCHANGED <<tables, input, past>>
-----------------------------------------------------------------------------
(***************************************************************************)
(* The dashboard, which takes no lock and writes no history.               *)
(***************************************************************************)
TheSlot(i) == CHOOSE s \in i.slots : TRUE

(* create_dashboard_entry: a plain INSERT, which fails on any entry of the *)
(* slot, a deleted one included.                                           *)
Create(c, i) == LET s == TheSlot(i) IN
    /\ Called(c, i, {"create", "resolve_kb"}) /\ Free(s) /\ entry[s] = NoEntry
    /\ entry' = [entry EXCEPT ![s] = [answer |-> c, version |-> 1, active |-> TRUE]]
    /\ gap' = [g \in Gap |-> IF g = i.about THEN "resolved" ELSE gap[g]]
    /\ Reply(c, "ok")
    /\ UNCHANGED <<history, candidate, promoted, past>>

CreateCollides(c, i) ==
    /\ Called(c, i, {"create", "resolve_kb"}) /\ Free(TheSlot(i)) /\ entry[TheSlot(i)] # NoEntry
    /\ Reply(c, "failed")
    /\ UNCHANGED <<tables, past>>

Editable(s) == entry[s] # NoEntry /\ entry[s].active

(* update_dashboard_entry: SELECT an active entry, then UPDATE it in place. *)
StartEdit(c, i) == LET s == TheSlot(i) IN
    /\ Called(c, i, {"edit"})
    /\ Editable(s)
    /\ Goto(c, "edit")
    /\ UNCHANGED <<tables, lock, locals, response, past>>

Edit(c) == LET s == TheSlot(input[c]) IN
    /\ pc[c] = "edit" /\ Free(s)
    /\ entry' = [entry EXCEPT ![s].answer = c]
    /\ edited' = [edited EXCEPT ![s] = @ \cup {entry[s].answer}]
    /\ Reply(c, "ok")
    /\ UNCHANGED <<history, candidate, promoted, gap, input, wrote, hidden, learned>>

(* delete_dashboard_entry: is_active = FALSE, in one statement. *)
Delete(c, i) == LET s == TheSlot(i) IN
    /\ Called(c, i, {"delete"}) /\ Free(s) /\ entry[s] # NoEntry
    /\ entry' = [entry EXCEPT ![s].active = FALSE]
    /\ hidden' = [hidden EXCEPT ![s] = TRUE]
    /\ Reply(c, "ok")
    /\ UNCHANGED <<history, candidate, promoted, gap, wrote, edited, learned>>

NotFound(c, i) == LET s == TheSlot(i) IN
    /\ Called(c, i, {"edit", "delete"})
    /\ ~(IF i.kind = "edit" THEN Editable(s) ELSE entry[s] # NoEntry)
    /\ Reply(c, "refused")
    /\ UNCHANGED <<tables, past>>
-----------------------------------------------------------------------------
(* What a call does once it has started; the database aborts a deadlock.   *)
Advance(c) ==
    \/ Lock(c) \/ Lookup(c) \/ Write(c) \/ Collide(c) \/ Commit(c) \/ AbortDeadlock(c)
    \/ Reject(c) \/ Propose(c) \/ CloseSession(c) \/ Edit(c)

Start(c, i) ==
    \/ StartWriting(c, i) \/ ResolveOnly(c, i) \/ Refuse(c, i) \/ StartReject(c, i)
    \/ RecordEdit(c, i) \/ Create(c, i) \/ CreateCollides(c, i) \/ StartEdit(c, i)
    \/ Delete(c, i) \/ NotFound(c, i)

Next == \E c \in Call : (\E i \in Input : Start(c, i)) \/ Advance(c) \/ Fail(c)

Spec == Init /\ [][Next]_vars

(* A request that runs goes on: nothing in it waits but for a lock. *)
Fairness == \A c \in Call : WF_vars(Advance(c))

FairSpec == Spec /\ Fairness
-----------------------------------------------------------------------------
(***************************************************************************)
(* Properties.                                                             *)
(***************************************************************************)
(* Two writers never build on the same version: every version below the    *)
(* entry's own is in the history once, and an answer that was committed    *)
(* through the service is the entry's, or in its history, or the dashboard *)
(* replaced it in place (scoped_knowledge_service.py:340-447).             *)
HistoryIsComplete == \A s \in Slot : entry[s] # NoEntry =>
    /\ \A v \in 1 .. entry[s].version - 1 : \E h \in history[s] : h.version = v
    /\ \A h \in history[s] : h.version < entry[s].version
    /\ \A h1, h2 \in history[s] : h1.version = h2.version => h1 = h2
    /\ \A c \in wrote[s] : \/ entry[s].answer = c \/ c \in edited[s]
                           \/ \E h \in history[s] : h.answer = c

(* A request that answers ok has written all its questions, one that does  *)
(* not has written none, whichever lock, conflict, error or deadlock ended *)
(* it, and the gap a request answered is resolved.                         *)
AllOrNothing == \A c \in Call :
    /\ \A s \in Slot : c \in wrote[s] <=>
            response[c] = "ok" /\ input[c].kind \in Writes /\ s \in input[c].slots
    /\ response[c] = "ok" => \A g \in Gap : g = input[c].about => gap[g] = "resolved"

(* A candidate on record as approved has its answer committed in the entry *)
(* it points to, by a call that approved this candidate                    *)
(* (staging_service.py:184-221).                                           *)
ApprovedIsWritten == \A k \in Candidate : candidate[k] = "approved" =>
    \E s \in Slot : /\ promoted[k] = s
                    /\ \E c \in wrote[s] : input[c].kind = "approve" /\ input[c].about = k

(* Requests that overlap take effect as if they came one at a time         *)
(* (KnowledgeLedger): each in one step, with the version after the one     *)
(* that it replaces, or not at all, and it is told which.                  *)
Ledger == INSTANCE KnowledgeLedger WITH
    Request <- Input, Writing <- Writes, Seeded <- FromBefore,
    replaced <- edited, request <- input, answer <- response

ImplementsLedger == Ledger!Spec

(* Every request that started ends: locks are released by the end of the   *)
(* transaction, and requests that wait for each other are told apart by    *)
(* the database.                                                           *)
CallsEnd == <>[](\A c \in Call : pc[c] \in {"new", "done"})

Underway == {c \in Call : pc[c] \notin {"new", "done"}}

(* A call waits for an advisory lock, or for a row that another one has    *)
(* written.                                                                *)
Waits(c) ==
    \/ pc[c] = "lock" /\ lock[next[c]] # Nothing
    \/ pc[c] = "write" /\ ~Free(next[c])
    \/ pc[c] = "edit" /\ ~Free(TheSlot(input[c]))

(* Whoever is underway, one of them can go on, or waits in a circle that   *)
(* the database breaks: no lock is left behind, and no row is waited for   *)
(* by one who holds what its writer waits for.                             *)
NobodyStuck == Underway # {} => \E c \in Underway : ~Waits(c) \/ Deadlocked(c)

Order == [new |-> 0, lock |-> 1, lookup |-> 2, write |-> 3, commit |-> 4, edit |-> 1,
          reject |-> 1, propose |-> 1, close |-> 2, done |-> 5]

Forward(c) ==
    \/ pc[c] = "new" /\ pc'[c] # "new"
    \/ /\ pc[c] # "new" /\ pc'[c] # "new" /\ todo'[c] \subseteq todo[c]
       /\ todo'[c] # todo[c] \/ Order[pc'[c]] > Order[pc[c]]

(* No step sends a call back: each brings one nearer to its end, with a    *)
(* slot written or on the way to it, and concerns no other.                *)
EveryStepCounts == [][\E c \in Call :
    Forward(c) /\ \A d \in Call \ {c} : UNCHANGED <<pc[d], todo[d]>>]_vars

(* Scenario B of the learning loop's brief: a fact that was approved, or   *)
(* the answer of a gap, appears in the knowledge; only a later deletion    *)
(* takes it out.                                                           *)
AnsweredIsServed == \A s \in Slot :
    entry[s] # NoEntry => entry[s].active \/ hidden[s]

(* A durable edit of a draft becomes a pending candidate. *)
EditsAreProposed == \A c \in learned :
    response[c] = "ok" => candidate[input[c].about] # "absent"
=============================================================================
