--------------------------- MODULE KnowledgeLedger ---------------------------
(***************************************************************************)
(* What the knowledge base promises those who call it, as if they came one *)
(* at a time: nothing of locks, lookups, open transactions or deadlocks.   *)
(* ScopedKnowledge is shown to implement it.                               *)
(*                                                                         *)
(* A request is heard, and then it is answered once, in the step that does *)
(* all that it asks for; or it is declined, and then nothing of it is ever *)
(* seen.  A new answer takes the version after the one it replaces, which  *)
(* is archived with an answer that it had; one that a file holds twice     *)
(* takes two.                                                              *)
(***************************************************************************)
EXTENDS Naturals

CONSTANTS
    Slot, Call, Candidate, Gap,
    Request,        \* what a call can ask for
    Writing,        \* the kinds of requests that publish an answer
    Seeded,         \* the entries from before
    Nothing, NoEntry

VARIABLES
    entry,          \* the answer of a slot, its version, and if it is served
    history,        \* the versions that were replaced, by slot
    replaced,       \* the answers that were replaced without a version
    candidate,      \* absent, pending, approved or rejected
    promoted,       \* the slot that holds what was approved
    gap,            \* open or resolved
    request,        \* what was asked
    answer          \* what was answered

slots == <<entry, history, replaced>>
reviews == <<candidate, promoted>>
ledger == <<slots, reviews, gap, request, answer>>
-----------------------------------------------------------------------------
Init ==
    /\ entry = Seeded
    /\ history = [s \in Slot |-> {}]
    /\ replaced = [s \in Slot |-> {}]
    /\ candidate \in [Candidate -> {"absent", "pending"}]
    /\ promoted = [k \in Candidate |-> Nothing]
    /\ gap = [g \in Gap |-> "open"]
    /\ request = [c \in Call |-> Nothing]
    /\ answer = [c \in Call |-> "none"]

(* A request that is heard is not served yet.  What was rejected cannot be *)
(* approved any more; what is rejected later still can.                    *)
Hear(c, i) ==
    /\ request[c] = Nothing
    /\ i.kind = "approve" => candidate[i.about] \in {"pending", "approved"}
    /\ request' = [request EXCEPT ![c] = i]
    /\ UNCHANGED <<slots, reviews, gap, answer>>

(* The one answer to a request, which may be heard in the same step. *)
Answer(c, i, a) ==
    /\ request[c] \in {Nothing, i}
    /\ answer[c] = "none"
    /\ request' = [request EXCEPT ![c] = i]
    /\ answer' = [answer EXCEPT ![c] = a]

Resolve(i) == gap' = [g \in Gap |-> IF g = i.about THEN "resolved" ELSE gap[g]]

New(c) == [answer |-> c, version |-> 1, active |-> TRUE]

(* How many versions i takes of its slot s. *)
Versions(i, s) == IF s \in i.twice THEN 2 ELSE 1

NextVersion(i, s, c) ==
    IF entry[s] = NoEntry THEN [New(c) EXCEPT !.version = Versions(i, s)]
    ELSE [answer |-> c, version |-> entry[s].version + Versions(i, s), active |-> entry[s].active]

(* What a file says first of a question that it holds twice. *)
First(i, s, c) ==
    IF s \in i.twice THEN {[version |-> NextVersion(i, s, c).version - 1, answer |-> c, by |-> c]}
                     ELSE {}

(* A row for each slot that had an entry, with an answer that it had.      *)
Archive(i, c) ==
    /\ history' = [s \in Slot |-> history'[s]]
    /\ \A s \in Slot :
         IF s \notin i.slots THEN history'[s] = history[s]
         ELSE IF entry[s] = NoEntry THEN history'[s] = history[s] \cup First(i, s, c)
         ELSE \E a \in {entry[s].answer} \cup replaced[s] :
                 history'[s] = history[s] \cup First(i, s, c)
                    \cup {[version |-> entry[s].version, answer |-> a, by |-> c]}

(* An upload, an approval or the answer of a gap: all its slots at once,   *)
(* and what was reviewed or resolved with them.                            *)
Publish(c, i) ==
    /\ i.kind \in Writing /\ request[c] = i
    /\ Answer(c, i, "ok")
    /\ entry' = [s \in Slot |-> IF s \in i.slots THEN NextVersion(i, s, c) ELSE entry[s]]
    /\ Archive(i, c)
    /\ candidate' = [k \in Candidate |-> IF k = i.about THEN "approved" ELSE candidate[k]]
    /\ \E s \in i.slots :
         promoted' = [k \in Candidate |-> IF k = i.about THEN s ELSE promoted[k]]
    /\ Resolve(i)
    /\ UNCHANGED replaced

(* A gap is closed without an answer. *)
Close(c, i) ==
    /\ i.kind = "resolve"
    /\ Answer(c, i, "unanswered")
    /\ Resolve(i)
    /\ UNCHANGED <<slots, reviews>>

Reject(c, i) ==
    /\ i.kind = "reject"
    /\ Answer(c, i, "ok")
    /\ candidate' = [candidate EXCEPT ![i.about] = "rejected"]
    /\ promoted' = [promoted EXCEPT ![i.about] = Nothing]
    /\ UNCHANGED <<slots, gap>>

(* The dashboard's three: a slot that has no entry, or one that has.       *)
Create(c, i) == \E s \in i.slots :
    /\ i.kind \in {"create", "resolve_kb"} /\ entry[s] = NoEntry
    /\ Answer(c, i, "ok")
    /\ entry' = [entry EXCEPT ![s] = New(c)]
    /\ Resolve(i)
    /\ UNCHANGED <<history, replaced, reviews>>

Edit(c, i) == \E s \in i.slots :
    /\ i.kind = "edit" /\ entry[s] # NoEntry
    /\ Answer(c, i, "ok")
    /\ entry' = [entry EXCEPT ![s].answer = c]
    /\ replaced' = [replaced EXCEPT ![s] = @ \cup {entry[s].answer}]
    /\ UNCHANGED <<history, reviews, gap>>

Delete(c, i) == \E s \in i.slots :
    /\ i.kind = "delete" /\ entry[s] # NoEntry
    /\ Answer(c, i, "ok")
    /\ entry' = [entry EXCEPT ![s].active = FALSE]
    /\ UNCHANGED <<history, replaced, reviews, gap>>

(* What an edit of a draft teaches is not seen here. *)
Learn(c, i) ==
    /\ i.kind = "learn"
    /\ Answer(c, i, "ok")
    /\ UNCHANGED <<slots, reviews, gap>>

(* A request is refused if there is nothing it could be done to. *)
Refuse(c, i) ==
    /\ CASE i.kind \in {"approve", "reject"} -> candidate[i.about] # "pending"
         [] i.kind = "edit" -> \A s \in i.slots : entry[s] = NoEntry \/ ~entry[s].active
         [] i.kind = "delete" -> \A s \in i.slots : entry[s] = NoEntry
         [] OTHER -> FALSE
    /\ Answer(c, i, "refused")
    /\ UNCHANGED <<slots, reviews, gap>>

(* Any request may fail. *)
Fail(c, i) ==
    /\ Answer(c, i, "failed")
    /\ UNCHANGED <<slots, reviews, gap>>

(* Something is done for a call, and i is what it has asked for by then.   *)
Next == \E c \in Call : LET i == request'[c] IN
    /\ i \in Request
    /\ \/ Hear(c, i) \/ Publish(c, i) \/ Close(c, i) \/ Reject(c, i)
       \/ Create(c, i) \/ Edit(c, i) \/ Delete(c, i) \/ Learn(c, i)
       \/ Refuse(c, i) \/ Fail(c, i)

Spec == Init /\ [][Next]_ledger
=============================================================================
