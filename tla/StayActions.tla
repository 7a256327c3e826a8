---------------------------- MODULE StayActions ----------------------------
(***************************************************************************)
(* The action queue of one guest's stay (operator_workflow_action_queue):  *)
(* the synchronisation that every view of the session and every operation  *)
(* on it ends with (stay_workflow_service.py, stay_action_agent.py), the   *)
(* operator who executes an action, the proactive runtime, and the in-stay *)
(* mail that the poller holds for review (email_dispatch.py).              *)
(*                                                                         *)
(* The calls are processes with a database session each: PostgreSQL's READ *)
(* COMMITTED, in which a read sees what is committed, and a write waits    *)
(* for the row and holds it until its transaction ends.                    *)
(***************************************************************************)
EXTENDS FiniteSets, Sequences, Integers

CONSTANTS
    Call,           \* requests, tasks and mails, each of which runs once
    Kinds,          \* what each may be
    Action,         \* the action types in use
    Due,            \* the sets of them that may be due at a time
    Free            \* no holder of a row

(* The action types, in the order of _desired_actions.                     *)
Rank == [guest_status_response |-> 1, proactive_outreach |-> 2, knowledge_response |-> 3,
         ops_review |-> 4, vendor_coordination |-> 5, turnover_coordination |-> 6,
         post_checkout_walkthrough |-> 7, guest_eta_update |-> 8, owner_internal_update |-> 9,
         accounting_claim_handoff |-> 10]

ASSUME KindsAssumption == Kinds \in [Call -> SUBSET {"view", "execute", "touch", "mail"}]
ASSUME ActionAssumption ==
    {"proactive_outreach", "ops_review"} \subseteq Action /\
    Action \subseteq DOMAIN Rank
ASSUME DueAssumption == Due \subseteq SUBSET Action
ASSUME FreeAssumption == Free \notin Call

VARIABLES
    queue,          \* the status of each row as committed
    dirty,          \* the same as last written, committed or not
    lock,           \* who holds a row of the queue, the read model or the session
    pc,             \* where a call stands
    then,           \* where it goes on when its synchronisation is over
    act,            \* the action it executes
    result,         \* what the execution came to
    desired,        \* the actions its synchronisation found due
    seen,           \* the status it read of each
    todo,           \* the rows its synchronisation has yet to write
    noted,          \* the actions it has told of and not committed
    recorded,       \* the actions told of: a message in the thread, a notice to the operators
    lost            \* the actions whose notice was rolled back though their execution went on

rows == <<queue, dirty, lock, noted, recorded>>
execution == <<act, result>>
synchronisation == <<then, desired, seen, todo>>
vars == <<rows, pc, execution, synchronisation, lost>>
-----------------------------------------------------------------------------
(***************************************************************************)
(* Types.                                                                  *)
(***************************************************************************)
(* The actions that send the guest a message.                              *)
Outreach == Action \cap {"guest_status_response", "proactive_outreach", "guest_eta_update"}

(* The actions that open work for a vendor or the staff.                   *)
Coordination ==
    Action \cap {"vendor_coordination", "turnover_coordination", "post_checkout_walkthrough"}

(* workflow: the stay's read model; guest: its concierge session.          *)
Resource == Action \cup {"workflow", "guest"}

(* none: there is no row.                                                  *)
Status == {"none", "ready", "in_progress", "completed", "failed", "blocked"}

Unread == [a \in Action |-> "none"]

TypeOK ==
    /\ queue \in [Action -> Status]
    /\ dirty \in [Action -> Status]
    /\ lock \in [Resource -> Call \cup {Free}]
    /\ pc \in [Call -> {"new", "read", "rows", "list", "context", "mark", "act", "sent",
                        "patch", "tell", "completing", "mail", "done"}]
    /\ then \in [Call -> {"list", "done"}]
    /\ act \in [Call -> Action \cup {"none"}]
    /\ result \in [Call -> {"none", "in_progress", "completed", "failed", "blocked"}]
    /\ desired \in [Call -> SUBSET Action]
    /\ seen \in [Call -> [Action -> Status]]
    /\ todo \in [Call -> Seq(Action)]
    /\ noted \in [Call -> SUBSET Action]
    /\ recorded \subseteq Action
    /\ lost \subseteq Coordination

(* A stay nobody has looked at yet.                                        *)
Init ==
    /\ queue = [a \in Action |-> "none"]
    /\ dirty = queue
    /\ lock = [x \in Resource |-> Free]
    /\ pc = [c \in Call |-> "new"]
    /\ then = [c \in Call |-> "done"]
    /\ act = [c \in Call |-> "none"]
    /\ result = [c \in Call |-> "none"]
    /\ desired = [c \in Call |-> {}]
    /\ seen = [c \in Call |-> Unread]
    /\ todo = [c \in Call |-> <<>>]
    /\ noted = [c \in Call |-> {}]
    /\ recorded = {}
    /\ lost = {}
-----------------------------------------------------------------------------
(***************************************************************************)
(* Transactions.                                                           *)
(***************************************************************************)
Goto(c, label) == pc' = [pc EXCEPT ![c] = label]

Available(c, x) == lock[x] \in {Free, c}

Write(c, a, status) ==
    /\ Available(c, a)
    /\ lock' = [lock EXCEPT ![a] = c]
    /\ dirty' = [dirty EXCEPT ![a] = status]
    /\ UNCHANGED <<queue, noted, recorded>>

Release(c) == lock' = [x \in Resource |-> IF lock[x] = c THEN Free ELSE lock[x]]

Publish(c, more) ==
    /\ recorded' = recorded \cup noted[c] \cup more
    /\ noted' = [noted EXCEPT ![c] = {}]

Commit(c, more) ==
    /\ queue' = [a \in Action |-> IF lock[a] = c THEN dirty[a] ELSE queue[a]]
    /\ Release(c)
    /\ Publish(c, more)
    /\ UNCHANGED dirty

(* The last write of a transaction, and its commit.                        *)
WriteAndCommit(c, a, status) ==
    /\ Available(c, a)
    /\ queue' = [b \in Action |->
                    IF b = a THEN status ELSE IF lock[b] = c THEN dirty[b] ELSE queue[b]]
    /\ dirty' = [dirty EXCEPT ![a] = status]
    /\ Release(c)
    /\ Publish(c, {})

(* Mutant: the session goes back to the pool as it is. *)
Rollback_Forgotten(c) == UNCHANGED rows

Rollback(c) ==
    /\ dirty' = [a \in Action |-> IF lock[a] = c THEN queue[a] ELSE dirty[a]]
    /\ Release(c)
    /\ noted' = [noted EXCEPT ![c] = {}]
    /\ UNCHANGED <<queue, recorded>>
-----------------------------------------------------------------------------
(***************************************************************************)
(* sync_session: what is due, the rows there are, a write for each, and    *)
(* the read model.                                                         *)
(***************************************************************************)
Sync(c, next) ==
    /\ Goto(c, "read")
    /\ then' = [then EXCEPT ![c] = next]

(* The orders in which rows may be written: those that are due first, by   *)
(* rank, then the others as the query happens to return them.              *)
Orders(due, others) ==
    LET all == due \cup others
    IN {s \in [1 .. Cardinality(all) -> all] : \A i, j \in DOMAIN s : i < j =>
            s[i] # s[j] /\ (s[j] \in due => s[i] \in due /\ Rank[s[i]] < Rank[s[j]])}

(* What is due depends on the guest's messages, the calendar and the       *)
(* vendor.  Rows that are due no more are blocked unless completed.        *)
ReadExisting(c) ==
    /\ pc[c] = "read"
    /\ \E due \in Due :
        /\ desired' = [desired EXCEPT ![c] = due]
        /\ seen' = [seen EXCEPT ![c] = queue]
        /\ \E s \in Orders(due, {a \in Action \ due : queue[a] \notin {"none", "completed"}}) :
            todo' = [todo EXCEPT ![c] = s]
    /\ Goto(c, "rows")
    /\ UNCHANGED <<rows, execution, then, lost>>

(* An archived stay's actions are left alone.                              *)
Archived(c) ==
    /\ pc[c] = "read"
    /\ Goto(c, "rows")
    /\ UNCHANGED <<rows, execution, synchronisation, lost>>

(* Mutant: a completed action is due again. *)
_desired_status_Reopens(current) == IF current = "in_progress" THEN current ELSE "ready"

_desired_status(current) ==
    IF current \in {"in_progress", "completed"} THEN current ELSE "ready"

Upsert(c) ==
    /\ pc[c] = "rows" /\ todo[c] # <<>>
    /\ LET a == Head(todo[c])
       IN /\ a \in desired[c]
          /\ Write(c, a, _desired_status(seen[c][a]))
    /\ todo' = [todo EXCEPT ![c] = Tail(@)]
    /\ UNCHANGED <<pc, execution, then, desired, seen, lost>>

(* "workflow_progressed".                                                  *)
Suppress(c) ==
    /\ pc[c] = "rows" /\ todo[c] # <<>>
    /\ LET a == Head(todo[c])
       IN /\ a \notin desired[c]
          /\ Write(c, a, "blocked")
    /\ todo' = [todo EXCEPT ![c] = Tail(@)]
    /\ UNCHANGED <<pc, execution, then, desired, seen, lost>>

(* Mutant: the rows are written again. *)
RowsFail_Retries(c) ==
    /\ pc[c] = "rows" /\ todo[c] # <<>>
    /\ Rollback(c)
    /\ UNCHANGED <<pc, execution, synchronisation, lost>>

(* A failed write costs the rows, not the read model.                      *)
RowsFail(c) ==
    /\ pc[c] = "rows" /\ todo[c] # <<>>
    /\ Rollback(c)
    /\ todo' = [todo EXCEPT ![c] = <<>>]
    /\ UNCHANGED <<pc, execution, then, desired, seen, lost>>

(* A synchronisation that is over has no use for what it read.             *)
Forget(c) ==
    /\ desired' = [desired EXCEPT ![c] = {}]
    /\ seen' = [seen EXCEPT ![c] = Unread]

_persist_workflow(c) ==
    /\ pc[c] = "rows" /\ todo[c] = <<>>
    /\ Available(c, "workflow")
    /\ Commit(c, {})
    /\ Goto(c, then[c])
    /\ then' = [then EXCEPT ![c] = "done"]
    /\ Forget(c)
    /\ UNCHANGED <<execution, todo, lost>>
-----------------------------------------------------------------------------
(***************************************************************************)
(* execute_action.                                                         *)
(***************************************************************************)
(* The context joins the row and the stay, and both have a status: under   *)
(* that name the mapping keeps the later column, the stay's, which never   *)
(* is "completed".  So the early return for a completed action is not      *)
(* taken, and only a row that does not exist ends the call.                *)
LoadContext(c) ==
    /\ pc[c] = "context"
    /\ IF queue[act[c]] = "none"
       THEN Goto(c, "done") /\ act' = [act EXCEPT ![c] = "none"]
       ELSE Goto(c, "mark") /\ UNCHANGED act
    /\ UNCHANGED <<rows, result, synchronisation, lost>>

(* Mutant: the mark is committed, for the dashboard to show. *)
MarkInProgress_Committed(c) ==
    /\ pc[c] = "mark"
    /\ WriteAndCommit(c, act[c], "in_progress")
    /\ Goto(c, "act")
    /\ UNCHANGED <<execution, synchronisation, lost>>

(* The row is held from here to the next commit.                           *)
MarkInProgress(c) ==
    /\ pc[c] = "mark"
    /\ Write(c, act[c], "in_progress")
    /\ Goto(c, "act")
    /\ UNCHANGED <<execution, synchronisation, lost>>

Outcome(c, status) ==
    /\ pc[c] = "act"
    /\ result' = [result EXCEPT ![c] = status]
    /\ UNCHANGED <<act, synchronisation, lost>>

(* No telephone number, no text, or no estimated time.                     *)
Incomplete(c) ==
    act[c] \in Outreach /\ Outcome(c, "blocked") /\ Goto(c, "completing") /\ UNCHANGED rows

(* Mutant: the delivery's own word for it. *)
SendFails_Error(c) ==
    act[c] \in Outreach /\ Outcome(c, "error") /\ Goto(c, "completing") /\ UNCHANGED rows

(* Mutant: the delivery's answer is not looked at. *)
SendFails_Ignored(c) ==
    act[c] \in Outreach /\ Outcome(c, "completed") /\ Goto(c, "completing") /\ UNCHANGED rows

SendFails(c) ==
    act[c] \in Outreach /\ Outcome(c, "failed") /\ Goto(c, "completing") /\ UNCHANGED rows

Send(c) ==
    act[c] \in Outreach /\ Outcome(c, "completed") /\ Goto(c, "sent") /\ UNCHANGED rows

(* A notification, and a handoff with it or without.                       *)
Tell(c) ==
    /\ noted' = [noted EXCEPT ![c] = {act[c]}]
    /\ UNCHANGED <<queue, dirty, lock, recorded>>

Notify(c) ==
    /\ act[c] \notin Outreach \cup Coordination
    /\ Outcome(c, "completed") /\ Tell(c)
    /\ Goto(c, "completing")

(* The read model is written after the others tell, before the vendor's    *)
(* notification and work order.                                            *)
Coordinate(c) ==
    /\ act[c] \in Coordination
    /\ Outcome(c, "in_progress")
    /\ IF act[c] = "vendor_coordination" THEN UNCHANGED rows ELSE Tell(c)
    /\ Goto(c, "patch")

TellVendor(c) ==
    /\ pc[c] = "tell"
    /\ Tell(c)
    /\ Goto(c, "completing")
    /\ UNCHANGED <<execution, synchronisation, lost>>

(* add_message counts the message in the session's row and commits, the    *)
(* row in progress with it.                                                *)
AddMessage(c) ==
    /\ pc[c] = "sent"
    /\ Available(c, "guest")
    /\ Commit(c, {act[c]})
    /\ Goto(c, IF act[c] = "guest_status_response" THEN "completing" ELSE "patch")
    /\ UNCHANGED <<execution, synchronisation, lost>>

(* The touch is stamped on the session, the estimated time and the         *)
(* vendor's, turnover's and walkthrough's state on the read model.         *)
Patched(c) == IF act[c] = "proactive_outreach" THEN "guest" ELSE "workflow"

AfterPatch(c) == IF act[c] = "vendor_coordination" THEN "tell" ELSE "completing"

Patch(c) ==
    /\ pc[c] = "patch"
    /\ Available(c, Patched(c))
    /\ lock' = [lock EXCEPT ![Patched(c)] = c]
    /\ Goto(c, AfterPatch(c))
    /\ UNCHANGED <<queue, dirty, noted, recorded, execution, synchronisation, lost>>

(* What goes wrong with the read model is caught: the transaction is       *)
(* rolled back, the mark and what was told with it, and the execution      *)
(* goes on.                                                                *)
PatchFails(c) ==
    /\ pc[c] = "patch" /\ Patched(c) = "workflow"
    /\ Rollback(c)
    /\ lost' = lost \cup noted[c]
    /\ Goto(c, AfterPatch(c))
    /\ UNCHANGED <<execution, synchronisation>>

(* The final status, the caller's commit, and the caller's sync.           *)
Complete(c) ==
    /\ pc[c] = "completing"
    /\ WriteAndCommit(c, act[c], result[c])
    /\ act' = [act EXCEPT ![c] = "none"]
    /\ result' = [result EXCEPT ![c] = "none"]
    /\ Sync(c, "done")
    /\ UNCHANGED <<desired, seen, todo, lost>>
-----------------------------------------------------------------------------
(***************************************************************************)
(* The callers.                                                            *)
(***************************************************************************)
View(c) ==
    /\ "view" \in Kinds[c] /\ pc[c] = "new"
    /\ Sync(c, "done")
    /\ UNCHANGED <<rows, execution, desired, seen, todo, lost>>

Execute(c) ==
    /\ "execute" \in Kinds[c] /\ pc[c] = "new"
    /\ \E a \in Action : act' = [act EXCEPT ![c] = a]
    /\ Goto(c, "context")
    /\ UNCHANGED <<rows, result, synchronisation, lost>>

Touch(c) ==
    /\ "touch" \in Kinds[c] /\ pc[c] = "new"
    /\ Sync(c, "list")
    /\ UNCHANGED <<rows, execution, desired, seen, todo, lost>>

ListDue(c) ==
    /\ pc[c] = "list"
    /\ IF queue["proactive_outreach"] \in {"ready", "failed"}
       THEN Goto(c, "context") /\ act' = [act EXCEPT ![c] = "proactive_outreach"]
       ELSE Goto(c, "done") /\ UNCHANGED act
    /\ UNCHANGED <<rows, result, synchronisation, lost>>

(* A guest's mail whose answer is held for review.                         *)
Mail(c) ==
    /\ "mail" \in Kinds[c] /\ pc[c] = "new"
    /\ Goto(c, "mail")
    /\ UNCHANGED <<rows, execution, synchronisation, lost>>

_queue_guest_session_review_action(c) ==
    /\ pc[c] = "mail"
    /\ WriteAndCommit(c, "ops_review", "ready")
    /\ Goto(c, "done")
    /\ UNCHANGED <<execution, synchronisation, lost>>

(* A restart, or an error no one handles: the session is rolled back.      *)
Stops(c) ==
    /\ pc[c] \notin {"new", "done"}
    /\ Rollback(c)
    /\ Goto(c, "done")
    /\ Forget(c)
    /\ todo' = [todo EXCEPT ![c] = <<>>]
    /\ act' = [act EXCEPT ![c] = "none"]
    /\ result' = [result EXCEPT ![c] = "none"]
    /\ then' = [then EXCEPT ![c] = "done"]
    /\ UNCHANGED lost
-----------------------------------------------------------------------------
(***************************************************************************)
(* Waiting.  PostgreSQL ends a circle by failing one of its statements,    *)
(* which the sync's loop and the read model's patch survive.               *)
(***************************************************************************)
Wanted(c) ==
    CASE pc[c] = "rows" -> IF todo[c] = <<>> THEN {"workflow"} ELSE {Head(todo[c])}
      [] pc[c] = "patch" -> {Patched(c)}
      [] pc[c] = "sent" -> {"guest"}
      [] pc[c] \in {"mark", "completing"} -> {act[c]}
      [] pc[c] = "mail" -> {"ops_review"}
      [] OTHER -> {}

WaitsFor(c, d) == d # c /\ \E x \in Wanted(c) : lock[x] = d

(* A set in which everyone waits for another one of it, and everyone is    *)
(* waited for.                                                             *)
Deadlocked(c) ==
    \E C \in SUBSET Call :
        /\ c \in C
        /\ \A d \in C : (\E e \in C : WaitsFor(d, e)) /\ (\E e \in C : WaitsFor(e, d))

Victim(c) ==
    /\ Deadlocked(c)
    /\ CASE pc[c] = "rows" /\ todo[c] # <<>> -> RowsFail(c)
         [] pc[c] = "patch" /\ Patched(c) = "workflow" -> PatchFails(c)
         [] OTHER -> Stops(c)
-----------------------------------------------------------------------------
Begins(c) == View(c) \/ Execute(c) \/ Touch(c) \/ Mail(c)

Synchronises(c) ==
    \/ ReadExisting(c) \/ Archived(c) \/ Upsert(c) \/ Suppress(c) \/ _persist_workflow(c)

Executes(c) ==
    \/ LoadContext(c) \/ MarkInProgress(c)
    \/ Incomplete(c) \/ SendFails(c) \/ Send(c) \/ Notify(c) \/ Coordinate(c)
    \/ AddMessage(c) \/ Patch(c) \/ TellVendor(c) \/ Complete(c)

Step(c) ==
    \/ Synchronises(c) \/ Executes(c) \/ ListDue(c)
    \/ _queue_guest_session_review_action(c)

Fails(c) == RowsFail(c) \/ PatchFails(c) \/ Stops(c)

Finished == (\A c \in Call : pc[c] = "done") /\ UNCHANGED vars

Next ==
    \/ \E c \in Call : Begins(c) \/ Step(c) \/ Fails(c)
    \/ Finished

Spec == Init /\ [][Next]_vars

(* A call that has begun goes on, and a circle of waits is found.          *)
FairSpec == Spec /\ \A c \in Call : WF_vars(Step(c)) /\ WF_vars(Victim(c))
-----------------------------------------------------------------------------
(***************************************************************************)
(* Properties.                                                             *)
(***************************************************************************)
(* Every call ends, though executions and synchronisations take the rows,  *)
(* the read model and the session in different orders.                     *)
CallsEnd == \A c \in Call : pc[c] # "new" ~> pc[c] = "done"

(* Of the calls that have begun and not ended one can go on, or is in a    *)
(* circle of waits, which the database breaks: no call is left waiting for *)
(* a row whose holder has ended.                                           *)
Underway == {c \in Call : pc[c] \notin {"new", "done"}}

Waits(c) == \E d \in Call : WaitsFor(c, d)

NobodyStuck == Underway # {} => \E c \in Underway : ~Waits(c) \/ Deadlocked(c)

(* How far a call is.  A touch synchronises before it executes anything.   *)
Order == [new |-> 0, list |-> 3, context |-> 4, mark |-> 5, act |-> 6, sent |-> 7, patch |-> 8,
          tell |-> 9, completing |-> 10, mail |-> 10, read |-> 11, rows |-> 12, done |-> 13]

Stage(c) == IF pc[c] \in {"read", "rows"} /\ then[c] = "list" THEN Order[pc[c]] - 10 ELSE Order[pc[c]]

Forward(c) == \/ Stage(c)' > Stage(c)
              \/ Stage(c)' = Stage(c) /\ Len(todo'[c]) < Len(todo[c])

(* No step, of an error's handling or the database's included, sends a     *)
(* call back: each brings one nearer to its end, and concerns no other.    *)
EveryStepCounts == [][\E c \in Call :
    Forward(c) /\ \A d \in Call \ {c} : UNCHANGED <<pc[d], then[d], todo[d]>>]_vars

Sending(c) == pc[c] \in {"act", "sent"}

(* While one call sends an action's message, no other does: the mark that  *)
(* is not yet committed keeps the others out, nothing else.                *)
OneSender ==
    \A c, d \in Call : Sending(c) /\ Sending(d) /\ act[c] = act[d] => c = d

Shown == {"in_progress", "completed"}

(* "Completed actions are hidden - they've already happened": of an action *)
(* that the queue shows in progress or completed the guest or the          *)
(* operators were told, whatever crashed, failed or was written over       *)
(* meanwhile; unless the failed write of the read model took it back.      *)
ShownIsDelivered ==
    \A a \in Action : queue[a] \in Shown => a \in recorded \cup lost

(* A synchronisation that read the row before its execution had committed  *)
(* anything: it is ready again, or blocked where it is due no more.        *)
Overtaken(c, a) ==
    /\ pc[c] = "rows" /\ lock[a] = c
    /\ seen[c][a] \notin Shown
    /\ queue'[a] = IF a \in desired[c] THEN "ready" ELSE "blocked"

(* A synchronisation that read it in progress, and found it due no more.   *)
Withdrawn(c, a) ==
    /\ pc[c] = "rows" /\ lock[a] = c
    /\ seen[c][a] = "in_progress" /\ a \notin desired[c]
    /\ queue'[a] = "blocked"

(* A second execution of it, which did not come to its end.                *)
Repeated(c, a) ==
    /\ pc[c] = "completing" /\ act[c] = a
    /\ queue'[a] = result[c] /\ result[c] \in {"failed", "blocked"}

(* Another mail held for review.                                           *)
Reopened(c, a) == pc[c] = "mail" /\ a = "ops_review" /\ queue'[a] = "ready"

(* What the queue shows as begun or completed stops being shown so in four *)
(* ways and no other.  So an action that is offered to the operator again  *)
(* was read too early by a synchronisation, or had first been withdrawn,   *)
(* had failed in a second execution, or is a review with new mail: a       *)
(* synchronisation that read it completed never takes it back.             *)
TakenBack(a) ==
    queue[a] \in Shown /\ queue'[a] \notin Shown =>
        \E c \in Call : Overtaken(c, a) \/ Withdrawn(c, a) \/ Repeated(c, a) \/ Reopened(c, a)

TakenBackInFourWays == [][\A a \in Action : TakenBack(a)]_vars
=============================================================================
