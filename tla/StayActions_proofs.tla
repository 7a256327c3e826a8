------------------------- MODULE StayActions_proofs -------------------------
(* Proofs about StayActions, for any number of calls and any of the ten    *)
(* actions.                                                                *)
EXTENDS StayActions, InductionLemmas, SequenceTheorems, TLAPS
-----------------------------------------------------------------------------
(***************************************************************************)
(* The inductive invariant.                                                *)
(***************************************************************************)
(* A row that nobody holds is as committed.                                *)
Settled == \A a \in Action : lock[a] = Free => dirty[a] = queue[a]

(* From its mark to its last commit.                                       *)
Executing == {"act", "sent", "patch", "tell", "completing"}

(* Nothing is held between transactions.                                   *)
HeldInTransaction ==
    \A x \in Resource : lock[x] # Free => pc[lock[x]] \in {"rows"} \cup Executing

(* An execution has an action: to send a message, an outreach; to patch    *)
(* the read model, an outreach or a coordination.                          *)
HasAction ==
    \A c \in Call :
        /\ pc[c] \in {"context", "mark"} \cup Executing => act[c] \in Action
        /\ pc[c] = "sent" => act[c] \in Outreach
        /\ pc[c] = "patch" => act[c] \in Outreach \cup Coordination
        /\ pc[c] = "tell" => act[c] = "vendor_coordination"

(* From the mark to the message an execution holds its row, which reads    *)
(* in_progress, and it never holds another.                                *)
SenderHolds ==
    \A c \in Call :
        /\ Sending(c) => lock[act[c]] = c /\ dirty[act[c]] = "in_progress"
        /\ pc[c] \in Executing => \A a \in Action : lock[a] = c => a = act[c]

(* An execution tells of its own action, and before the read model is      *)
(* patched only of a coordination without a vendor.                        *)
NotedIsOwn ==
    \A c \in Call :
        /\ noted[c] # {} => pc[c] \in {"patch", "completing"} /\ noted[c] = {act[c]}
        /\ pc[c] = "patch" => noted[c] \subseteq Coordination \ {"vendor_coordination"}

Told == recorded \cup lost

(* What is in progress was told of, or is being executed.                  *)
WrittenIsDelivered ==
    \A a \in Action : dirty[a] \in {"in_progress", "completed"} =>
        \/ a \in Told
        \/ lock[a] # Free /\ pc[lock[a]] \in Executing

SeenIsDelivered ==
    \A c \in Call, a \in Action : seen[c][a] \in {"in_progress", "completed"} => a \in Told

ResultIsDelivered ==
    \A c \in Call :
        /\ pc[c] \in {"sent", "patch", "tell", "completing"} => result[c] # "none"
        /\ pc[c] = "patch" /\ act[c] # "vendor_coordination" => act[c] \in recorded \cup noted[c]
        /\ pc[c] = "completing" /\ result[c] \in {"in_progress", "completed"} =>
              act[c] \in Told \cup noted[c]

(* What a synchronisation wrote follows from what it read.                 *)
WriteIsAsRead ==
    \A c \in Call, a \in Action : pc[c] = "rows" /\ lock[a] = c =>
        dirty[a] = IF a \in desired[c] THEN _desired_status(seen[c][a]) ELSE "blocked"

IInv ==
    /\ TypeOK /\ Settled /\ HeldInTransaction /\ HasAction /\ SenderHolds /\ NotedIsOwn
    /\ ShownIsDelivered /\ WrittenIsDelivered /\ SeenIsDelivered /\ ResultIsDelivered
    /\ WriteIsAsRead
-----------------------------------------------------------------------------
(***************************************************************************)
(* Types.                                                                  *)
(***************************************************************************)
LEMMA ActionFinite == IsFiniteSet(Action)
  <1> DEFINE Guest == {"guest_status_response", "proactive_outreach", "guest_eta_update"}
             Staff == {"vendor_coordination", "turnover_coordination", "post_checkout_walkthrough"}
             Inner == {"knowledge_response", "ops_review", "owner_internal_update"}
  <1>1. ASSUME NEW x, NEW y, NEW z PROVE IsFiniteSet({x, y, z})
    <2>1. IsFiniteSet({})
      BY FS_EmptySet
    <2>2. IsFiniteSet({x})
      BY <2>1, FS_AddElement
    <2>3. IsFiniteSet({x, y})
      BY <2>2, FS_AddElement
    <2>4. QED
      BY <2>3, FS_AddElement
  <1>2. IsFiniteSet(Guest) /\ IsFiniteSet(Staff) /\ IsFiniteSet(Inner)
    BY <1>1
  <1>3. IsFiniteSet((Guest \cup Staff) \cup Inner)
    BY <1>2, FS_Union
  <1>4. IsFiniteSet(((Guest \cup Staff) \cup Inner) \cup {"accounting_claim_handoff"})
    BY <1>3, FS_AddElement
  <1>5. Action \subseteq ((Guest \cup Staff) \cup Inner) \cup {"accounting_claim_handoff"}
    BY ActionAssumption DEF Rank
  <1>6. QED
    BY <1>4, <1>5, FS_Subset

LEMMA OrdersAreSequences ==
  ASSUME NEW due \in SUBSET Action, NEW others \in SUBSET Action, NEW s \in Orders(due, others)
  PROVE  s \in Seq(Action)
  <1> DEFINE all == due \cup others
  <1>1. Cardinality(all) \in Nat
    BY ActionFinite, FS_Subset, FS_CardinalityType
  <1>2. s \in [1 .. Cardinality(all) -> Action]
    <2>1. s \in [1 .. Cardinality(all) -> all] /\ all \subseteq Action
      BY DEF Orders
    <2>2. QED
      BY <2>1
  <1>3. \A n \in Nat : [1 .. n -> Action] \subseteq Seq(Action)
    BY SeqDef
  <1>4. QED
    BY <1>1, <1>2, <1>3

LEMMA TypeInit == Init => TypeOK
  BY FreeAssumption DEF Init, TypeOK, Status, Unread

(* A row of the queue may be held, as the read model and the session may.  *)
LEMMA Resources == Action \subseteq Resource /\ "workflow" \in Resource /\ "guest" \in Resource
  BY DEF Resource

(* The rows, and what was told with them.                                  *)
RowsOK ==
    /\ queue \in [Action -> Status]
    /\ dirty \in [Action -> Status]
    /\ lock \in [Resource -> Call \cup {Free}]
    /\ noted \in [Call -> SUBSET Action]
    /\ recorded \subseteq Action

LEMMA RowTypes ==
  ASSUME TypeOK, NEW c \in Call
  PROVE  /\ \A a \in Action, status \in Status :
              Write(c, a, status) \/ WriteAndCommit(c, a, status) => RowsOK'
         /\ \A more \in SUBSET Action : Commit(c, more) => RowsOK'
         /\ Rollback(c) => RowsOK'
  <1> USE Resources DEF TypeOK, RowsOK
  <1>1. ASSUME NEW a \in Action, NEW status \in Status, Write(c, a, status) PROVE RowsOK'
    BY <1>1 DEF Write
  <1>2. ASSUME NEW a \in Action, NEW status \in Status, WriteAndCommit(c, a, status) PROVE RowsOK'
    BY <1>2 DEF WriteAndCommit, Publish, Release
  <1>3. ASSUME NEW more \in SUBSET Action, Commit(c, more) PROVE RowsOK'
    BY <1>3 DEF Commit, Publish, Release
  <1>4. ASSUME Rollback(c) PROVE RowsOK'
    BY <1>4 DEF Rollback, Release
  <1>5. QED
    BY <1>1, <1>2, <1>3, <1>4

LEMMA SyncTypes ==
  ASSUME TypeOK, NEW c \in Call
  PROVE  /\ ReadExisting(c) => TypeOK'
         /\ Archived(c) => TypeOK'
         /\ Upsert(c) => TypeOK'
         /\ Suppress(c) => TypeOK'
         /\ RowsFail(c) => TypeOK'
         /\ _persist_workflow(c) => TypeOK'
  <1>1. ASSUME ReadExisting(c) PROVE TypeOK'
    <2>1. PICK due \in Due :
            /\ desired' = [desired EXCEPT ![c] = due]
            /\ seen' = [seen EXCEPT ![c] = queue]
            /\ \E s \in Orders(due, {a \in Action \ due : queue[a] \notin {"none", "completed"}}) :
                 todo' = [todo EXCEPT ![c] = s]
      BY <1>1 DEF ReadExisting
    <2>2. PICK s \in Orders(due, {a \in Action \ due : queue[a] \notin {"none", "completed"}}) :
            todo' = [todo EXCEPT ![c] = s]
      BY <2>1
    <2>3. s \in Seq(Action)
      BY <2>2, DueAssumption, OrdersAreSequences
    <2>4. [a \in Action |-> IF a \in due THEN queue[a] ELSE "none"] \in [Action -> Status]
      BY DEF TypeOK, Status
    <2>5. pc' = [pc EXCEPT ![c] = "rows"] /\ UNCHANGED <<rows, execution, then, lost>>
      BY <1>1 DEF ReadExisting, Goto
    <2>6. QED
      BY <2>1, <2>2, <2>3, <2>4, <2>5, DueAssumption DEF TypeOK, rows, execution
  <1>2. ASSUME Archived(c) PROVE TypeOK'
    BY <1>2 DEF Archived, TypeOK, Goto, rows, execution, synchronisation
  <1>3. ASSUME Upsert(c) PROVE TypeOK'
    <2>1. Head(todo[c]) \in Action /\ Tail(todo[c]) \in Seq(Action)
      BY <1>3 DEF Upsert, TypeOK
    <2>2. _desired_status(seen[c][Head(todo[c])]) \in Status
      BY DEF _desired_status, Status
    <2>3. /\ Write(c, Head(todo[c]), _desired_status(seen[c][Head(todo[c])]))
          /\ todo' = [todo EXCEPT ![c] = Tail(todo[c])]
          /\ UNCHANGED <<pc, execution, then, desired, seen, lost>>
      BY <1>3 DEF Upsert, TypeOK
    <2>4. QED
      BY <2>1, <2>2, <2>3, RowTypes DEF TypeOK, RowsOK, execution
  <1>4. ASSUME Suppress(c) PROVE TypeOK'
    <2>1. Head(todo[c]) \in Action /\ Tail(todo[c]) \in Seq(Action) /\ "blocked" \in Status
      BY <1>4 DEF Suppress, TypeOK, Status
    <2>2. /\ Write(c, Head(todo[c]), "blocked")
          /\ todo' = [todo EXCEPT ![c] = Tail(todo[c])]
          /\ UNCHANGED <<pc, execution, then, desired, seen, lost>>
      BY <1>4 DEF Suppress, TypeOK
    <2>3. QED
      BY <2>1, <2>2, RowTypes DEF TypeOK, RowsOK, execution
  <1>5. ASSUME RowsFail(c) PROVE TypeOK'
    <2>1. <<>> \in Seq(Action)
      OBVIOUS
    <2>2. QED
      BY <1>5, <2>1, RowTypes DEF RowsFail, TypeOK, RowsOK, execution
  <1>6. ASSUME _persist_workflow(c) PROVE TypeOK'
    <2>1. then[c] \in {"list", "done"} /\ Unread \in [Action -> Status]
      BY DEF TypeOK, Unread, Status
    <2>2. QED
      BY <1>6, <2>1, RowTypes DEF _persist_workflow, RowsOK, Forget, Goto, TypeOK, execution
  <1>7. QED
    BY <1>1, <1>2, <1>3, <1>4, <1>5, <1>6

LEMMA ExecutionTypes ==
  ASSUME TypeOK, HasAction, NotedIsOwn, NEW c \in Call
  PROVE  Executes(c) \/ PatchFails(c) => TypeOK'
  <1> USE DEF TypeOK, RowsOK, Goto, rows, execution, synchronisation
  <1>1. ASSUME LoadContext(c) PROVE TypeOK'
    BY <1>1 DEF LoadContext
  <1>2. ASSUME MarkInProgress(c) PROVE TypeOK'
    <2>1. act[c] \in Action /\ "in_progress" \in Status
      BY <1>2 DEF MarkInProgress, HasAction, Status
    <2>2. QED
      BY <1>2, <2>1, RowTypes DEF MarkInProgress
  <1>3. ASSUME Incomplete(c) \/ SendFails(c) \/ Send(c) PROVE TypeOK'
    BY <1>3 DEF Incomplete, SendFails, Send, Outcome
  <1>4. ASSUME Notify(c) \/ Coordinate(c) \/ TellVendor(c) PROVE TypeOK'
    <2>1. act[c] \in Action
      BY <1>4 DEF Notify, Coordinate, TellVendor, Outcome, HasAction, Executing
    <2>2. {act[c]} \in SUBSET Action
      BY <2>1
    <2>3. noted' \in [Call -> SUBSET Action]
      <3>1. noted' = noted \/ noted' = [noted EXCEPT ![c] = {act[c]}]
        BY <1>4 DEF Notify, Coordinate, TellVendor, Tell
      <3>2. QED
        BY <2>2, <3>1
    <2>4. /\ UNCHANGED <<queue, dirty, lock, recorded, act, then, desired, seen, todo, lost>>
          /\ \/ result' = result
             \/ \E status \in {"completed", "in_progress"} : result' = [result EXCEPT ![c] = status]
          /\ \E label \in {"completing", "patch"} : pc' = [pc EXCEPT ![c] = label]
      BY <1>4 DEF Notify, Coordinate, TellVendor, Tell, Outcome
    <2>5. QED
      BY <2>3, <2>4
  <1>5. ASSUME AddMessage(c) PROVE TypeOK'
    <2>1. act[c] \in Action /\ {act[c]} \in SUBSET Action
      BY <1>5 DEF AddMessage, HasAction, Executing
    <2>2. QED
      BY <1>5, <2>1, RowTypes DEF AddMessage
  <1>6. ASSUME Patch(c) PROVE TypeOK'
    <2>1. Patched(c) \in Resource
      BY Resources DEF Patched
    <2>2. QED
      BY <1>6, <2>1 DEF Patch, AfterPatch
  <1>7. ASSUME PatchFails(c) PROVE TypeOK'
    <2>1. noted[c] \subseteq Coordination
      BY <1>7 DEF PatchFails, NotedIsOwn
    <2>2. QED
      BY <1>7, <2>1, RowTypes DEF PatchFails, AfterPatch
  <1>8. ASSUME Complete(c) PROVE TypeOK'
    <2>1. act[c] \in Action /\ result[c] \in Status
      BY <1>8 DEF Complete, HasAction, Executing, Status
    <2>2. QED
      BY <1>8, <2>1, RowTypes DEF Complete, Sync
  <1>9. QED
    BY <1>1, <1>2, <1>3, <1>4, <1>5, <1>6, <1>7, <1>8 DEF Executes

LEMMA CallerTypes ==
  ASSUME TypeOK, NEW c \in Call
  PROVE  /\ Begins(c) => TypeOK'
         /\ ListDue(c) => TypeOK'
         /\ _queue_guest_session_review_action(c) => TypeOK'
         /\ Stops(c) => TypeOK'
  <1> USE DEF TypeOK, Goto, rows, execution, synchronisation
  <1>1. ASSUME Begins(c) PROVE TypeOK'
    <2>1. ASSUME View(c) \/ Touch(c) PROVE TypeOK'
      BY <2>1 DEF View, Touch, Sync
    <2>2. ASSUME Execute(c) PROVE TypeOK'
      BY <2>2 DEF Execute
    <2>3. ASSUME Mail(c) PROVE TypeOK'
      BY <2>3 DEF Mail
    <2>4. QED
      BY <1>1, <2>1, <2>2, <2>3 DEF Begins
  <1>2. ASSUME ListDue(c) PROVE TypeOK'
    <2>1. "proactive_outreach" \in Action
      BY ActionAssumption
    <2>2. CASE queue["proactive_outreach"] \in {"ready", "failed"}
      BY <1>2, <2>1, <2>2 DEF ListDue
    <2>3. CASE queue["proactive_outreach"] \notin {"ready", "failed"}
      BY <1>2, <2>3 DEF ListDue
    <2>4. QED
      BY <2>2, <2>3
  <1>3. ASSUME _queue_guest_session_review_action(c) PROVE TypeOK'
    <2>1. "ops_review" \in Action /\ "ready" \in Status
      BY ActionAssumption DEF Status
    <2>2. /\ WriteAndCommit(c, "ops_review", "ready")
          /\ pc' = [pc EXCEPT ![c] = "done"]
          /\ UNCHANGED <<execution, synchronisation, lost>>
      BY <1>3 DEF _queue_guest_session_review_action
    <2>3. RowsOK'
      BY <2>1, <2>2, RowTypes
    <2>4. QED
      BY <2>2, <2>3 DEF RowsOK
  <1>4. ASSUME Stops(c) PROVE TypeOK'
    <2>1. Unread \in [Action -> Status] /\ <<>> \in Seq(Action)
      BY DEF Unread, Status
    <2>2. QED
      BY <1>4, <2>1, RowTypes DEF Stops, RowsOK, Forget
  <1>5. QED
    BY <1>1, <1>2, <1>3, <1>4

LEMMA TypeStep ==
  ASSUME TypeOK, HasAction, NotedIsOwn, [Next]_vars
  PROVE  TypeOK'
  <1>1. CASE UNCHANGED vars
    BY <1>1 DEF vars, rows, execution, synchronisation, TypeOK
  <1>2. ASSUME NEW c \in Call, Begins(c) \/ Step(c) \/ Fails(c) PROVE TypeOK'
    BY <1>2, SyncTypes, ExecutionTypes, CallerTypes DEF Step, Synchronises, Fails
  <1>3. QED
    BY <1>1, <1>2 DEF Next, Finished
-----------------------------------------------------------------------------
(***************************************************************************)
(* The invariant is preserved: the steps that write no row.                *)
(***************************************************************************)
LEMMA OutreachIsAction ==
  /\ Outreach \subseteq Action /\ Coordination \subseteq Action
  /\ "ops_review" \notin Outreach \cup Coordination
  /\ Outreach \cap Coordination = {}
  BY DEF Outreach, Coordination

(* A step of c leaves the other calls as they are.                         *)
OthersKept(c) ==
    \A d \in Call \ {c} : /\ pc'[d] = pc[d] /\ act'[d] = act[d] /\ result'[d] = result[d]
                          /\ desired'[d] = desired[d] /\ seen'[d] = seen[d]
                          /\ noted'[d] = noted[d]

LEMMA OthersKeptExecution ==
  ASSUME IInv, NEW c \in Call, OthersKept(c), pc'[c] \notin {"context", "mark"} \cup Executing,
         recorded \subseteq recorded', lost \subseteq lost', noted'[c] = {}
  PROVE  HasAction' /\ ResultIsDelivered' /\ NotedIsOwn'
  <1>1. HasAction'
    BY DEF IInv, OthersKept, HasAction, Executing
  <1>2. NotedIsOwn'
    BY DEF IInv, OthersKept, NotedIsOwn, Executing
  <1>3. ASSUME NEW d \in Call \ {c} PROVE Told \cup noted[d] \subseteq Told' \cup noted'[d]
    BY DEF OthersKept, Told
  <1>4. ResultIsDelivered'
    BY <1>3 DEF IInv, OthersKept, ResultIsDelivered, Executing
  <1>5. QED
    BY <1>1, <1>2, <1>4

(* A step of c that writes nothing.                                        *)
LEMMA QuietStep ==
  ASSUME IInv, TypeOK', NEW c \in Call, UNCHANGED <<rows, lost>>, OthersKept(c),
         pc[c] \notin {"rows"} \cup Executing, pc'[c] \notin Executing,
         pc'[c] \in {"context", "mark"} => act'[c] \in Action,
         \/ seen'[c] = seen[c]
         \/ \A a \in Action : seen'[c][a] \in {queue[a], "none"}
  PROVE  IInv'
  <1>1. \A x \in Resource : lock[x] # c
    BY FreeAssumption DEF IInv, HeldInTransaction
  <1>2. UNCHANGED <<queue, dirty, lock, noted, recorded, lost>>
    BY DEF rows
  <1>3. noted[c] = {}
    BY DEF IInv, NotedIsOwn, Executing
  <1>4. Settled' /\ ShownIsDelivered'
    BY <1>2 DEF IInv, Settled, ShownIsDelivered
  <1>5. HeldInTransaction'
    BY <1>1, <1>2 DEF IInv, TypeOK, HeldInTransaction, OthersKept
  <1>6. HasAction'
    BY DEF IInv, HasAction, OthersKept, Executing
  <1>7. SenderHolds'
    BY <1>1, <1>2 DEF IInv, SenderHolds, Sending, OthersKept, Executing
  <1>8. NotedIsOwn'
    BY <1>2, <1>3 DEF IInv, NotedIsOwn, OthersKept, Executing
  <1>9. WrittenIsDelivered'
    BY <1>1, <1>2, Resources DEF IInv, TypeOK, WrittenIsDelivered, OthersKept, Told
  <1>10. SeenIsDelivered'
    BY <1>2 DEF IInv, SeenIsDelivered, ShownIsDelivered, Shown, OthersKept, Told
  <1>11. ResultIsDelivered'
    BY <1>2 DEF IInv, ResultIsDelivered, OthersKept, Executing, Told
  <1>12. WriteIsAsRead'
    BY <1>1, <1>2, Resources DEF IInv, WriteIsAsRead, OthersKept
  <1>13. QED
    BY <1>4, <1>5, <1>6, <1>7, <1>8, <1>9, <1>10, <1>11, <1>12 DEF IInv

(* A step of an execution that writes no row.                              *)
LEMMA ExecutingStep ==
  ASSUME IInv, TypeOK', NEW c \in Call, UNCHANGED <<queue, dirty, lock, recorded, lost>>,
         OthersKept(c), act'[c] = act[c], seen'[c] = seen[c],
         pc[c] \in Executing, pc'[c] \in Executing \ {"act"}, Sending(c)' => Sending(c),
         HasAction', NotedIsOwn', ResultIsDelivered'
  PROVE  IInv'
  <1>1. Settled' /\ ShownIsDelivered'
    BY DEF IInv, Settled, ShownIsDelivered
  <1>2. HeldInTransaction'
    <2>1. ASSUME NEW x \in Resource, lock'[x] # Free PROVE pc'[lock'[x]] \in {"rows"} \cup Executing
      <3>1. lock'[x] = lock[x] /\ lock[x] \in Call /\ pc[lock[x]] \in {"rows"} \cup Executing
        BY <2>1 DEF IInv, TypeOK, HeldInTransaction
      <3>2. QED
        BY <3>1 DEF OthersKept
    <2>2. QED
      BY <2>1 DEF HeldInTransaction
  <1>3. SenderHolds'
    <2>1. ASSUME NEW d \in Call
          PROVE  /\ act'[d] = act[d] /\ (Sending(d)' => Sending(d))
                 /\ pc'[d] \in Executing => pc[d] \in Executing
      BY DEF OthersKept, Sending
    <2>2. QED
      BY <2>1 DEF IInv, SenderHolds
  <1>4. WrittenIsDelivered'
    <2>1. ASSUME NEW a \in Action, lock[a] # Free, pc[lock[a]] \in Executing
          PROVE  pc'[lock'[a]] \in Executing
      <3>1. lock'[a] = lock[a] /\ lock[a] \in Call
        BY <2>1, Resources DEF IInv, TypeOK
      <3>2. QED
        BY <2>1, <3>1 DEF OthersKept
    <2>2. QED
      BY <2>1 DEF IInv, WrittenIsDelivered, Told
  <1>5. SeenIsDelivered'
    BY DEF IInv, SeenIsDelivered, OthersKept, Told
  <1>6. WriteIsAsRead'
    BY DEF IInv, WriteIsAsRead, OthersKept, Executing
  <1>7. QED
    BY <1>1, <1>2, <1>3, <1>4, <1>5, <1>6 DEF IInv

LEMMA ReadingSteps ==
  ASSUME IInv, TypeOK', NEW c \in Call, ReadExisting(c) \/ Archived(c)
  PROVE  IInv'
  <1> USE DEF Goto, execution, synchronisation
  <1>1. CASE ReadExisting(c)
    <2>1. PICK due \in Due :
            /\ desired' = [desired EXCEPT ![c] = due]
            /\ seen' = [seen EXCEPT ![c] = queue]
      BY <1>1 DEF ReadExisting
    <2>2. \A a \in Action : seen'[c][a] \in {queue[a], "none"}
      BY <2>1 DEF IInv, TypeOK
    <2>3. /\ pc[c] = "read" /\ pc' = [pc EXCEPT ![c] = "rows"]
          /\ UNCHANGED <<rows, act, result, lost>>
      BY <1>1 DEF ReadExisting
    <2>4. pc'[c] = "rows"
      BY <2>3 DEF IInv, TypeOK
    <2>5. OthersKept(c)
      BY <2>1, <2>3 DEF IInv, TypeOK, OthersKept, rows
    <2>6. QED
      BY <2>2, <2>3, <2>4, <2>5, QuietStep DEF Executing
  <1>2. CASE Archived(c)
    <2>1. pc'[c] = "rows" /\ pc[c] = "read" /\ UNCHANGED <<rows, lost>> /\ seen'[c] = seen[c]
      BY <1>2 DEF Archived, IInv, TypeOK
    <2>2. OthersKept(c)
      BY <1>2 DEF Archived, IInv, TypeOK, OthersKept, rows
    <2>3. QED
      BY <2>1, <2>2, QuietStep DEF Executing
  <1>3. QED
    BY <1>1, <1>2

LEMMA BeginningSteps ==
  ASSUME IInv, TypeOK', NEW c \in Call, Begins(c) \/ ListDue(c) \/ LoadContext(c)
  PROVE  IInv'
  <1> USE DEF Goto, Sync, execution, synchronisation, IInv, TypeOK
  <1>1. /\ pc[c] \in {"new", "list", "context"} /\ pc'[c] \in {"read", "context", "mark", "mail", "done"}
        /\ UNCHANGED <<rows, lost>> /\ seen'[c] = seen[c]
    BY DEF Begins, View, Execute, Touch, Mail, ListDue, LoadContext
  <1>2. OthersKept(c)
    BY DEF Begins, View, Execute, Touch, Mail, ListDue, LoadContext, OthersKept, rows
  <1>3. pc'[c] \in {"context", "mark"} => act'[c] \in Action
    <2>1. CASE Begins(c)
      BY <2>1 DEF Begins, View, Execute, Touch, Mail
    <2>2. CASE ListDue(c)
      BY <2>2, ActionAssumption DEF ListDue
    <2>3. CASE LoadContext(c)
      BY <2>3 DEF LoadContext, HasAction
    <2>4. QED
      BY <2>1, <2>2, <2>3
  <1>4. QED
    BY <1>1, <1>2, <1>3, QuietStep DEF Executing

LEMMA OutcomeSteps ==
  ASSUME IInv, TypeOK', NEW c \in Call,
         Incomplete(c) \/ SendFails(c) \/ Send(c) \/ Notify(c) \/ Coordinate(c) \/ TellVendor(c)
  PROVE  IInv'
  <1> USE DEF Goto, Outcome, Tell, execution, synchronisation, IInv, TypeOK
  <1>1. /\ pc[c] \in {"act", "tell"} /\ act[c] \in Action /\ act' = act /\ seen' = seen
        /\ desired' = desired /\ UNCHANGED <<queue, dirty, lock, recorded, lost>>
    BY DEF Incomplete, SendFails, Send, Notify, Coordinate, TellVendor, rows, HasAction, Executing
  <1>2. \A d \in Call \ {c} : /\ pc'[d] = pc[d] /\ result'[d] = result[d] /\ noted'[d] = noted[d]
    BY DEF Incomplete, SendFails, Send, Notify, Coordinate, TellVendor, rows
  <1>3. noted[c] = {}
    BY <1>1 DEF NotedIsOwn
  <1>4. \/ /\ pc'[c] = "completing" /\ result'[c] \in {"blocked", "failed"} /\ noted'[c] = {}
        \/ pc'[c] = "sent" /\ act[c] \in Outreach /\ result'[c] = "completed" /\ noted'[c] = {}
        \/ pc'[c] = "completing" /\ result'[c] # "none" /\ noted'[c] = {act[c]}
        \/ /\ pc'[c] = "patch" /\ act[c] \in Coordination /\ result'[c] = "in_progress"
           /\ noted'[c] = IF act[c] = "vendor_coordination" THEN {} ELSE {act[c]}
    <2>1. CASE Incomplete(c) \/ SendFails(c) \/ Send(c)
      BY <1>3, <2>1 DEF Incomplete, SendFails, Send, rows
    <2>2. CASE Notify(c)
      BY <2>2 DEF Notify
    <2>3. CASE Coordinate(c)
      BY <1>3, <2>3 DEF Coordinate, rows
    <2>4. CASE TellVendor(c)
      BY <2>4 DEF TellVendor, ResultIsDelivered
    <2>5. QED
      BY <2>1, <2>2, <2>3, <2>4
  <1>5. OthersKept(c)
    BY <1>1, <1>2 DEF OthersKept
  <1>6. HasAction' /\ NotedIsOwn' /\ ResultIsDelivered'
    <2>1. HasAction'
      BY <1>1, <1>2, <1>4 DEF HasAction, Executing
    <2>2. NotedIsOwn'
      <3>1. ASSUME NEW d \in Call \ {c}
            PROVE  /\ noted'[d] # {} => pc'[d] \in {"patch", "completing"} /\ noted'[d] = {act'[d]}
                   /\ pc'[d] = "patch" => noted'[d] \subseteq Coordination \ {"vendor_coordination"}
        BY <1>1, <1>2 DEF NotedIsOwn
      <3>2. /\ noted'[c] # {} => pc'[c] \in {"patch", "completing"} /\ noted'[c] = {act'[c]}
            /\ pc'[c] = "patch" => noted'[c] \subseteq Coordination \ {"vendor_coordination"}
        BY <1>1, <1>4
      <3>3. QED
        BY <3>1, <3>2 DEF NotedIsOwn
    <2>3. ResultIsDelivered'
      <3>1. Told' = Told
        BY <1>1 DEF Told
      <3>2. ASSUME NEW d \in Call \ {c}
            PROVE  /\ pc'[d] \in {"sent", "patch", "tell", "completing"} => result'[d] # "none"
                   /\ pc'[d] = "patch" /\ act'[d] # "vendor_coordination" =>
                         act'[d] \in recorded' \cup noted'[d]
                   /\ pc'[d] = "completing" /\ result'[d] \in {"in_progress", "completed"} =>
                         act'[d] \in Told' \cup noted'[d]
        BY <1>1, <1>2, <3>1 DEF ResultIsDelivered
      <3>3. /\ pc'[c] \in {"sent", "patch", "tell", "completing"} => result'[c] # "none"
            /\ pc'[c] = "patch" /\ act'[c] # "vendor_coordination" =>
                  act'[c] \in recorded' \cup noted'[c]
            /\ pc'[c] = "completing" /\ result'[c] \in {"in_progress", "completed"} =>
                  act'[c] \in Told' \cup noted'[c]
        BY <1>1, <1>4
      <3>4. QED
        BY <3>2, <3>3 DEF ResultIsDelivered
    <2>4. QED
      BY <2>1, <2>2, <2>3
  <1>7. pc'[c] \in Executing \ {"act"} /\ pc[c] \in Executing
    BY <1>1, <1>4 DEF Executing
  <1>8. Sending(c)' => Sending(c)
    BY <1>1, <1>4 DEF Sending, Incomplete, SendFails, Send, Notify, Coordinate, TellVendor
  <1>9. QED
    BY <1>1, <1>5, <1>6, <1>7, <1>8, ExecutingStep
-----------------------------------------------------------------------------
(***************************************************************************)
(* The invariant is preserved: the writes of a synchronisation.            *)
(***************************************************************************)
(* A write of a row that was read, or found not to be due.                 *)
LEMMA RowSteps ==
  ASSUME IInv, TypeOK', NEW c \in Call, Upsert(c) \/ Suppress(c)
  PROVE  IInv'
  <1> DEFINE a == Head(todo[c])
             s == IF a \in desired[c] THEN _desired_status(seen[c][a]) ELSE "blocked"
  <1>1. a \in Action /\ a \in Resource
    BY Resources DEF Upsert, Suppress, IInv, TypeOK
  <1>2. /\ pc[c] = "rows" /\ Write(c, a, s)
        /\ UNCHANGED <<pc, act, result, desired, seen, noted, recorded, lost>>
    BY DEF Upsert, Suppress, Write, execution
  <1>3. s \in {"in_progress", "completed"} => s = seen[c][a] /\ a \in desired[c]
    BY DEF _desired_status
  <1>4. s = IF a \in desired[c] THEN _desired_status(seen[c][a]) ELSE "blocked"
    OBVIOUS
  <1> HIDE DEF a, s
  <1>5. /\ lock[a] \in {Free, c}
        /\ lock' = [lock EXCEPT ![a] = c] /\ dirty' = [dirty EXCEPT ![a] = s] /\ queue' = queue
    BY <1>2 DEF Write, Available
  <1>6. Settled' /\ ShownIsDelivered'
    BY <1>1, <1>2, <1>5, FreeAssumption, Resources DEF IInv, TypeOK, Settled, ShownIsDelivered
  <1>7. HeldInTransaction'
    BY <1>1, <1>2, <1>5 DEF IInv, TypeOK, HeldInTransaction
  <1>8. HasAction' /\ NotedIsOwn' /\ SeenIsDelivered' /\ ResultIsDelivered'
    BY <1>2 DEF IInv, HasAction, NotedIsOwn, SeenIsDelivered, ResultIsDelivered, Told
  <1>9. SenderHolds'
    <2>1. \A d \in Call, b \in Action : lock'[b] = d /\ d # c => lock[b] = d
      BY <1>1, <1>5, Resources DEF IInv, TypeOK
    <2>2. ASSUME NEW d \in Call, Sending(d)' PROVE lock'[act'[d]] = d /\ dirty'[act'[d]] = "in_progress"
      <3>1. Sending(d) /\ act'[d] = act[d] /\ d # c
        BY <1>2, <2>2 DEF Sending
      <3>2. act[d] \in Action /\ lock[act[d]] = d /\ dirty[act[d]] = "in_progress"
        BY <3>1 DEF IInv, SenderHolds, HasAction, Sending, Executing
      <3>3. act[d] # a
        BY <1>5, <3>1, <3>2, FreeAssumption
      <3>4. QED
        BY <1>1, <1>5, <3>1, <3>2, <3>3, Resources DEF IInv, TypeOK
    <2>3. ASSUME NEW d \in Call, pc'[d] \in Executing
          PROVE  d # c /\ pc[d] \in Executing /\ act'[d] = act[d]
      BY <1>2, <2>3 DEF Executing
    <2>4. QED
      BY <2>1, <2>2, <2>3 DEF IInv, SenderHolds
  <1>10. WrittenIsDelivered'
    <2>1. s \in {"in_progress", "completed"} => a \in Told
      BY <1>1, <1>3 DEF IInv, SeenIsDelivered
    <2>2. ASSUME NEW b \in Action, b # a PROVE lock'[b] = lock[b] /\ dirty'[b] = dirty[b]
      BY <1>1, <1>5, <2>2, Resources DEF IInv, TypeOK
    <2>3. dirty'[a] = s /\ Told' = Told /\ pc' = pc
      BY <1>1, <1>2, <1>5 DEF IInv, TypeOK, Told
    <2>4. QED
      BY <2>1, <2>2, <2>3 DEF IInv, WrittenIsDelivered
  <1>11. WriteIsAsRead'
    BY <1>1, <1>2, <1>4, <1>5, OutreachIsAction, Resources DEF IInv, TypeOK, WriteIsAsRead
  <1>12. QED
    BY <1>6, <1>7, <1>8, <1>9, <1>10, <1>11 DEF IInv

(* What a rollback leaves, whether the call goes on or has ended.          *)
RolledBack(c) ==
    /\ \A b \in Action : dirty'[b] = IF lock[b] = c THEN queue[b] ELSE dirty[b]
    /\ \A x \in Resource : lock'[x] = IF lock[x] = c THEN Free ELSE lock[x]
    /\ queue' = queue

LEMMA RollbackStep ==
  ASSUME IInv, TypeOK', NEW c \in Call, RolledBack(c), recorded' = recorded, lost \subseteq lost',
         OthersKept(c), pc'[c] \in {"rows", "done", "tell", "completing"},
         seen'[c] \in {seen[c], Unread}, HasAction', NotedIsOwn', ResultIsDelivered'
  PROVE  IInv'
  <1>1. /\ \A b \in Action : dirty'[b] = IF lock[b] = c THEN queue[b] ELSE dirty[b]
        /\ \A x \in Resource : lock'[x] = IF lock[x] = c THEN Free ELSE lock[x]
        /\ queue' = queue
    BY DEF RolledBack
  <1>2. Settled'
    BY <1>1, Resources DEF IInv, Settled
  <1>3. HeldInTransaction'
    <2>1. ASSUME NEW x \in Resource, lock'[x] # Free PROVE pc'[lock'[x]] \in {"rows"} \cup Executing
      <3>1. lock'[x] = lock[x] /\ lock[x] \in Call \ {c} /\ pc[lock[x]] \in {"rows"} \cup Executing
        BY <1>1, <2>1 DEF IInv, TypeOK, HeldInTransaction
      <3>2. QED
        BY <3>1 DEF OthersKept
    <2>2. QED
      BY <2>1 DEF HeldInTransaction
  <1>4. SenderHolds'
    <2>1. ~Sending(c)' /\ \A x \in Action : lock'[x] # c
      BY <1>1, Resources, FreeAssumption DEF Sending
    <2>2. ASSUME NEW d \in Call \ {c}, Sending(d)'
          PROVE  lock'[act'[d]] = d /\ dirty'[act'[d]] = "in_progress"
      <3>1. Sending(d) /\ act'[d] = act[d]
        BY <2>2 DEF OthersKept, Sending
      <3>2. act[d] \in Action /\ lock[act[d]] = d /\ dirty[act[d]] = "in_progress"
        BY <3>1 DEF IInv, SenderHolds, HasAction, Sending, Executing
      <3>3. QED
        BY <1>1, <3>1, <3>2, Resources
    <2>3. ASSUME NEW d \in Call \ {c}, pc'[d] \in Executing, NEW x \in Action, lock'[x] = d
          PROVE  x = act'[d]
      <3>1. lock[x] = d /\ pc[d] \in Executing /\ act'[d] = act[d]
        BY <1>1, <2>3, Resources, FreeAssumption DEF OthersKept
      <3>2. QED
        BY <3>1 DEF IInv, SenderHolds
    <2>4. QED
      BY <2>1, <2>2, <2>3 DEF SenderHolds
  <1>5. Told \subseteq Told'
    BY DEF Told
  <1>6. ShownIsDelivered'
    BY <1>1, <1>5 DEF IInv, ShownIsDelivered, Shown, Told
  <1>7. WrittenIsDelivered'
    <2>1. ASSUME NEW a \in Action, lock[a] = c PROVE dirty'[a] = queue[a]
      BY <1>1, <2>1
    <2>2. ASSUME NEW a \in Action, lock[a] # c
          PROVE  /\ dirty'[a] = dirty[a] /\ lock'[a] = lock[a]
                 /\ lock[a] # Free => pc'[lock[a]] = pc[lock[a]]
      BY <1>1, <2>2, Resources DEF IInv, TypeOK, OthersKept
    <2>3. QED
      BY <1>5, <2>1, <2>2 DEF IInv, WrittenIsDelivered, ShownIsDelivered, Shown, Told
  <1>8. SeenIsDelivered'
    BY <1>5 DEF IInv, SeenIsDelivered, Unread, OthersKept
  <1>9. WriteIsAsRead'
    BY <1>1, Resources, FreeAssumption DEF IInv, WriteIsAsRead, OthersKept
  <1>10. QED
    BY <1>2, <1>3, <1>4, <1>6, <1>7, <1>8, <1>9 DEF IInv

LEMMA PersistStep ==
  ASSUME IInv, TypeOK', NEW c \in Call, _persist_workflow(c)
  PROVE  IInv'
  <1>1. /\ pc[c] = "rows" /\ pc' = [pc EXCEPT ![c] = then[c]] /\ then[c] \in {"list", "done"}
        /\ Commit(c, {})
        /\ desired' = [desired EXCEPT ![c] = {}] /\ seen' = [seen EXCEPT ![c] = Unread]
        /\ UNCHANGED <<act, result, lost>>
    BY DEF _persist_workflow, Forget, Goto, execution, IInv, TypeOK
  <1>2. /\ \A b \in Action : queue'[b] = IF lock[b] = c THEN dirty[b] ELSE queue[b]
        /\ \A x \in Resource : lock'[x] = IF lock[x] = c THEN Free ELSE lock[x]
        /\ dirty' = dirty
    BY <1>1 DEF Commit, Release
  <1>3. noted[c] = {} /\ recorded' = recorded /\ noted' = noted /\ Told' = Told
    <2>1. noted[c] = {}
      BY <1>1 DEF IInv, NotedIsOwn
    <2>2. recorded' = recorded \cup noted[c] \cup {} /\ noted' = [noted EXCEPT ![c] = {}]
      BY <1>1 DEF Commit, Publish
    <2>3. QED
      BY <1>1, <2>1, <2>2 DEF IInv, TypeOK, Told
  <1>4. OthersKept(c) /\ pc'[c] \in {"list", "done"} /\ seen'[c] = Unread
    BY <1>1, <1>3 DEF IInv, TypeOK, OthersKept
  <1>5. Settled'
    BY <1>2, Resources DEF IInv, Settled
  <1>6. HeldInTransaction'
    BY <1>2, <1>4 DEF IInv, TypeOK, HeldInTransaction, OthersKept
  <1>7. HasAction' /\ ResultIsDelivered' /\ NotedIsOwn'
    BY <1>1, <1>3, <1>4, OthersKeptExecution DEF Executing
  <1>8. SenderHolds'
    <2>1. ASSUME NEW d \in Call, pc'[d] \in Executing
          PROVE  d # c /\ pc[d] = pc'[d] /\ act'[d] = act[d] /\ act[d] \in Action
      BY <1>4, <2>1 DEF IInv, HasAction, OthersKept, Executing
    <2>2. QED
      BY <1>2, <2>1, Resources, FreeAssumption DEF IInv, SenderHolds, Sending, Executing
  <1>9. ShownIsDelivered'
    BY <1>1, <1>2, <1>3 DEF IInv, ShownIsDelivered, Shown, WrittenIsDelivered, Told, Executing
  <1>10. WrittenIsDelivered'
    <2>1. ASSUME NEW a \in Action, dirty[a] \in {"in_progress", "completed"}, a \notin Told
          PROVE  lock[a] \in Call \ {c} /\ pc[lock[a]] \in Executing
      BY <1>1, <2>1, Resources DEF IInv, TypeOK, WrittenIsDelivered, Executing
    <2>2. ASSUME NEW a \in Action, lock[a] \in Call \ {c}
          PROVE  lock'[a] = lock[a] /\ pc'[lock[a]] = pc[lock[a]]
      BY <1>2, <1>4, <2>2, Resources DEF OthersKept
    <2>3. QED
      BY <1>2, <1>3, <2>1, <2>2, FreeAssumption DEF WrittenIsDelivered
  <1>11. SeenIsDelivered'
    BY <1>3, <1>4 DEF IInv, SeenIsDelivered, Unread, OthersKept
  <1>12. WriteIsAsRead'
    BY <1>2, <1>4, Resources, FreeAssumption DEF IInv, WriteIsAsRead, OthersKept
  <1>13. QED
    BY <1>5, <1>6, <1>7, <1>8, <1>9, <1>10, <1>11, <1>12 DEF IInv

LEMMA RowsFailStep ==
  ASSUME IInv, TypeOK', NEW c \in Call, RowsFail(c)
  PROVE  IInv'
  <1>1. /\ pc[c] = "rows" /\ Rollback(c) /\ noted[c] = {}
        /\ UNCHANGED <<pc, act, result, desired, seen, lost>>
    BY DEF RowsFail, execution, IInv, NotedIsOwn
  <1>2. RolledBack(c) /\ recorded' = recorded /\ noted' = noted
    BY <1>1 DEF Rollback, Release, RolledBack, IInv, TypeOK
  <1>3. OthersKept(c)
    BY <1>1, <1>2 DEF OthersKept
  <1>4. HasAction' /\ NotedIsOwn' /\ ResultIsDelivered'
    BY <1>1, <1>2, <1>3, OthersKeptExecution DEF Executing
  <1>5. QED
    BY <1>1, <1>2, <1>3, <1>4, RollbackStep

LEMMA StopsStep ==
  ASSUME IInv, TypeOK', NEW c \in Call, Stops(c)
  PROVE  IInv'
  <1>1. /\ pc' = [pc EXCEPT ![c] = "done"] /\ Rollback(c)
        /\ desired' = [desired EXCEPT ![c] = {}] /\ seen' = [seen EXCEPT ![c] = Unread]
        /\ act' = [act EXCEPT ![c] = "none"] /\ result' = [result EXCEPT ![c] = "none"]
        /\ UNCHANGED lost
    BY DEF Stops, Forget, Goto
  <1>2. RolledBack(c) /\ recorded' = recorded /\ noted' = [noted EXCEPT ![c] = {}]
    BY <1>1 DEF Rollback, Release, RolledBack
  <1>3. pc'[c] = "done" /\ seen'[c] = Unread /\ noted'[c] = {} /\ OthersKept(c)
    BY <1>1, <1>2 DEF IInv, TypeOK, OthersKept
  <1>4. HasAction' /\ NotedIsOwn' /\ ResultIsDelivered'
    BY <1>1, <1>2, <1>3, OthersKeptExecution DEF Executing
  <1>5. QED
    BY <1>1, <1>2, <1>3, <1>4, RollbackStep
-----------------------------------------------------------------------------
(***************************************************************************)
(* The invariant is preserved: the writes of an execution and of a mail.   *)
(***************************************************************************)
LEMMA MarkStep ==
  ASSUME IInv, TypeOK', NEW c \in Call, MarkInProgress(c)
  PROVE  IInv'
  <1> DEFINE a == act[c]
  <1>1. /\ pc[c] = "mark" /\ pc' = [pc EXCEPT ![c] = "act"] /\ Write(c, a, "in_progress")
        /\ UNCHANGED <<act, result, desired, seen, noted, recorded, lost>>
    BY DEF MarkInProgress, Goto, Write, execution, synchronisation
  <1>2. a \in Action /\ a \in Resource
    BY <1>1, Resources DEF IInv, HasAction
  <1>3. /\ lock[a] \in {Free, c} /\ queue' = queue
        /\ lock' = [lock EXCEPT ![a] = c] /\ dirty' = [dirty EXCEPT ![a] = "in_progress"]
    BY <1>1 DEF Write, Available
  <1>4. pc'[c] = "act" /\ pc'[c] \in Executing /\ OthersKept(c) /\ Told' = Told
    BY <1>1 DEF IInv, TypeOK, OthersKept, Executing, Told
  <1>5. \A x \in Resource : lock[x] # c
    BY <1>1, FreeAssumption DEF IInv, HeldInTransaction, Executing
  <1>6. Settled' /\ ShownIsDelivered'
    BY <1>1, <1>2, <1>3, FreeAssumption, Resources DEF IInv, TypeOK, Settled, ShownIsDelivered
  <1>7. HeldInTransaction'
    <2>1. ASSUME NEW x \in Resource, lock'[x] # Free PROVE pc'[lock'[x]] \in {"rows"} \cup Executing
      <3>1. CASE lock'[x] = c
        BY <1>4, <3>1
      <3>2. CASE lock'[x] # c
        <4>1. lock'[x] = lock[x] /\ lock[x] \in Call \ {c}
          BY <1>2, <1>3, <2>1, <3>2 DEF IInv, TypeOK
        <4>2. QED
          BY <1>4, <2>1, <4>1 DEF IInv, HeldInTransaction, OthersKept
      <3>3. QED
        BY <3>1, <3>2
    <2>2. QED
      BY <2>1 DEF HeldInTransaction
  <1>8. HasAction' /\ NotedIsOwn' /\ SeenIsDelivered' /\ ResultIsDelivered'
    <2>1. noted[c] = {}
      BY <1>1 DEF IInv, NotedIsOwn
    <2>2. HasAction'
      BY <1>1, <1>2, <1>4 DEF IInv, HasAction, OthersKept
    <2>3. NotedIsOwn' /\ SeenIsDelivered' /\ ResultIsDelivered'
      BY <1>1, <1>4, <2>1 DEF IInv, NotedIsOwn, SeenIsDelivered, ResultIsDelivered, OthersKept
    <2>4. QED
      BY <2>2, <2>3
  <1>9. SenderHolds'
    <2>1. lock'[a] = c /\ dirty'[a] = "in_progress" /\ \A b \in Action : lock'[b] = c => b = a
      BY <1>2, <1>3, <1>5, Resources DEF IInv, TypeOK
    <2>2. ASSUME NEW d \in Call \ {c}, NEW b \in Action, lock[b] = d
          PROVE  lock'[b] = d /\ dirty'[b] = dirty[b]
      BY <1>2, <1>3, <2>2, FreeAssumption, Resources DEF IInv, TypeOK
    <2>3. ASSUME NEW d \in Call \ {c}, NEW b \in Action, lock'[b] = d PROVE lock[b] = d
      BY <1>2, <1>3, <2>3, Resources DEF IInv, TypeOK
    <2>4. ASSUME NEW d \in Call \ {c}
          PROVE  /\ Sending(d)' => lock'[act'[d]] = d /\ dirty'[act'[d]] = "in_progress"
                 /\ pc'[d] \in Executing => \A b \in Action : lock'[b] = d => b = act'[d]
      <3>1. act'[d] = act[d] /\ pc'[d] = pc[d]
        BY <1>4 DEF OthersKept
      <3>2. Sending(d) => act[d] \in Action
        BY DEF IInv, HasAction, Sending, Executing
      <3>3. QED
        BY <2>2, <2>3, <3>1, <3>2 DEF IInv, SenderHolds, Sending
    <2>5. QED
      BY <1>1, <2>1, <2>4 DEF SenderHolds
  <1>10. WrittenIsDelivered'
    <2>1. lock'[a] = c /\ c # Free
      BY <1>2, <1>3, FreeAssumption, Resources DEF IInv, TypeOK
    <2>2. ASSUME NEW b \in Action, b # a
          PROVE  /\ lock'[b] = lock[b] /\ dirty'[b] = dirty[b]
                 /\ lock[b] # Free => pc'[lock[b]] = pc[lock[b]]
      BY <1>2, <1>3, <1>4, <1>5, <2>2, Resources DEF IInv, TypeOK, OthersKept
    <2>3. QED
      BY <1>4, <2>1, <2>2 DEF IInv, WrittenIsDelivered
  <1>11. WriteIsAsRead'
    <2>1. ASSUME NEW d \in Call, NEW b \in Action,
                 pc'[d] = "rows" /\ lock'[b] = d
          PROVE  dirty'[b] = IF b \in desired'[d] THEN _desired_status(seen'[d][b]) ELSE "blocked"
      <3>1. d # c
        BY <1>4, <2>1
      <3>2. pc[d] = "rows" /\ lock[b] = d /\ dirty'[b] = dirty[b]
        BY <1>2, <1>3, <1>4, <2>1, <3>1, Resources DEF IInv, TypeOK, OthersKept
      <3>3. QED
        BY <1>4, <3>1, <3>2 DEF IInv, WriteIsAsRead, OthersKept
    <2>2. QED
      BY <2>1 DEF WriteIsAsRead
  <1>12. QED
    BY <1>6, <1>7, <1>8, <1>9, <1>10, <1>11 DEF IInv

LEMMA AddMessageStep ==
  ASSUME IInv, TypeOK', NEW c \in Call, AddMessage(c)
  PROVE  IInv'
  <1> DEFINE a == act[c]
  <1>1. /\ pc[c] = "sent" /\ Commit(c, {a})
        /\ pc' = [pc EXCEPT ![c] = IF a = "guest_status_response" THEN "completing" ELSE "patch"]
        /\ UNCHANGED <<act, result, desired, seen, lost>>
    BY DEF AddMessage, Goto, execution, synchronisation
  <1>2. /\ \A b \in Action : queue'[b] = IF lock[b] = c THEN dirty[b] ELSE queue[b]
        /\ \A x \in Resource : lock'[x] = IF lock[x] = c THEN Free ELSE lock[x]
        /\ dirty' = dirty
    BY <1>1 DEF Commit, Release
  <1>3. a \in Outreach /\ a \in Action /\ lock[a] = c /\ \A b \in Action : lock[b] = c => b = a
    BY <1>1, OutreachIsAction DEF IInv, HasAction, SenderHolds, Sending, Executing
  <1>4. recorded' = recorded \cup {a} /\ noted' = noted /\ noted[c] = {}
    <2>1. noted[c] = {}
      BY <1>1 DEF IInv, NotedIsOwn
    <2>2. recorded' = recorded \cup noted[c] \cup {a} /\ noted' = [noted EXCEPT ![c] = {}]
      BY <1>1 DEF Commit, Publish
    <2>3. QED
      BY <2>1, <2>2 DEF IInv, TypeOK
  <1>5. pc'[c] \in {"completing", "patch"} /\ OthersKept(c)
    BY <1>1, <1>4 DEF IInv, TypeOK, OthersKept
  <1>6. Told' = Told \cup {a}
    BY <1>1, <1>4 DEF Told
  <1>7. Settled'
    BY <1>2, Resources DEF IInv, Settled
  <1>8. HeldInTransaction'
    BY <1>2, <1>5 DEF IInv, TypeOK, HeldInTransaction, OthersKept
  <1>9. HasAction' /\ NotedIsOwn' /\ ResultIsDelivered'
    <2>1. HasAction'
      BY <1>1, <1>3, <1>5 DEF IInv, HasAction, OthersKept
    <2>2. NotedIsOwn'
      BY <1>4, <1>5 DEF IInv, NotedIsOwn, OthersKept
    <2>3. ResultIsDelivered'
      BY <1>1, <1>4, <1>5, <1>6 DEF IInv, ResultIsDelivered, OthersKept
    <2>4. QED
      BY <2>1, <2>2, <2>3
  <1>10. SenderHolds'
    <2>1. ~Sending(c)' /\ \A b \in Action : lock'[b] # c
      BY <1>2, <1>5, Resources, FreeAssumption DEF Sending
    <2>2. ASSUME NEW d \in Call \ {c}
          PROVE  /\ Sending(d)' => lock'[act'[d]] = d /\ dirty'[act'[d]] = "in_progress"
                 /\ pc'[d] \in Executing => \A b \in Action : lock'[b] = d => b = act'[d]
      <3>1. act'[d] = act[d] /\ pc'[d] = pc[d]
        BY <1>5 DEF OthersKept
      <3>2. Sending(d) => act[d] \in Action
        BY DEF IInv, HasAction, Sending, Executing
      <3>3. QED
        BY <1>2, <3>1, <3>2, Resources, FreeAssumption DEF IInv, SenderHolds, Sending
    <2>3. QED
      BY <2>1, <2>2 DEF SenderHolds
  <1>11. ShownIsDelivered'
    BY <1>2, <1>3, <1>6 DEF IInv, ShownIsDelivered, Told
  <1>12. WrittenIsDelivered'
    <2>1. ASSUME NEW b \in Action, b # a
          PROVE  lock'[b] = lock[b] /\ (lock[b] # Free => pc'[lock[b]] = pc[lock[b]])
      BY <1>2, <1>3, <1>5, <2>1, Resources DEF IInv, TypeOK, OthersKept
    <2>2. QED
      BY <1>2, <1>6, <2>1 DEF IInv, WrittenIsDelivered
  <1>13. SeenIsDelivered'
    BY <1>1, <1>6 DEF IInv, SeenIsDelivered
  <1>14. WriteIsAsRead'
    BY <1>1, <1>2, <1>5, Resources, FreeAssumption DEF IInv, WriteIsAsRead, OthersKept
  <1>15. QED
    BY <1>7, <1>8, <1>9, <1>10, <1>11, <1>12, <1>13, <1>14 DEF IInv

(* What follows the patch, if it holds or not.                             *)
LEMMA AfterPatchExecution ==
  ASSUME IInv, NEW c \in Call, pc[c] = "patch", pc'[c] = AfterPatch(c), OthersKept(c),
         act' = act, result' = result, recorded' = recorded,
         \/ noted' = noted /\ lost' = lost
         \/ noted'[c] = {} /\ lost' = lost \cup noted[c]
  PROVE  HasAction' /\ NotedIsOwn' /\ ResultIsDelivered'
  <1>1. /\ act[c] \in Action /\ result[c] # "none"
        /\ act[c] # "vendor_coordination" => act[c] \in recorded \cup noted[c]
        /\ noted[c] # {} => noted[c] = {act[c]}
    BY DEF IInv, HasAction, ResultIsDelivered, NotedIsOwn, Executing
  <1>2. act[c] = "vendor_coordination" => noted[c] = {}
    BY <1>1 DEF IInv, NotedIsOwn
  <1>3. \/ pc'[c] = "tell" /\ act[c] = "vendor_coordination"
        \/ pc'[c] = "completing" /\ act[c] # "vendor_coordination"
    BY DEF AfterPatch
  <1>4. HasAction'
    BY <1>1, <1>3 DEF IInv, HasAction, OthersKept
  <1>5. NotedIsOwn'
    BY <1>1, <1>2, <1>3 DEF IInv, NotedIsOwn, OthersKept
  <1>6. Told' \cup noted'[c] = Told \cup noted[c] /\ Told \subseteq Told'
    BY DEF Told
  <1>7. ResultIsDelivered'
    <2>1. /\ pc'[c] \in {"sent", "patch", "tell", "completing"} => result'[c] # "none"
          /\ pc'[c] = "patch" /\ act'[c] # "vendor_coordination" =>
                act'[c] \in recorded' \cup noted'[c]
          /\ pc'[c] = "completing" => act'[c] \in Told' \cup noted'[c]
      BY <1>1, <1>3, <1>6 DEF Told
    <2>2. ASSUME NEW d \in Call \ {c}
          PROVE  /\ pc'[d] = pc[d] /\ act'[d] = act[d] /\ result'[d] = result[d]
                 /\ noted'[d] = noted[d]
      BY DEF OthersKept
    <2>3. QED
      BY <1>6, <2>1, <2>2 DEF IInv, ResultIsDelivered
  <1>8. QED
    BY <1>4, <1>5, <1>7

LEMMA PatchStep ==
  ASSUME IInv, TypeOK', NEW c \in Call, Patch(c)
  PROVE  IInv'
  <1>1. /\ pc[c] = "patch" /\ pc' = [pc EXCEPT ![c] = AfterPatch(c)]
        /\ lock' = [lock EXCEPT ![Patched(c)] = c]
        /\ UNCHANGED <<queue, dirty, act, result, desired, seen, noted, recorded, lost>>
    BY DEF Patch, Goto, execution, synchronisation
  <1>2. /\ pc'[c] = AfterPatch(c) /\ pc'[c] \in {"tell", "completing"} /\ pc'[c] \in Executing
        /\ OthersKept(c) /\ Told' = Told
    BY <1>1 DEF IInv, TypeOK, AfterPatch, OthersKept, Executing, Told
  <1>3. Patched(c) \in Resource \ Action
    BY ActionAssumption, Resources DEF Patched, Rank
  <1>4. \A b \in Action : lock'[b] = lock[b]
    BY <1>1, <1>3, Resources DEF IInv, TypeOK
  <1>5. \A x \in Resource : lock'[x] \in {lock[x], c}
    BY <1>1 DEF IInv, TypeOK
  <1>6. Settled' /\ ShownIsDelivered'
    BY <1>1, <1>4 DEF IInv, Settled, ShownIsDelivered
  <1>7. HeldInTransaction'
    <2>1. ASSUME NEW x \in Resource, lock'[x] # Free PROVE pc'[lock'[x]] \in {"rows"} \cup Executing
      <3>1. CASE lock'[x] = c
        BY <1>2, <3>1
      <3>2. CASE lock'[x] # c
        <4>1. lock'[x] = lock[x] /\ lock[x] \in Call \ {c}
          BY <1>5, <2>1, <3>2 DEF IInv, TypeOK
        <4>2. QED
          BY <1>2, <2>1, <4>1 DEF IInv, HeldInTransaction, OthersKept
      <3>3. QED
        BY <3>1, <3>2
    <2>2. QED
      BY <2>1 DEF HeldInTransaction
  <1>8. HasAction' /\ NotedIsOwn' /\ ResultIsDelivered'
    BY <1>1, <1>2, AfterPatchExecution
  <1>9. SeenIsDelivered'
    BY <1>1, <1>2 DEF IInv, SeenIsDelivered
  <1>10. SenderHolds'
    <2>1. ASSUME NEW d \in Call
          PROVE  /\ act'[d] = act[d] /\ (Sending(d)' => Sending(d))
                 /\ pc'[d] \in Executing => pc[d] \in Executing
      BY <1>1, <1>2 DEF OthersKept, Sending, Executing
    <2>2. \A d \in Call : Sending(d) => act[d] \in Action
      BY DEF IInv, HasAction, Sending, Executing
    <2>3. QED
      BY <1>1, <1>4, <2>1, <2>2 DEF IInv, SenderHolds
  <1>11. WrittenIsDelivered'
    <2>1. ASSUME NEW b \in Action, lock[b] # Free, pc[lock[b]] \in Executing
          PROVE  pc'[lock[b]] \in Executing
      <3>1. lock[b] \in Call
        BY <2>1, Resources DEF IInv, TypeOK
      <3>2. QED
        BY <1>2, <2>1, <3>1 DEF OthersKept
    <2>2. QED
      BY <1>1, <1>2, <1>4, <2>1 DEF IInv, WrittenIsDelivered
  <1>12. WriteIsAsRead'
    BY <1>1, <1>2, <1>4 DEF IInv, WriteIsAsRead, OthersKept
  <1>13. QED
    BY <1>6, <1>7, <1>8, <1>9, <1>10, <1>11, <1>12 DEF IInv

LEMMA PatchFailsStep ==
  ASSUME IInv, TypeOK', NEW c \in Call, PatchFails(c)
  PROVE  IInv'
  <1>1. /\ pc[c] = "patch" /\ pc' = [pc EXCEPT ![c] = AfterPatch(c)] /\ Rollback(c)
        /\ lost' = lost \cup noted[c] /\ UNCHANGED <<act, result, desired, seen>>
    BY DEF PatchFails, Goto, execution, synchronisation
  <1>2. RolledBack(c) /\ recorded' = recorded /\ noted' = [noted EXCEPT ![c] = {}]
    BY <1>1 DEF Rollback, Release, RolledBack
  <1>3. /\ pc'[c] = AfterPatch(c) /\ pc'[c] \in {"tell", "completing"} /\ noted'[c] = {}
        /\ OthersKept(c)
    BY <1>1, <1>2 DEF IInv, TypeOK, AfterPatch, OthersKept
  <1>4. HasAction' /\ NotedIsOwn' /\ ResultIsDelivered'
    BY <1>1, <1>2, <1>3, AfterPatchExecution
  <1>5. QED
    BY <1>1, <1>2, <1>3, <1>4, RollbackStep

(* The last write of a call that holds at most the row it writes.          *)
LEMMA LastWriteStep ==
  ASSUME IInv, TypeOK', NEW c \in Call, NEW a \in Action, NEW status \in Status,
         WriteAndCommit(c, a, status),
         \A b \in Action : lock[b] = c => b = a,
         status \in {"in_progress", "completed"} => a \in Told \cup noted[c],
         pc'[c] \in {"read", "done"},
         \A d \in Call \ {c} : pc'[d] = pc[d] /\ act'[d] = act[d] /\ result'[d] = result[d],
         UNCHANGED <<desired, seen, lost>>
  PROVE  IInv'
  <1>1. /\ lock[a] \in {Free, c}
        /\ \A b \in Action : queue'[b] =
              IF b = a THEN status ELSE IF lock[b] = c THEN dirty[b] ELSE queue[b]
        /\ \A b \in Action : dirty'[b] = IF b = a THEN status ELSE dirty[b]
        /\ \A x \in Resource : lock'[x] = IF lock[x] = c THEN Free ELSE lock[x]
    BY DEF WriteAndCommit, Available, Release, IInv, TypeOK
  <1>2. lock'[a] = Free /\ \A b \in Action \ {a} : lock'[b] = lock[b] /\ queue'[b] = queue[b]
    BY <1>1, Resources
  <1>3. recorded' = recorded \cup noted[c] /\ noted' = [noted EXCEPT ![c] = {}]
    BY DEF WriteAndCommit, Publish
  <1>4. noted'[c] = {} /\ OthersKept(c) /\ Told' = Told \cup noted[c]
    BY <1>3 DEF IInv, TypeOK, OthersKept, Told
  <1>5. Settled'
    BY <1>1, <1>2 DEF IInv, Settled
  <1>6. HeldInTransaction'
    BY <1>1 DEF IInv, TypeOK, HeldInTransaction
  <1>7. HasAction' /\ NotedIsOwn' /\ ResultIsDelivered'
    BY <1>3, <1>4, OthersKeptExecution DEF Executing
  <1>8. SenderHolds'
    <2>1. ASSUME NEW d \in Call, pc'[d] \in Executing
          PROVE  d # c /\ pc[d] = pc'[d] /\ act'[d] = act[d] /\ act[d] \in Action
      BY <2>1 DEF IInv, HasAction, Executing
    <2>2. QED
      BY <1>1, <1>2, <2>1, FreeAssumption DEF IInv, SenderHolds, Sending, Executing
  <1>9. ShownIsDelivered'
    BY <1>1, <1>2, <1>4 DEF IInv, ShownIsDelivered, Shown, Told
  <1>10. WrittenIsDelivered'
    <2>1. ASSUME NEW b \in Action, b # a
          PROVE  /\ lock'[b] = lock[b] /\ dirty'[b] = dirty[b]
                 /\ lock[b] # Free => pc'[lock[b]] = pc[lock[b]]
      <3>1. lock'[b] = lock[b] /\ dirty'[b] = dirty[b] /\ lock[b] # c
        BY <1>1, <1>2, <2>1
      <3>2. lock[b] # Free => lock[b] \in Call \ {c}
        BY <3>1, Resources DEF IInv, TypeOK
      <3>3. QED
        BY <3>1, <3>2
    <2>2. QED
      BY <1>1, <1>4, <2>1 DEF IInv, WrittenIsDelivered
  <1>11. SeenIsDelivered'
    BY <1>4 DEF IInv, SeenIsDelivered
  <1>12. WriteIsAsRead'
    BY <1>1, <1>2, FreeAssumption DEF IInv, WriteIsAsRead
  <1>13. QED
    BY <1>5, <1>6, <1>7, <1>8, <1>9, <1>10, <1>11, <1>12 DEF IInv

LEMMA CompleteStep ==
  ASSUME IInv, TypeOK', NEW c \in Call, Complete(c)
  PROVE  IInv'
  <1>1. /\ pc[c] = "completing" /\ pc' = [pc EXCEPT ![c] = "read"]
        /\ WriteAndCommit(c, act[c], result[c])
        /\ act' = [act EXCEPT ![c] = "none"] /\ result' = [result EXCEPT ![c] = "none"]
        /\ UNCHANGED <<desired, seen, lost>>
    BY DEF Complete, Sync, Goto
  <1>2. /\ act[c] \in Action /\ result[c] \in Status
        /\ result[c] \in {"in_progress", "completed"} => act[c] \in Told \cup noted[c]
    BY <1>1 DEF IInv, TypeOK, HasAction, ResultIsDelivered, Status, Executing
  <1>3. \A b \in Action : lock[b] = c => b = act[c]
    BY <1>1 DEF IInv, SenderHolds, Executing
  <1>4. /\ pc'[c] = "read"
        /\ \A d \in Call \ {c} : pc'[d] = pc[d] /\ act'[d] = act[d] /\ result'[d] = result[d]
    BY <1>1 DEF IInv, TypeOK
  <1>5. QED
    BY <1>1, <1>2, <1>3, <1>4, LastWriteStep

LEMMA MailStep ==
  ASSUME IInv, TypeOK', NEW c \in Call, _queue_guest_session_review_action(c)
  PROVE  IInv'
  <1>1. /\ pc[c] = "mail" /\ pc' = [pc EXCEPT ![c] = "done"]
        /\ WriteAndCommit(c, "ops_review", "ready")
        /\ UNCHANGED <<act, result, desired, seen, lost>>
    BY DEF _queue_guest_session_review_action, Goto, execution, synchronisation
  <1>2. "ops_review" \in Action /\ "ready" \in Status
    BY ActionAssumption DEF Status
  <1>3. \A b \in Action : lock[b] # c
    BY <1>1, Resources, FreeAssumption DEF IInv, HeldInTransaction, Executing
  <1>4. pc'[c] = "done" /\ \A d \in Call \ {c} : pc'[d] = pc[d]
    BY <1>1 DEF IInv, TypeOK
  <1>5. QED
    BY <1>1, <1>2, <1>3, <1>4, LastWriteStep
-----------------------------------------------------------------------------
(***************************************************************************)
(* The theorems.                                                           *)
(***************************************************************************)
LEMMA InvInit == Init => IInv
  <1>1. SUFFICES ASSUME Init PROVE IInv
    OBVIOUS
  <1>2. TypeOK
    BY <1>1, TypeInit
  <1>3. Settled /\ HeldInTransaction /\ HasAction /\ SenderHolds /\ NotedIsOwn
    BY <1>1, FreeAssumption, Resources
    DEF Init, Settled, HeldInTransaction, HasAction, SenderHolds, Sending, NotedIsOwn, Executing
  <1>4. /\ ShownIsDelivered /\ WrittenIsDelivered /\ SeenIsDelivered /\ ResultIsDelivered
        /\ WriteIsAsRead
    BY <1>1
    DEF Init, Unread, Shown, ShownIsDelivered, WrittenIsDelivered, SeenIsDelivered, ResultIsDelivered,
        WriteIsAsRead
  <1>5. QED
    BY <1>2, <1>3, <1>4 DEF IInv

LEMMA InvUnchanged == IInv /\ UNCHANGED vars => IInv'
  BY DEF vars, rows, execution, synchronisation, IInv, TypeOK, Settled, HeldInTransaction, HasAction,
         SenderHolds, Sending, NotedIsOwn, ShownIsDelivered, WrittenIsDelivered, SeenIsDelivered,
         ResultIsDelivered, WriteIsAsRead, Told

LEMMA InvStep == IInv /\ [Next]_vars => IInv'
  <1>1. SUFFICES ASSUME IInv, [Next]_vars PROVE IInv'
    OBVIOUS
  <1>2. TypeOK'
    BY <1>1, TypeStep DEF IInv
  <1>3. CASE UNCHANGED vars
    BY <1>1, <1>3, InvUnchanged
  <1>4. ASSUME NEW c \in Call, Begins(c) \/ Step(c) \/ Fails(c) PROVE IInv'
    <2>1. CASE Begins(c) \/ ListDue(c)
      BY <1>1, <1>2, <2>1, BeginningSteps
    <2>2. CASE Synchronises(c)
      BY <1>1, <1>2, <2>2, ReadingSteps, RowSteps, PersistStep DEF Synchronises
    <2>3. CASE Executes(c)
      BY <1>1, <1>2, <2>3, BeginningSteps, MarkStep, OutcomeSteps, AddMessageStep, PatchStep,
         CompleteStep
      DEF Executes
    <2>4. CASE _queue_guest_session_review_action(c)
      BY <1>1, <1>2, <2>4, MailStep
    <2>5. CASE Fails(c)
      BY <1>1, <1>2, <2>5, RowsFailStep, PatchFailsStep, StopsStep DEF Fails
    <2>6. QED
      BY <1>4, <2>1, <2>2, <2>3, <2>4, <2>5 DEF Step
  <1>5. QED
    BY <1>1, <1>3, <1>4 DEF Next, Finished

(* The inductive invariant holds in every reachable state.                 *)
THEOREM Invariance == Spec => []IInv
  BY InvInit, InvStep, PTL DEF Spec

(* Every reachable state is well typed, whatever the calls are.            *)
THEOREM TypeCorrect == Spec => []TypeOK
  <1>1. IInv => TypeOK
    BY DEF IInv
  <1>2. QED
    BY <1>1, Invariance, PTL

(* However many operators press the button and however often the proactive *)
(* runtime ticks, an action's message is being sent by one call at most.   *)
THEOREM OneSenderHolds == Spec => []OneSender
  <1>1. IInv => OneSender
    <2>1. SUFFICES ASSUME IInv, NEW c \in Call, NEW d \in Call,
                          Sending(c), Sending(d), act[c] = act[d]
                   PROVE  c = d
      BY DEF OneSender
    <2>2. lock[act[c]] = c /\ lock[act[d]] = d
      BY <2>1 DEF IInv, SenderHolds
    <2>3. QED
      BY <2>1, <2>2
  <1>2. QED
    BY <1>1, Invariance, PTL

(* What the queue shows as begun or completed, the guest or the operators  *)
(* were told of, or a failed write of the read model took the notice back. *)
THEOREM ShownIsDeliveredHolds == Spec => []ShownIsDelivered
  <1>1. IInv => ShownIsDelivered
    BY DEF IInv
  <1>2. QED
    BY <1>1, Invariance, PTL

(* A synchronisation has not read as completed what it is to withdraw.     *)
TodoIsAsRead ==
    \A c \in Call : \A i \in DOMAIN todo[c] :
        todo[c][i] \in desired[c] \/ seen[c][todo[c][i]] # "completed"

(* Nor what it has withdrawn.                                              *)
WithdrawnIsAsRead ==
    \A c \in Call, a \in Action : pc[c] = "rows" /\ lock[a] = c =>
        a \in desired[c] \/ seen[c][a] # "completed"

(* The rows to write, as they are read, dropped one by one, or dropped.    *)
LEMMA TodoStep ==
  ASSUME IInv, TodoIsAsRead, NEW c \in Call, Begins(c) \/ Step(c) \/ Fails(c)
  PROVE  TodoIsAsRead'
  <1> USE DEF IInv, TypeOK, TodoIsAsRead
  <1>1. ASSUME UNCHANGED <<desired, seen, todo>> PROVE TodoIsAsRead'
    BY <1>1
  <1>2. ASSUME UNCHANGED <<desired, seen>>, todo[c] # <<>>, todo' = [todo EXCEPT ![c] = Tail(@)]
        PROVE  TodoIsAsRead'
    <2>1. /\ todo[c] \in Seq(Action) /\ todo'[c] = Tail(todo[c])
          /\ \A d \in Call \ {c} : todo'[d] = todo[d]
      BY <1>2
    <2>2. \A i \in DOMAIN Tail(todo[c]) :
             i + 1 \in DOMAIN todo[c] /\ Tail(todo[c])[i] = todo[c][i + 1]
      <3>1. SUFFICES ASSUME NEW i \in DOMAIN Tail(todo[c])
                     PROVE  i + 1 \in DOMAIN todo[c] /\ Tail(todo[c])[i] = todo[c][i + 1]
        OBVIOUS
      <3>2. todo[c] \in Seq(Action) /\ Len(todo[c]) > 0
        BY <1>2, <2>1
      <3>3. i \in 1 .. Len(todo[c]) - 1
        BY <3>2
      <3>4. QED
        BY <3>2, <3>3
    <2>3. QED
      <3>1. ASSUME NEW d \in Call, NEW i \in DOMAIN todo'[d]
            PROVE  todo'[d][i] \in desired'[d] \/ seen'[d][todo'[d][i]] # "completed"
        <4>1. CASE d = c
          <5>1. i + 1 \in DOMAIN todo[c] /\ todo'[d][i] = todo[c][i + 1]
            BY <2>1, <2>2, <3>1, <4>1
          <5>2. QED
            BY <1>2, <4>1, <5>1
        <4>2. CASE d # c
          BY <1>2, <2>1, <3>1, <4>2
        <4>3. QED
          BY <4>1, <4>2
      <3>2. QED
        BY <3>1
  <1>3. ASSUME todo' = [todo EXCEPT ![c] = <<>>],
               \A d \in Call \ {c} : desired'[d] = desired[d] /\ seen'[d] = seen[d]
        PROVE  TodoIsAsRead'
    <2>1. todo'[c] = <<>> /\ \A d \in Call \ {c} : todo'[d] = todo[d]
      BY <1>3
    <2>2. DOMAIN todo'[c] = {}
      BY <2>1
    <2>3. QED
      BY <1>3, <2>1, <2>2
  <1>4. CASE ReadExisting(c)
    <2>1. PICK due \in Due :
            /\ desired' = [desired EXCEPT ![c] = due]
            /\ seen' = [seen EXCEPT ![c] = queue]
            /\ \E s \in Orders(due, {a \in Action \ due : queue[a] \notin {"none", "completed"}}) :
                  todo' = [todo EXCEPT ![c] = s]
      BY <1>4 DEF ReadExisting
    <2>2. PICK s \in Orders(due, {a \in Action \ due : queue[a] \notin {"none", "completed"}}) :
             todo' = [todo EXCEPT ![c] = s]
      BY <2>1
    <2>3. \A i \in DOMAIN s : s[i] \in due \/ queue[s[i]] # "completed"
      BY DEF Orders
    <2>4. desired'[c] = due /\ seen'[c] = queue /\ todo'[c] = s
      BY <2>1, <2>2
    <2>5. \A d \in Call \ {c} : desired'[d] = desired[d] /\ seen'[d] = seen[d] /\ todo'[d] = todo[d]
      BY <2>1, <2>2
    <2>6. QED
      <3>1. ASSUME NEW d \in Call, NEW i \in DOMAIN todo'[d]
            PROVE  todo'[d][i] \in desired'[d] \/ seen'[d][todo'[d][i]] # "completed"
        <4>1. CASE d = c
          BY <2>3, <2>4, <3>1, <4>1
        <4>2. CASE d # c
          BY <2>5, <3>1, <4>2
        <4>3. QED
          BY <4>1, <4>2
      <3>2. QED
        BY <3>1
  <1>5. CASE Archived(c) \/ Begins(c) \/ ListDue(c) \/ _queue_guest_session_review_action(c)
    BY <1>1, <1>5 DEF Archived, Begins, View, Execute, Touch, Mail, ListDue, Sync,
       _queue_guest_session_review_action, synchronisation
  <1>6. CASE Upsert(c) \/ Suppress(c)
    BY <1>2, <1>6 DEF Upsert, Suppress
  <1>7. CASE RowsFail(c)
    BY <1>3, <1>7 DEF RowsFail
  <1>8. CASE _persist_workflow(c)
    <2>1. todo' = [todo EXCEPT ![c] = <<>>]
      BY <1>8 DEF _persist_workflow
    <2>2. QED
      BY <1>3, <1>8, <2>1 DEF _persist_workflow, Forget
  <1>9. CASE Stops(c)
    BY <1>3, <1>9 DEF Stops, Forget
  <1>10. CASE Executes(c) \/ PatchFails(c)
    BY <1>1, <1>10 DEF Executes, LoadContext, MarkInProgress, Incomplete, SendFails, Send, Notify,
       Coordinate, AddMessage, Patch, TellVendor, Complete, PatchFails, Outcome, synchronisation
  <1>11. QED
    BY <1>4, <1>5, <1>6, <1>7, <1>8, <1>9, <1>10 DEF Step, Synchronises, Fails

LEMMA WithdrawnStep ==
  ASSUME IInv, IInv', TodoIsAsRead, WithdrawnIsAsRead, NEW c \in Call,
         Begins(c) \/ Step(c) \/ Fails(c)
  PROVE  WithdrawnIsAsRead'
  <1> USE DEF WithdrawnIsAsRead
  (* Only a call that is writing its rows is concerned, and it was before. *)
  <1>1. ASSUME NEW d \in Call, NEW a \in Action, pc'[d] = "rows", lock'[a] = d,
               pc[d] = "rows", lock[a] = d, desired'[d] = desired[d], seen'[d] = seen[d]
        PROVE  a \in desired'[d] \/ seen'[d][a] # "completed"
    BY <1>1
  <1>2. CASE ReadExisting(c) \/ Archived(c)
    <2>1. \A a \in Action : lock'[a] # c
      BY <1>2, Resources, FreeAssumption
      DEF ReadExisting, Archived, rows, IInv, HeldInTransaction, Executing
    <2>2. \A d \in Call \ {c} : pc'[d] = pc[d] /\ desired'[d] = desired[d] /\ seen'[d] = seen[d]
      BY <1>2 DEF ReadExisting, Archived, Goto, synchronisation, IInv, TypeOK
    <2>3. lock' = lock
      BY <1>2 DEF ReadExisting, Archived, rows
    <2>4. QED
      BY <2>1, <2>2, <2>3
  <1>3. CASE Upsert(c) \/ Suppress(c)
    <2> DEFINE a == Head(todo[c])
    <2>1. /\ a \in Action /\ a \in Resource /\ a = todo[c][1] /\ 1 \in DOMAIN todo[c]
      BY <1>3, Resources DEF Upsert, Suppress, IInv, TypeOK
    <2>2. a \in desired[c] \/ seen[c][a] # "completed"
      BY <2>1 DEF TodoIsAsRead
    <2>3. lock' = [lock EXCEPT ![a] = c] /\ UNCHANGED <<pc, desired, seen>>
      BY <1>3 DEF Upsert, Suppress, Write
    <2> HIDE DEF a
    <2>4. QED
      BY <2>1, <2>2, <2>3, Resources DEF IInv, TypeOK
  <1>4. CASE RowsFail(c) \/ PatchFails(c) \/ Stops(c)
    <2>1. \A d \in Call, b \in Action : lock'[b] = d => lock[b] = d /\ d # c
      BY <1>4, Resources, FreeAssumption DEF RowsFail, PatchFails, Stops, Rollback, Release
    <2>2. \A d \in Call \ {c} : pc'[d] = pc[d] /\ desired'[d] = desired[d] /\ seen'[d] = seen[d]
      BY <1>4 DEF RowsFail, PatchFails, Stops, Goto, Forget, execution, synchronisation, IInv, TypeOK
    <2>3. QED
      BY <2>1, <2>2
  <1>5. CASE _persist_workflow(c) \/ AddMessage(c)
    <2>1. \A d \in Call, b \in Action : lock'[b] = d => lock[b] = d /\ d # c
      BY <1>5, Resources, FreeAssumption DEF _persist_workflow, AddMessage, Commit, Release
    <2>2. \A d \in Call \ {c} : pc'[d] = pc[d] /\ desired'[d] = desired[d] /\ seen'[d] = seen[d]
      BY <1>5 DEF _persist_workflow, AddMessage, Goto, Forget, synchronisation, IInv, TypeOK
    <2>3. QED
      BY <2>1, <2>2
  <1>6. CASE Complete(c) \/ _queue_guest_session_review_action(c)
    <2>1. \A d \in Call, b \in Action : lock'[b] = d => lock[b] = d /\ d # c
      BY <1>6, Resources, FreeAssumption
      DEF Complete, _queue_guest_session_review_action, WriteAndCommit, Release
    <2>2. \A d \in Call \ {c} : pc'[d] = pc[d] /\ desired'[d] = desired[d] /\ seen'[d] = seen[d]
      BY <1>6 DEF Complete, _queue_guest_session_review_action, Goto, Sync, synchronisation, IInv, TypeOK
    <2>3. QED
      BY <2>1, <2>2
  (* The other steps take no row for a call that writes its rows. *)
  <1>7. CASE MarkInProgress(c)
    <2>1. /\ pc'[c] = "act" /\ act[c] \in Resource /\ lock' = [lock EXCEPT ![act[c]] = c]
          /\ \A d \in Call \ {c} : pc'[d] = pc[d]
          /\ UNCHANGED <<desired, seen>>
      BY <1>7, Resources DEF MarkInProgress, Write, Goto, synchronisation, IInv, TypeOK, HasAction
    <2>2. \A d \in Call \ {c}, b \in Action : lock'[b] = d => lock[b] = d
      BY <2>1, Resources DEF IInv, TypeOK
    <2>3. QED
      BY <2>1, <2>2
  <1>8. CASE Patch(c)
    <2>1. /\ pc'[c] # "rows" /\ \A b \in Action : lock'[b] = lock[b]
          /\ \A d \in Call \ {c} : pc'[d] = pc[d]
          /\ UNCHANGED <<desired, seen>>
      <3>1. /\ pc' = [pc EXCEPT ![c] = AfterPatch(c)] /\ AfterPatch(c) # "rows"
            /\ lock' = [lock EXCEPT ![Patched(c)] = c] /\ UNCHANGED <<desired, seen>>
        BY <1>8 DEF Patch, AfterPatch, Goto, synchronisation
      <3>2. Patched(c) \notin Action
        BY ActionAssumption DEF Patched, Rank
      <3>3. lock \in [Resource -> Call \cup {Free}] /\ Action \subseteq Resource
        BY Resources DEF IInv, TypeOK
      <3>4. QED
        BY <3>1, <3>2, <3>3 DEF IInv, TypeOK
    <2>2. ASSUME NEW d \in Call, NEW b \in Action, pc'[d] = "rows", lock'[b] = d
          PROVE  b \in desired'[d] \/ seen'[d][b] # "completed"
      <3>1. d # c /\ pc[d] = "rows" /\ lock[b] = d
        BY <2>1, <2>2
      <3>2. b \in desired[d] \/ seen[d][b] # "completed"
        BY <3>1
      <3>3. QED
        BY <2>1, <3>2
    <2>3. QED
      BY <2>2
  <1>9. CASE Begins(c) \/ ListDue(c) \/ LoadContext(c)
    <2>1. /\ pc'[c] # "rows" /\ lock' = lock /\ UNCHANGED <<desired, seen>>
          /\ \A d \in Call \ {c} : pc'[d] = pc[d]
      BY <1>9 DEF Begins, View, Execute, Touch, Mail, ListDue, LoadContext, Sync, Goto, rows,
         synchronisation, IInv, TypeOK
    <2>2. QED
      BY <2>1
  <1>10. CASE Incomplete(c) \/ SendFails(c) \/ Send(c) \/ Notify(c) \/ Coordinate(c) \/ TellVendor(c)
    <2>1. /\ pc'[c] # "rows" /\ lock' = lock /\ UNCHANGED <<desired, seen>>
          /\ \A d \in Call \ {c} : pc'[d] = pc[d]
      BY <1>10 DEF Incomplete, SendFails, Send, Notify, Coordinate, TellVendor, Outcome, Tell, Goto,
         rows, synchronisation, IInv, TypeOK
    <2>2. QED
      BY <2>1
  <1>11. QED
    BY <1>2, <1>3, <1>4, <1>5, <1>6, <1>7, <1>8, <1>9, <1>10 DEF Step, Synchronises, Executes, Fails

THEOREM ReadInvariance == Spec => [](TodoIsAsRead /\ WithdrawnIsAsRead)
  <1> DEFINE Read == TodoIsAsRead /\ WithdrawnIsAsRead
  <1>1. Init => Read
    <2>1. SUFFICES ASSUME Init PROVE Read
      OBVIOUS
    <2>2. \A c \in Call : DOMAIN todo[c] = {} /\ pc[c] = "new"
      BY <2>1 DEF Init
    <2>3. QED
      BY <2>2 DEF TodoIsAsRead, WithdrawnIsAsRead
  <1>2. IInv /\ Read /\ [Next]_vars => Read'
    <2>1. SUFFICES ASSUME IInv, Read, [Next]_vars PROVE Read'
      OBVIOUS
    <2>2. IInv'
      BY <2>1, InvStep
    <2>3. CASE UNCHANGED vars
      BY <2>1, <2>3 DEF vars, rows, synchronisation, TodoIsAsRead, WithdrawnIsAsRead
    <2>4. ASSUME NEW c \in Call, Begins(c) \/ Step(c) \/ Fails(c) PROVE Read'
      BY <2>1, <2>2, <2>4, TodoStep, WithdrawnStep
    <2>5. QED
      BY <2>1, <2>3, <2>4 DEF Next, Finished
  <1> HIDE DEF Read
  <1>3. Spec => []Read
    BY <1>1, <1>2, Invariance, PTL DEF Spec
  <1>4. QED
    BY <1>3, PTL DEF Read

(* What the queue shows as begun or completed is taken back only by a      *)
(* synchronisation that read it before its execution committed anything,   *)
(* or read it in progress and due no more, by a second execution, and, a   *)
(* review, by another mail; by a synchronisation that read it completed,   *)
(* never.                                                                  *)
THEOREM TakenBackHolds == Spec => TakenBackInFourWays
  <1>1. ASSUME IInv, WithdrawnIsAsRead, [Next]_vars PROVE [\A a \in Action : TakenBack(a)]_vars
    <2>1. SUFFICES ASSUME NEW a \in Action, queue[a] \in Shown, queue'[a] \notin Shown
                   PROVE  \E c \in Call : \/ Overtaken(c, a) \/ Withdrawn(c, a)
                                         \/ Repeated(c, a) \/ Reopened(c, a)
      BY DEF TakenBack
    <2>2. queue'[a] # queue[a]
      BY <2>1
    <2>3. PICK c \in Call : Begins(c) \/ Step(c) \/ Fails(c)
      BY <1>1, <2>2 DEF Next, Finished, vars, rows
    <2>4. \/ _persist_workflow(c) \/ AddMessage(c) \/ Complete(c)
          \/ _queue_guest_session_review_action(c)
      <3>1. Begins(c) => queue' = queue
        BY DEF Begins, View, Execute, Touch, Mail, rows
      <3>2. ReadExisting(c) \/ Archived(c) \/ Upsert(c) \/ Suppress(c) => queue' = queue
        BY DEF ReadExisting, Archived, Upsert, Suppress, Write, rows
      <3>3. LoadContext(c) \/ MarkInProgress(c) \/ ListDue(c) => queue' = queue
        BY DEF LoadContext, MarkInProgress, ListDue, Write, rows
      <3>4. Incomplete(c) \/ SendFails(c) \/ Send(c) => queue' = queue
        BY DEF Incomplete, SendFails, Send, rows
      <3>5. Notify(c) \/ Coordinate(c) \/ TellVendor(c) \/ Patch(c) => queue' = queue
        BY DEF Notify, Coordinate, TellVendor, Tell, Patch, rows
      <3>6. Fails(c) => queue' = queue
        BY DEF Fails, RowsFail, PatchFails, Stops, Rollback
      <3>7. QED
        BY <2>2, <2>3, <3>1, <3>2, <3>3, <3>4, <3>5, <3>6 DEF Step, Synchronises, Executes
    <2>5. CASE _persist_workflow(c)
      <3>1. pc[c] = "rows" /\ Commit(c, {})
        BY <2>5 DEF _persist_workflow
      <3>2. lock[a] = c /\ dirty[a] \notin Shown /\ queue'[a] = dirty[a]
        BY <2>1, <2>2, <3>1 DEF Commit
      <3>3. dirty[a] = IF a \in desired[c] THEN _desired_status(seen[c][a]) ELSE "blocked"
        BY <1>1, <3>1, <3>2 DEF IInv, WriteIsAsRead
      <3>4. CASE a \in desired[c]
        <4>1. seen[c][a] \notin Shown /\ queue'[a] = "ready"
          BY <3>2, <3>3, <3>4 DEF _desired_status, Shown
        <4>2. QED
          BY <3>1, <3>2, <3>4, <4>1 DEF Overtaken
      <3>5. CASE a \notin desired[c]
        <4>1. seen[c][a] # "completed" /\ queue'[a] = "blocked"
          BY <1>1, <3>1, <3>2, <3>3, <3>5 DEF WithdrawnIsAsRead
        <4>2. QED
          BY <3>1, <3>2, <3>5, <4>1 DEF Overtaken, Withdrawn, Shown
      <3>6. QED
        BY <3>4, <3>5
    <2>6. CASE AddMessage(c)
      <3>1. pc[c] = "sent" /\ Commit(c, {act[c]})
        BY <2>6 DEF AddMessage
      <3>2. lock[a] = c /\ dirty[a] \notin Shown
        BY <2>1, <2>2, <3>1 DEF Commit
      <3>3. a = act[c] /\ dirty[a] = "in_progress"
        BY <1>1, <3>1, <3>2 DEF IInv, SenderHolds, Sending, Executing
      <3>4. QED
        BY <3>2, <3>3 DEF Shown
    <2>7. CASE Complete(c)
      <3>1. pc[c] = "completing" /\ WriteAndCommit(c, act[c], result[c])
        BY <2>7 DEF Complete
      <3>2. lock[a] = c => a = act[c]
        BY <1>1, <3>1 DEF IInv, SenderHolds, Executing
      <3>3. a = act[c] /\ queue'[a] = result[c]
        BY <2>2, <3>1, <3>2 DEF WriteAndCommit
      <3>4. result[c] \in {"in_progress", "completed", "failed", "blocked"}
        BY <1>1, <3>1 DEF IInv, TypeOK, ResultIsDelivered
      <3>5. QED
        BY <2>1, <3>1, <3>3, <3>4 DEF Repeated, Shown
    <2>8. CASE _queue_guest_session_review_action(c)
      <3>1. pc[c] = "mail" /\ WriteAndCommit(c, "ops_review", "ready")
        BY <2>8 DEF _queue_guest_session_review_action
      <3>2. lock[a] # c
        BY <1>1, <3>1, Resources, FreeAssumption DEF IInv, HeldInTransaction, Executing
      <3>3. QED
        BY <2>2, <3>1, <3>2 DEF WriteAndCommit, Reopened
    <2>9. QED
      BY <2>4, <2>5, <2>6, <2>7, <2>8
  <1>2. QED
    BY <1>1, Invariance, ReadInvariance, PTL DEF Spec, TakenBackInFourWays
-----------------------------------------------------------------------------
(***************************************************************************)
(* Waiting.                                                                *)
(***************************************************************************)
LEMMA WantedIsResource ==
  ASSUME IInv, NEW c \in Call
  PROVE  Wanted(c) \subseteq Resource
  <1>1. CASE pc[c] = "rows"
    <2>1. todo[c] # <<>> => Head(todo[c]) \in Action
      BY DEF IInv, TypeOK
    <2>2. QED
      BY <1>1, <2>1, Resources DEF Wanted
  <1>2. CASE pc[c] = "patch"
    BY <1>2, Resources DEF Wanted, Patched
  <1>3. CASE pc[c] = "sent"
    BY <1>3, Resources DEF Wanted
  <1>4. CASE pc[c] \in {"mark", "completing"}
    <2>1. act[c] \in Action
      BY <1>4 DEF IInv, HasAction, Executing
    <2>2. QED
      BY <1>4, <2>1, Resources DEF Wanted
  <1>5. CASE pc[c] = "mail"
    BY <1>5, Resources, ActionAssumption DEF Wanted
  <1>6. CASE pc[c] \notin {"rows", "patch", "sent", "mark", "completing", "mail"}
    BY <1>6 DEF Wanted
  <1>7. QED
    BY <1>1, <1>2, <1>3, <1>4, <1>5, <1>6

(* Who is waited for is under way: a call that ends leaves no lock.        *)
LEMMA HolderUnderway ==
  ASSUME IInv, NEW c \in Call, NEW d \in Call, WaitsFor(c, d)
  PROVE  d \in Underway
  <1>1. PICK x \in Resource : lock[x] = d
    BY WantedIsResource DEF WaitsFor
  <1>2. pc[d] \in {"rows"} \cup Executing
    BY <1>1, FreeAssumption DEF IInv, HeldInTransaction
  <1>3. QED
    BY <1>2 DEF Underway, Executing

(* If every call under way waits, some of them wait in a circle: there are *)
(* finitely many, and the chain of waits does not leave them.              *)
LEMMA CircleExists ==
  ASSUME IInv, IsFiniteSet(Underway), Underway # {}, \A c \in Underway : Waits(c)
  PROVE  \E c \in Underway : Deadlocked(c)
  <1> DEFINE R == {ss \in Call \X Call : WaitsFor(ss[1], ss[2])}
  <1>1. \A c, d \in Call : <<c, d>> \in R <=> WaitsFor(c, d)
    OBVIOUS
  <1>2. Underway \subseteq Call
    BY DEF Underway
  <1>3. \A c \in Underway : \E d \in Underway : <<c, d>> \in R
    <2>1. TAKE c \in Underway
    <2>2. PICK d \in Call : WaitsFor(c, d)
      BY DEF Waits
    <2>3. d \in Underway
      BY <1>2, <2>2, HolderUnderway
    <2>4. QED
      BY <1>1, <1>2, <2>2, <2>3
  <1> HIDE DEF R
  <1>4. PICK C \in SUBSET Underway :
          /\ C # {}
          /\ \A d \in C : (\E e \in C : <<d, e>> \in R) /\ (\E e \in C : <<e, d>> \in R)
    BY <1>3, CircleOfWaits
  <1>5. \A d \in C : (\E e \in C : WaitsFor(d, e)) /\ (\E e \in C : WaitsFor(e, d))
    BY <1>1, <1>2, <1>4
  <1>6. \A d \in C : Deadlocked(d)
    BY <1>2, <1>4, <1>5 DEF Deadlocked
  <1>7. QED
    BY <1>4, <1>6

(* One step begins one call at most. *)
LEMMA StepsOfOne ==
  ASSUME TypeOK, NEW c \in Call, Begins(c) \/ Step(c) \/ Fails(c)
  PROVE  \A d \in Call \ {c} : UNCHANGED <<pc[d], then[d], todo[d]>>
  <1> USE DEF TypeOK, Goto, execution, synchronisation
  <1>1. CASE Begins(c)
    BY <1>1 DEF Begins, View, Execute, Touch, Mail, Sync
  <1>2. CASE ReadExisting(c)
    <2>1. PICK s : todo' = [todo EXCEPT ![c] = s]
      BY <1>2 DEF ReadExisting
    <2>2. QED
      BY <1>2, <2>1 DEF ReadExisting
  <1>3. CASE Archived(c) \/ Upsert(c) \/ Suppress(c) \/ _persist_workflow(c)
    BY <1>3 DEF Archived, Upsert, Suppress, _persist_workflow
  <1>4. CASE LoadContext(c) \/ MarkInProgress(c) \/ ListDue(c) \/ _queue_guest_session_review_action(c)
    BY <1>4 DEF LoadContext, MarkInProgress, ListDue, _queue_guest_session_review_action
  <1>5. CASE Incomplete(c) \/ SendFails(c) \/ Send(c) \/ Notify(c) \/ Coordinate(c)
    BY <1>5 DEF Incomplete, SendFails, Send, Notify, Coordinate, Outcome
  <1>6. CASE AddMessage(c) \/ Patch(c) \/ TellVendor(c) \/ Complete(c)
    BY <1>6 DEF AddMessage, Patch, TellVendor, Complete, Sync
  <1>7. CASE Fails(c)
    BY <1>7 DEF Fails, RowsFail, PatchFails, Stops
  <1>8. QED
    BY <1>1, <1>2, <1>3, <1>4, <1>5, <1>6, <1>7 DEF Step, Synchronises, Executes

LEMMA UnderwayFinite == Spec => []IsFiniteSet(Underway)
  <1>1. Init => IsFiniteSet(Underway)
    <2>1. Init => Underway = {}
      BY DEF Init, Underway
    <2>2. QED
      BY <2>1, FS_EmptySet
  <1>2. TypeOK /\ IsFiniteSet(Underway) /\ [Next]_vars => IsFiniteSet(Underway)'
    <2> SUFFICES ASSUME TypeOK, IsFiniteSet(Underway), [Next]_vars PROVE IsFiniteSet(Underway')
      OBVIOUS
    <2>1. ASSUME NEW c \in Call, Begins(c) \/ Step(c) \/ Fails(c) PROVE IsFiniteSet(Underway')
      <3>1. \A d \in Call \ {c} : pc'[d] = pc[d]
        BY <2>1, StepsOfOne
      <3>2. Underway' \subseteq Underway \cup {c}
        BY <3>1 DEF Underway
      <3>3. IsFiniteSet(Underway \cup {c})
        BY FS_AddElement
      <3>4. QED
        BY <3>2, <3>3, FS_Subset
    <2>2. CASE UNCHANGED vars
      <3>1. Underway' = Underway
        BY <2>2 DEF vars, Underway
      <3>2. QED
        BY <3>1
    <2>3. QED
      BY <2>1, <2>2 DEF Next, Finished
  <1>3. QED
    BY <1>1, <1>2, TypeCorrect, PTL DEF Spec

(* However many calls hold rows, the read model and the session and want   *)
(* each other's, one of them can go on or PostgreSQL finds a circle: what  *)
(* CallsEnd needs besides fairness, for any number of calls.               *)
THEOREM NobodyStuckHolds == Spec => []NobodyStuck
  <1>1. IInv /\ IsFiniteSet(Underway) => NobodyStuck
    BY CircleExists DEF NobodyStuck
  <1>2. QED
    BY <1>1, Invariance, UnderwayFinite, PTL
-----------------------------------------------------------------------------
(***************************************************************************)
(* Progress.                                                               *)
(***************************************************************************)
LEMMA ForwardBeginning ==
  ASSUME TypeOK, NEW c \in Call, Begins(c)
  PROVE  Forward(c)
  BY DEF TypeOK, Begins, View, Execute, Touch, Mail, Sync, Goto, Forward, Stage, Order, synchronisation

LEMMA ForwardSynchronisation ==
  ASSUME TypeOK, NEW c \in Call, Synchronises(c) \/ RowsFail(c)
  PROVE  Forward(c)
  <1> USE DEF TypeOK, Goto, Forward, Stage, Order, synchronisation
  <1>1. CASE ReadExisting(c)
    BY <1>1 DEF ReadExisting
  <1>2. CASE Archived(c)
    BY <1>2 DEF Archived
  <1>3. CASE Upsert(c) \/ Suppress(c)
    <2>1. todo[c] \in Seq(Action) /\ todo[c] # <<>>
      BY <1>3 DEF Upsert, Suppress
    <2>2. Len(Tail(todo[c])) < Len(todo[c])
      BY <2>1
    <2>3. todo'[c] = Tail(todo[c]) /\ pc' = pc /\ then' = then
      BY <1>3 DEF Upsert, Suppress
    <2>4. QED
      BY <2>2, <2>3
  <1>4. CASE RowsFail(c)
    <2>1. todo[c] \in Seq(Action) /\ todo[c] # <<>> /\ todo'[c] = <<>> /\ pc' = pc /\ then' = then
      BY <1>4 DEF RowsFail
    <2>2. QED
      BY <2>1
  <1>5. CASE _persist_workflow(c)
    BY <1>5 DEF _persist_workflow
  <1>6. QED
    BY <1>1, <1>2, <1>3, <1>4, <1>5 DEF Synchronises

LEMMA ForwardExecution ==
  ASSUME TypeOK, NEW c \in Call, Executes(c) \/ PatchFails(c)
  PROVE  Forward(c)
  <1> USE DEF TypeOK, Goto, Forward, Stage, Order, synchronisation
  <1>1. CASE LoadContext(c) \/ MarkInProgress(c)
    BY <1>1 DEF LoadContext, MarkInProgress
  <1>2. CASE Incomplete(c) \/ SendFails(c) \/ Send(c) \/ Notify(c) \/ Coordinate(c)
    BY <1>2 DEF Incomplete, SendFails, Send, Notify, Coordinate, Outcome
  <1>3. CASE AddMessage(c) \/ Patch(c) \/ TellVendor(c) \/ PatchFails(c)
    BY <1>3 DEF AddMessage, Patch, TellVendor, PatchFails, AfterPatch
  <1>4. CASE Complete(c)
    BY <1>4 DEF Complete, Sync
  <1>5. QED
    BY <1>1, <1>2, <1>3, <1>4 DEF Executes

LEMMA ForwardEnd ==
  ASSUME TypeOK, NEW c \in Call, ListDue(c) \/ _queue_guest_session_review_action(c) \/ Stops(c)
  PROVE  Forward(c)
  BY DEF TypeOK, ListDue, _queue_guest_session_review_action, Stops, Goto, Forward, Stage, Order,
         synchronisation

(* Each step, a failure's included, brings one call nearer to its end and  *)
(* leaves the others where they are: with NobodyStuck, why no call can run *)
(* for ever, whatever the calls do to each other's rows.                   *)
THEOREM EveryStepCountsHolds == Spec => EveryStepCounts
  <1> DEFINE Counts == \E c \in Call :
               Forward(c) /\ \A d \in Call \ {c} : UNCHANGED <<pc[d], then[d], todo[d]>>
  <1>1. TypeOK /\ [Next]_vars => [Counts]_vars
    <2> SUFFICES ASSUME TypeOK, NEW c \in Call, Begins(c) \/ Step(c) \/ Fails(c) PROVE Counts
      BY DEF Next, Finished
    <2>1. Forward(c)
      BY ForwardBeginning, ForwardSynchronisation, ForwardExecution, ForwardEnd
         DEF Step, Fails
    <2>2. QED
      BY <2>1, StepsOfOne
  <1>2. QED
    BY <1>1, TypeCorrect, PTL DEF Spec, EveryStepCounts
=============================================================================
