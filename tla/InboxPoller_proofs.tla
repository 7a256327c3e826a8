------------------------- MODULE InboxPoller_proofs -------------------------
(* Theorems about InboxPoller, for any number of pollers and messages, any *)
(* set of routes and any bounds.                                           *)
EXTENDS InboxPoller, FiniteSetTheorems, TLAPS

(* A poller has a message just when it is not between two, and is reset    *)
(* there.                                                                  *)
WorkOK ==
    \A p \in Poller :
        /\ pc[p] = "idle" <=> msg[p] = NoMessage
        /\ pc[p] = "idle" => origin[p] = "brain"

Typed == TypeOK /\ WorkOK

LEMMA TypedInit == Init => Typed
  BY NoMessageAssumption, FaultsAssumption
     DEF Init, Typed, TypeOK, WorkOK, ProcessingStatus, Channel, RouteOutcome, Filtered, Origin,
         Source, Place

(* The part of Typed that is about the pollers, and the part about the     *)
(* tables and the history.                                                 *)
PollersOK ==
    /\ pc \in [Poller -> Place]
    /\ msg \in [Poller -> Message \cup {NoMessage}]
    /\ origin \in [Poller -> Origin]
    /\ inserted \in [Poller -> BOOLEAN]
    /\ result \in [Poller -> RouteOutcome]
    /\ count \in [Poller -> Nat]
    /\ WorkOK

TablesOK ==
    /\ record \in [Message -> [status : ProcessingStatus, failures : Nat]]
    /\ outcome \in [Channel -> [Message -> RouteOutcome]]
    /\ inquiry \in [Message -> Source \cup {"none"}]
    /\ addressed \in [Message -> BOOLEAN]
    /\ sessions \subseteq Message
    /\ stayAction \in Message \cup {NoMessage}
    /\ failed \in [Message -> Nat]
    /\ dropped \subseteq Message
    /\ harmed \subseteq Message
    /\ faults \in 0 .. MaxFaults

LEMMA TypedParts == Typed => PollersOK /\ TablesOK
  BY DEF Typed, TypeOK, PollersOK, TablesOK

LEMMA TypedFromParts ==
  ASSUME PollersOK', TablesOK'
  PROVE  Typed'
  BY DEF Typed, TypeOK, PollersOK, TablesOK

Outcomes == [Channel -> [Message -> RouteOutcome]]

LEMMA OutcomeType ==
  ASSUME NEW f \in Outcomes, NEW c \in Channel, NEW m \in Message, NEW o \in RouteOutcome
  PROVE  [f EXCEPT ![c][m] = o] \in Outcomes
  BY DEF Outcomes

LEMMA OutcomeUpdateType ==
  ASSUME outcome \in Outcomes, NEW c \in Channel, NEW m \in Message, NEW o \in RouteOutcome
  PROVE  /\ Outcome(c, m, o) \in Outcomes
         /\ Rescued(c, m) \in Outcomes
  BY DEF Outcomes, Outcome, Rescued, RouteOutcome

LEMMA AuditedType ==
  ASSUME outcome \in Outcomes, NEW p \in Poller, msg[p] \in Message,
         NEW o \in {"queued", "save_failed"}, Audited(p, o)
  PROVE  outcome' \in Outcomes
  <1>1. SaveChannel(p) \in Channel /\ SaveOutcome(p, o) \in RouteOutcome
    BY DEF SaveChannel, SaveOutcome, Channel, RouteOutcome, Filtered
  <1> DEFINE c == SaveChannel(p)
             audit == IF outcome[c][msg[p]] = "none" THEN "open" ELSE outcome[c][msg[p]]
  <1>2. audit \in RouteOutcome
    BY <1>1 DEF Outcomes, RouteOutcome
  <1>3. outcome' \in {[outcome EXCEPT ![c][msg[p]] = SaveOutcome(p, o)],
                      [outcome EXCEPT ![c][msg[p]] = audit]}
    BY DEF Audited
  <1> HIDE DEF c, audit
  <1>4. QED
    BY <1>1, <1>2, <1>3, OutcomeType DEF c

LEMMA Working ==
  ASSUME PollersOK, NEW p \in Poller, pc[p] # "idle"
  PROVE  msg[p] \in Message
  BY DEF PollersOK, WorkOK

LEMMA DoneKeeps ==
  ASSUME PollersOK, NEW p \in Poller, Done(p)
  PROVE  PollersOK'
  BY DEF PollersOK, WorkOK, Done, Goto, Place, Origin, RouteOutcome

LEMMA GotoKeeps ==
  ASSUME PollersOK, NEW p \in Poller, pc[p] # "idle",
         NEW place \in Place \ {"idle"}, Goto(p, place), UNCHANGED msg,
         origin' \in [Poller -> Origin], \A q \in Poller : q # p => origin'[q] = origin[q],
         inserted' \in [Poller -> BOOLEAN], result' \in [Poller -> RouteOutcome],
         count' \in [Poller -> Nat]
  PROVE  PollersOK'
  BY DEF PollersOK, WorkOK, Goto

LEMMA StepKeeps ==
  ASSUME PollersOK, NEW p \in Poller, pc[p] # "idle",
         NEW place \in Place \ {"idle"}, Step(p, place)
  PROVE  PollersOK'
  BY GotoKeeps DEF PollersOK, Step, locals

LEMMA ReportKeeps ==
  ASSUME PollersOK, NEW p \in Poller, pc[p] # "idle", NEW o \in RouteOutcome, Report(p, o)
  PROVE  PollersOK'
  <1>1. Goto(p, "outcome") /\ "outcome" \in Place \ {"idle"}
    BY DEF Report, Place
  <1>2. QED
    BY <1>1, GotoKeeps DEF PollersOK, Report
LEMMA TypedStep == Typed /\ [Next]_vars => Typed'
  <1> SUFFICES ASSUME Typed, [Next]_vars PROVE Typed'
    OBVIOUS
  <1> USE FaultsAssumption, AttemptsAssumption
      DEF intake, elsewhere, history, Fault, NoFault, Harm, Fail
  <1>0. PollersOK /\ TablesOK
    BY TypedParts
  <1>1. ASSUME NEW p \in Poller, NEW m \in Message, Start(p, m) PROVE Typed'
    <2>1. PollersOK'
      BY <1>0, <1>1, NoMessageAssumption DEF PollersOK, WorkOK, Start, Goto, locals, Place
    <2>2. TablesOK'
      BY <1>0, <1>1 DEF TablesOK, Start
    <2>3. QED  BY <2>1, <2>2, TypedFromParts
  <1>2. ASSUME NEW p \in Poller, Missing(p) PROVE Typed'
    <2>1. PollersOK'
      BY <1>0, <1>2, DoneKeeps DEF Missing
    <2>2. TablesOK'
      BY <1>0, <1>2, Working
         DEF TablesOK, Missing, ProcessingStatus, Channel, RouteOutcome, Filtered, Source
    <2>3. QED  BY <2>1, <2>2, TypedFromParts
  <1>3. ASSUME NEW p \in Poller, NotGuest(p) PROVE Typed'
    <2>1. PollersOK'
      BY <1>0, <1>3, DoneKeeps DEF NotGuest
    <2>2. TablesOK'
      BY <1>0, <1>3, Working
         DEF TablesOK, NotGuest, ProcessingStatus, Channel, RouteOutcome, Filtered, Source
    <2>3. QED  BY <2>1, <2>2, TypedFromParts
  <1>4. ASSUME NEW p \in Poller, MarkProcessed(p) PROVE Typed'
    <2>1. PollersOK'
      BY <1>0, <1>4, DoneKeeps DEF MarkProcessed
    <2>2. TablesOK'
      BY <1>0, <1>4, Working
         DEF TablesOK, MarkProcessed, ProcessingStatus, Channel, RouteOutcome, Filtered, Source
    <2>3. QED  BY <2>1, <2>2, TypedFromParts
  <1>5. ASSUME NEW p \in Poller, RecordLost(p) PROVE Typed'
    <2>1. PollersOK'
      BY <1>0, <1>5, DoneKeeps DEF RecordLost
    <2>2. TablesOK'
      BY <1>0, <1>5, Working
         DEF TablesOK, RecordLost, ProcessingStatus, Channel, RouteOutcome, Filtered, Source
    <2>3. QED  BY <2>1, <2>2, TypedFromParts
  <1>6. ASSUME NEW p \in Poller, RecordFailure(p) PROVE Typed'
    <2>1. PollersOK'
      BY <1>0, <1>6, DoneKeeps DEF RecordFailure
    <2>2. msg[p] \in Message /\ count[p] + 1 \in Nat
      BY <1>0, <1>6, Working DEF RecordFailure, PollersOK
    <2>3. PICK s \in ProcessingStatus :
              record' = [record EXCEPT ![msg[p]] = [status |-> s, failures |-> count[p] + 1]]
      BY <1>6 DEF RecordFailure, ProcessingStatus
    <2>4. TablesOK'
      BY <1>0, <2>2, <2>3, <1>6 DEF TablesOK, RecordFailure
    <2>5. QED  BY <2>1, <2>4, TypedFromParts
  <1>7. ASSUME NEW p \in Poller, Crash(p) PROVE Typed'
    <2>1. PollersOK'
      BY <1>0, <1>7, DoneKeeps DEF Crash
    <2>2. TablesOK'
      BY <1>0, <1>7, Working
         DEF TablesOK, Crash, ProcessingStatus, Channel, RouteOutcome, Filtered, Source
    <2>3. QED  BY <2>1, <2>2, TypedFromParts
  <1>8. ASSUME NEW p \in Poller, IntakeFailed(p) PROVE Typed'
    <2>1. PollersOK'
      BY <1>0, <1>8, StepKeeps DEF IntakeFailed, Place
    <2>2. TablesOK'
      BY <1>0, <1>8, Working
         DEF TablesOK, IntakeFailed, ProcessingStatus, Channel, RouteOutcome, Filtered, Source
    <2>3. QED  BY <2>1, <2>2, TypedFromParts
  <1>9. ASSUME NEW p \in Poller, ShadowPersist(p) PROVE Typed'
    <2>1. PollersOK'
      BY <1>0, <1>9, StepKeeps DEF ShadowPersist, Place
    <2>2. TablesOK'
      BY <1>0, <1>9, Working
         DEF TablesOK, ShadowPersist, ProcessingStatus, Channel, RouteOutcome, Filtered, Source
    <2>3. QED  BY <2>1, <2>2, TypedFromParts
  <1>10. ASSUME NEW p \in Poller, ShadowPersistFailed(p) PROVE Typed'
    <2>1. PollersOK'
      BY <1>0, <1>10, StepKeeps DEF ShadowPersistFailed, Place
    <2>2. TablesOK'
      BY <1>0, <1>10, Working
         DEF TablesOK, ShadowPersistFailed, ProcessingStatus, Channel, RouteOutcome, Filtered,
             Source
    <2>3. QED  BY <2>1, <2>2, TypedFromParts
  <1>11. ASSUME NEW p \in Poller, Drop(p) PROVE Typed'
    <2>1. PollersOK'
      BY <1>0, <1>11, StepKeeps DEF Drop, Takes, Place
    <2>2. TablesOK'
      BY <1>0, <1>11, Working
         DEF TablesOK, Drop, Takes, ProcessingStatus, Channel, RouteOutcome, Filtered, Source
    <2>3. QED  BY <2>1, <2>2, TypedFromParts
  <1>12. ASSUME NEW p \in Poller, StoreContext(p) PROVE Typed'
    <2>1. PollersOK'
      BY <1>0, <1>12, StepKeeps DEF StoreContext, AfterContext, Place
    <2>2. TablesOK'
      BY <1>0, <1>12, Working
         DEF TablesOK, StoreContext, AfterContext, ProcessingStatus, Channel, RouteOutcome,
             Filtered, Source
    <2>3. QED  BY <2>1, <2>2, TypedFromParts
  <1>13. ASSUME NEW p \in Poller, StoreContextFailed(p) PROVE Typed'
    <2>1. PollersOK'
      BY <1>0, <1>13, StepKeeps DEF StoreContextFailed, AfterContext, Place
    <2>2. TablesOK'
      BY <1>0, <1>13, Working
         DEF TablesOK, StoreContextFailed, AfterContext, ProcessingStatus, Channel,
             RouteOutcome, Filtered, Source
    <2>3. QED  BY <2>1, <2>2, TypedFromParts
  <1>14. ASSUME NEW p \in Poller, WriteOutcome(p) PROVE Typed'
    <2>1. PollersOK'
      BY <1>0, <1>14, StepKeeps DEF WriteOutcome, Outcome, Place
    <2>2. outcome \in Outcomes /\ msg[p] \in Message /\ "email" \in Channel
      BY <1>0, <1>14, Working DEF TablesOK, Outcomes, WriteOutcome, Channel
    <2>3. outcome' \in Outcomes
      BY <1>0, <2>2, <1>14, OutcomeUpdateType DEF WriteOutcome, PollersOK, RouteOutcome, Filtered
    <2>4. TablesOK'
      BY <1>0, <2>2, <2>3, <1>14 DEF TablesOK, Outcomes, WriteOutcome
    <2>5. QED  BY <2>1, <2>4, TypedFromParts
  <1>15. ASSUME NEW p \in Poller, OutcomeLost(p) PROVE Typed'
    <2>1. PollersOK'
      BY <1>0, <1>15, StepKeeps DEF OutcomeLost, Place
    <2>2. TablesOK'
      BY <1>0, <1>15, Working
         DEF TablesOK, OutcomeLost, ProcessingStatus, Channel, RouteOutcome, Filtered, Source
    <2>3. QED  BY <2>1, <2>2, TypedFromParts
  <1>16. ASSUME NEW p \in Poller, Stamp(p) PROVE Typed'
    <2>1. PollersOK'
      BY <1>0, <1>16, StepKeeps DEF Stamp, Outcome, Place
    <2>2. outcome \in Outcomes /\ msg[p] \in Message /\ "email" \in Channel
      BY <1>0, <1>16, Working DEF TablesOK, Outcomes, Stamp, Channel
    <2>3. outcome' \in Outcomes
      BY <1>0, <2>2, <1>16, OutcomeUpdateType DEF Stamp, PollersOK, RouteOutcome, Filtered
    <2>4. TablesOK'
      BY <1>0, <2>2, <2>3, <1>16 DEF TablesOK, Outcomes, Stamp
    <2>5. QED  BY <2>1, <2>4, TypedFromParts
  <1>17. ASSUME NEW p \in Poller, QueueStayReview(p) PROVE Typed'
    <2>1. PollersOK'
      BY <1>0, <1>17, ReportKeeps DEF QueueStayReview, Takes, RouteOutcome, Filtered
    <2>2. TablesOK'
      BY <1>0, <1>17, Working
         DEF TablesOK, QueueStayReview, Takes, ProcessingStatus, Channel, RouteOutcome,
             Filtered, Source
    <2>3. QED  BY <2>1, <2>2, TypedFromParts
  <1>18. ASSUME NEW p \in Poller, RouteToSession(p) PROVE Typed'
    <2>1. PollersOK'
      BY <1>0, <1>18, ReportKeeps DEF RouteToSession, Takes, RouteOutcome, Filtered
    <2>2. TablesOK'
      BY <1>0, <1>18, Working
         DEF TablesOK, RouteToSession, Takes, ProcessingStatus, Channel, RouteOutcome,
             Filtered, Source
    <2>3. QED  BY <2>1, <2>2, TypedFromParts
  <1>19. ASSUME NEW p \in Poller, ConfirmedGuest(p) PROVE Typed'
    <2>1. PollersOK'
      BY <1>0, <1>19, ReportKeeps DEF ConfirmedGuest, Takes, RouteOutcome, Filtered
    <2>2. TablesOK'
      BY <1>0, <1>19, Working
         DEF TablesOK, ConfirmedGuest, Takes, ProcessingStatus, Channel, RouteOutcome,
             Filtered, Source
    <2>3. QED  BY <2>1, <2>2, TypedFromParts
  <1>20. ASSUME NEW p \in Poller, Skip(p) PROVE Typed'
    <2>1. PollersOK'
      BY <1>0, <1>20, ReportKeeps DEF Skip, Takes, RouteOutcome, Filtered
    <2>2. TablesOK'
      BY <1>0, <1>20, Working
         DEF TablesOK, Skip, Takes, ProcessingStatus, Channel, RouteOutcome, Filtered, Source
    <2>3. QED  BY <2>1, <2>2, TypedFromParts
  <1>21. ASSUME NEW p \in Poller, RouteRaised(p) PROVE Typed'
    <2>1. PollersOK'
      BY <1>0, <1>21, GotoKeeps DEF RouteRaised, Recover, PollersOK, Goto, Place, Origin
    <2>2. TablesOK'
      BY <1>0, <1>21, Working
         DEF TablesOK, RouteRaised, Recover, ProcessingStatus, Channel, RouteOutcome, Filtered,
             Source
    <2>3. QED  BY <2>1, <2>2, TypedFromParts
  <1>22. ASSUME NEW p \in Poller, FallbackRaised(p) PROVE Typed'
    <2>1. PollersOK'
      BY <1>0, <1>22, GotoKeeps DEF FallbackRaised, Recover, PollersOK, Goto, Place, Origin
    <2>2. TablesOK'
      BY <1>0, <1>22, Working
         DEF TablesOK, FallbackRaised, Recover, ProcessingStatus, Channel, RouteOutcome,
             Filtered, Source
    <2>3. QED  BY <2>1, <2>2, TypedFromParts
  <1>23. ASSUME NEW p \in Poller, RaisedAfterSave(p) PROVE Typed'
    <2>1. PollersOK'
      BY <1>0, <1>23, GotoKeeps DEF RaisedAfterSave, PollersOK, Place, Origin, RouteOutcome
    <2>2. TablesOK'
      BY <1>0, <1>23, Working
         DEF TablesOK, RaisedAfterSave, ProcessingStatus, Channel, RouteOutcome, Filtered,
             Source
    <2>3. QED  BY <2>1, <2>2, TypedFromParts
  <1>24. ASSUME NEW p \in Poller, ReadFailures(p) PROVE Typed'
    <2>1. PollersOK'
      <3>1. "record_failure" \in Place \ {"idle"} /\ pc[p] # "idle" /\ msg[p] \in Message
        BY <1>0, <1>24, Working DEF ReadFailures, Place
      <3>2. count' \in [Poller -> Nat]
        <4>1. record[msg[p]].failures \in Nat
          BY <1>0, <3>1 DEF TablesOK
        <4>2. PICK n \in Nat : count' = [count EXCEPT ![p] = n]
          BY <1>24, <4>1 DEF ReadFailures
        <4>3. QED
          BY <1>0, <4>2 DEF PollersOK
      <3>3. QED
        BY <1>0, <1>24, <3>1, <3>2, GotoKeeps DEF ReadFailures, PollersOK
    <2>2. TablesOK'
      BY <1>0, <1>24, Working
         DEF TablesOK, ReadFailures, ProcessingStatus, Channel, RouteOutcome, Filtered, Source
    <2>3. QED  BY <2>1, <2>2, TypedFromParts
  <1>25. ASSUME NEW p \in Poller, Save(p) PROVE Typed'
    <2>1. PollersOK'
      BY <1>0, <1>25, GotoKeeps
         DEF Save, AfterSave, SaveOutcome, Audited, SaveChannel, PollersOK, Place,
             RouteOutcome, Filtered
    <2>2. outcome \in Outcomes /\ msg[p] \in Message
      BY <1>0, <1>25, Working DEF TablesOK, Outcomes, Save
    <2>3. outcome' \in Outcomes
      BY <2>2, <1>25, AuditedType DEF Save
    <2>4. TablesOK'
      BY <1>0, <2>2, <2>3, <1>25 DEF TablesOK, Outcomes, Save, Source
    <2>5. QED  BY <2>1, <2>4, TypedFromParts
  <1>26. ASSUME NEW p \in Poller, SaveDuplicate(p) PROVE Typed'
    <2>1. PollersOK'
      BY <1>0, <1>26, GotoKeeps
         DEF SaveDuplicate, AfterSave, SaveOutcome, Audited, SaveChannel, PollersOK, Place,
             RouteOutcome, Filtered
    <2>2. outcome \in Outcomes /\ msg[p] \in Message
      BY <1>0, <1>26, Working DEF TablesOK, Outcomes, SaveDuplicate
    <2>3. outcome' \in Outcomes
      BY <2>2, <1>26, AuditedType DEF SaveDuplicate
    <2>4. TablesOK'
      BY <1>0, <2>2, <2>3, <1>26 DEF TablesOK, Outcomes, SaveDuplicate, Source
    <2>5. QED  BY <2>1, <2>4, TypedFromParts
  <1>27. ASSUME NEW p \in Poller, SaveFailed(p) PROVE Typed'
    <2>1. PollersOK'
      BY <1>0, <1>27, GotoKeeps
         DEF SaveFailed, AfterSave, SaveOutcome, Audited, SaveChannel, PollersOK, Place,
             RouteOutcome, Filtered
    <2>2. outcome \in Outcomes /\ msg[p] \in Message
      BY <1>0, <1>27, Working DEF TablesOK, Outcomes, SaveFailed
    <2>3. outcome' \in Outcomes
      BY <2>2, <1>27, AuditedType DEF SaveFailed
    <2>4. TablesOK'
      BY <1>0, <2>2, <2>3, <1>27 DEF TablesOK, Outcomes, SaveFailed
    <2>5. QED  BY <2>1, <2>4, TypedFromParts
  <1>28. ASSUME NEW p \in Poller, NEW k \in {"brain", "fallback"}, PreBooking(p, k) PROVE Typed'
    <2>1. PollersOK'
      BY <1>0, <1>28, GotoKeeps DEF PreBooking, Takes, PollersOK, Place, Origin
    <2>2. TablesOK'
      BY <1>0, <1>28 DEF TablesOK, PreBooking
    <2>3. QED  BY <2>1, <2>2, TypedFromParts
  <1>29. ASSUME NEW c \in Channel, NEW m \in Message, Promote(c, m) \/ PromoteFailed(c, m)
        PROVE Typed'
    <2>1. PollersOK'
      BY <1>0, <1>29 DEF Promote, PromoteFailed, locals, PollersOK, WorkOK
    <2>2. outcome' \in Outcomes
      <3>1. outcome \in Outcomes /\ "rescued" \in RouteOutcome
        BY <1>0 DEF TablesOK, Outcomes, RouteOutcome
      <3>2. Rescued(c, m) \in Outcomes
        BY <3>1, OutcomeUpdateType
      <3>3. QED
        BY <1>29, <3>1, <3>2 DEF Promote, PromoteFailed
    <2>3. TablesOK'
      BY <1>0, <2>2, <1>29 DEF TablesOK, Outcomes, Promote, PromoteFailed, Source
    <2>4. QED  BY <2>1, <2>3, TypedFromParts
  <1>30. CASE UNCHANGED vars
    <2>1. PollersOK' /\ TablesOK'
      BY <1>0, <1>30 DEF vars, locals, PollersOK, TablesOK, WorkOK
    <2>2. QED  BY <2>1, TypedFromParts
  <1>31. QED
    BY <1>1, <1>2, <1>3, <1>4, <1>5, <1>6, <1>7, <1>8, <1>9, <1>10, <1>11, <1>12, <1>13, <1>14, <1>15,
       <1>16, <1>17, <1>18, <1>19, <1>20, <1>21, <1>22, <1>23, <1>24, <1>25, <1>26, <1>27, <1>28,
       <1>29, <1>30
       DEF Next, Continues, Fails, Dispatches

(* Records, outcomes, inquiries and pollers keep their types. *)
THEOREM TypeCorrect == Spec => []TypeOK
  <1>1. Spec => []Typed
    BY TypedInit, TypedStep, PTL DEF Spec
  <1>2. Typed => TypeOK
    BY DEF Typed
  <1>3. QED
    BY <1>1, <1>2, PTL
-----------------------------------------------------------------------------
(***************************************************************************)
(* The failures on record, and the one a poller is about to record, are    *)
(* behind the failed attempts by the attempts still on their way to the    *)
(* record.                                                                 *)
(***************************************************************************)
InFlight ==
    [m \in Message |-> Cardinality({p \in Poller : pc[p] = "fail" /\ msg[p] = m})]

FailuresCounted ==
    \A m \in Message : record[m].failures + InFlight[m] <= failed[m]

CountIsBehind ==
    \A p \in Poller : pc[p] = "record_failure" =>
        count[p] + 1 + InFlight[msg[p]] <= failed[msg[p]]

QuarantineIsCounted ==
    \A m \in Message : record[m].status = "quarantined" => record[m].failures >= MaxAttempts

Counted == FailuresCounted /\ CountIsBehind /\ QuarantineIsCounted
LEMMA InFlightType == InFlight \in [Message -> Nat]
  <1> SUFFICES ASSUME NEW m \in Message PROVE InFlight[m] \in Nat
    BY DEF InFlight
  <1>1. IsFiniteSet({p \in Poller : pc[p] = "fail" /\ msg[p] = m})
    BY PollerAssumption, FS_Subset DEF PollerAssumption
  <1>2. QED
    BY <1>1, FS_CardinalityType DEF InFlight

LEMMA CountedInit == Init => Counted
  <1> SUFFICES ASSUME Init PROVE Counted
    OBVIOUS
  <1>1. ASSUME NEW m \in Message PROVE InFlight[m] = 0
    <2>1. {p \in Poller : pc[p] = "fail" /\ msg[p] = m} = {}
      BY DEF Init
    <2>2. QED  BY <2>1, FS_EmptySet DEF InFlight
  <1>2. QED
    BY <1>1 DEF Init, Counted, FailuresCounted, CountIsBehind, QuarantineIsCounted

(* Fewer pollers on their way to the record, and a record that no failure  *)
(* is added to.                                                            *)
LEMMA NothingFails ==
  ASSUME Typed, Counted, NEW p \in Poller,
         \A q \in Poller : q # p => pc'[q] = pc[q] /\ msg'[q] = msg[q] /\ count'[q] = count[q],
         pc'[p] \notin {"fail", "record_failure"},
         failed' = failed,
         \A m \in Message : \/ record'[m] = record[m]
                            \/ record'[m].status # "quarantined" /\ record'[m].failures = 0
  PROVE  Counted'
  <1>1. \A n \in Message : InFlight'[n] \in Nat /\ InFlight'[n] <= InFlight[n]
    <2> SUFFICES ASSUME NEW n \in Message
                 PROVE  InFlight'[n] \in Nat /\ InFlight'[n] <= InFlight[n]
      OBVIOUS
    <2>1. QED
      <3> DEFINE F == {q \in Poller : pc[q] = "fail" /\ msg[q] = n}
                 G == {q \in Poller : pc'[q] = "fail" /\ msg'[q] = n}
      <3>1. InFlight[n] = Cardinality(F) /\ InFlight'[n] = Cardinality(G)
        BY DEF InFlight
      <3>2. IsFiniteSet(F) /\ IsFiniteSet(G)
        BY PollerAssumption, FS_Subset DEF PollerAssumption
      <3>3. G \subseteq F
        OBVIOUS
      <3> HIDE DEF F, G
      <3>4. Cardinality(F) \in Nat /\ Cardinality(G) \in Nat /\ Cardinality(G) <= Cardinality(F)
        BY <3>2, <3>3, FS_Subset, FS_CardinalityType
      <3>5. QED  BY <3>1, <3>4
  <1>2. /\ \A m \in Message : InFlight[m] \in Nat
        /\ record \in [Message -> [status : ProcessingStatus, failures : Nat]]
        /\ pc \in [Poller -> Place] /\ msg \in [Poller -> Message \cup {NoMessage}]
        /\ failed \in [Message -> Nat] /\ count \in [Poller -> Nat]
    BY InFlightType DEF Typed, TypeOK
  <1>3. FailuresCounted'
    <2> SUFFICES ASSUME NEW m \in Message
                 PROVE  record'[m].failures + InFlight'[m] <= failed[m]
      BY DEF FailuresCounted
    <2>1. record[m].failures + InFlight[m] <= failed[m]
      BY DEF Counted, FailuresCounted
    <2>2. QED  BY <2>1, <1>1, <1>2
  <1>4. CountIsBehind'
    <2> SUFFICES ASSUME NEW q \in Poller, pc'[q] = "record_failure"
                 PROVE  count'[q] + 1 + InFlight'[msg'[q]] <= failed'[msg'[q]]
      BY DEF CountIsBehind
    <2>1. q # p /\ pc[q] = "record_failure" /\ msg'[q] = msg[q] /\ count'[q] = count[q]
      OBVIOUS
    <2>2. msg[q] \in Message
      BY <2>1 DEF Typed, TypeOK, WorkOK
    <2>3. count[q] + 1 + InFlight[msg[q]] <= failed[msg[q]]
      BY <2>1 DEF Counted, CountIsBehind
    <2>4. QED
      BY <2>1, <2>2, <2>3, <1>1, <1>2
  <1>5. QuarantineIsCounted'
    BY DEF Counted, QuarantineIsCounted
  <1>6. QED  BY <1>3, <1>4, <1>5 DEF Counted

(* The attempt failed: one more failure, and one more on its way.          *)
LEMMA OneFails ==
  ASSUME Typed, Counted, NEW p \in Poller, pc[p] \notin {"idle", "fail"},
         Goto(p, "fail"), UNCHANGED <<msg, count, record>>,
         failed' = [failed EXCEPT ![msg[p]] = @ + 1]
  PROVE  Counted'
  <1>1. /\ \A n \in Message : InFlight[n] \in Nat
        /\ record \in [Message -> [status : ProcessingStatus, failures : Nat]]
        /\ pc \in [Poller -> Place] /\ msg \in [Poller -> Message \cup {NoMessage}]
        /\ failed \in [Message -> Nat] /\ count \in [Poller -> Nat]
    BY InFlightType DEF Typed, TypeOK
  <1>2. PICK m \in Message : m = msg[p]
    BY DEF Typed, TypeOK, WorkOK
  <1>3. ASSUME NEW n \in Message
        PROVE  InFlight'[n] = IF n = m THEN InFlight[n] + 1 ELSE InFlight[n]
    <2>1. QED
      <3> DEFINE F == {q \in Poller : pc[q] = "fail" /\ msg[q] = n}
                 G == {q \in Poller : pc'[q] = "fail" /\ msg'[q] = n}
      <3>1. InFlight[n] = Cardinality(F) /\ InFlight'[n] = Cardinality(G)
        BY DEF InFlight
      <3>2. IsFiniteSet(F) /\ IsFiniteSet(G)
        BY PollerAssumption, FS_Subset DEF PollerAssumption
      <3>3. G = IF n = m THEN F \cup {p} ELSE F
        BY <1>1, <1>2 DEF Goto
      <3>4. p \notin F
        OBVIOUS
      <3> HIDE DEF F, G
      <3>5. Cardinality(F \cup {p}) = Cardinality(F) + 1
        BY <3>2, <3>4, FS_AddElement
      <3>6. QED  BY <3>1, <3>3, <3>5
  <1>4. \A n \in Message : failed'[n] = IF n = m THEN failed[n] + 1 ELSE failed[n]
    BY <1>1, <1>2
  <1>5. FailuresCounted'
    <2> SUFFICES ASSUME NEW n \in Message
                 PROVE  record[n].failures + InFlight'[n] <= failed'[n]
      BY DEF FailuresCounted
    <2>1. record[n].failures + InFlight[n] <= failed[n]
      BY DEF Counted, FailuresCounted
    <2>2. QED  BY <2>1, <1>1, <1>3, <1>4
  <1>6. CountIsBehind'
    <2> SUFFICES ASSUME NEW q \in Poller, pc'[q] = "record_failure"
                 PROVE  count[q] + 1 + InFlight'[msg[q]] <= failed'[msg[q]]
      BY DEF CountIsBehind
    <2>1. pc[q] = "record_failure"
      BY <1>1 DEF Goto
    <2>2. msg[q] \in Message
      BY <2>1 DEF Typed, TypeOK, WorkOK
    <2>3. count[q] + 1 + InFlight[msg[q]] <= failed[msg[q]]
      BY <2>1 DEF Counted, CountIsBehind
    <2>4. QED
      BY <2>2, <2>3, <1>1, <1>3, <1>4
  <1>7. QuarantineIsCounted'
    BY DEF Counted, QuarantineIsCounted
  <1>8. QED  BY <1>5, <1>6, <1>7 DEF Counted

(* The poller that counts the failures is on its way no more.              *)
LEMMA CountIsRead ==
  ASSUME Typed, Counted, NEW p \in Poller, ReadFailures(p)
  PROVE  Counted'
  <1>1. /\ \A n \in Message : InFlight[n] \in Nat
        /\ record \in [Message -> [status : ProcessingStatus, failures : Nat]]
        /\ pc \in [Poller -> Place] /\ msg \in [Poller -> Message \cup {NoMessage}]
        /\ failed \in [Message -> Nat] /\ count \in [Poller -> Nat]
    BY InFlightType DEF Typed, TypeOK
  <1>2. pc' = [pc EXCEPT ![p] = "record_failure"] /\ UNCHANGED <<msg, record, failed>>
        /\ pc[p] = "fail"
    BY DEF ReadFailures, Goto, history
  <1>3. PICK m \in Message : m = msg[p]
    BY <1>2 DEF Typed, TypeOK, WorkOK
  <1>4. ASSUME NEW n \in Message
        PROVE  InFlight'[n] = IF n = m THEN InFlight[n] - 1 ELSE InFlight[n]
    <2>1. QED
      <3> DEFINE F == {q \in Poller : pc[q] = "fail" /\ msg[q] = n}
                 G == {q \in Poller : pc'[q] = "fail" /\ msg'[q] = n}
      <3>1. InFlight[n] = Cardinality(F) /\ InFlight'[n] = Cardinality(G)
        BY DEF InFlight
      <3>2. IsFiniteSet(F) /\ IsFiniteSet(G)
        BY PollerAssumption, FS_Subset DEF PollerAssumption
      <3>3. G = IF n = m THEN F \ {p} ELSE F
        BY <1>1, <1>2, <1>3
      <3>4. n = m => p \in F
        BY <1>2, <1>3
      <3> HIDE DEF F, G
      <3>5. n = m => Cardinality(F \ {p}) = Cardinality(F) - 1
        BY <3>2, <3>4, FS_RemoveElement
      <3>6. QED  BY <3>1, <3>3, <3>5
  <1>5. count'[p] \in Nat /\ count'[p] <= record[m].failures
        /\ \A q \in Poller : q # p => count'[q] = count[q]
    BY <1>1, <1>3 DEF ReadFailures
  <1>6. \A n \in Message : record[n].failures + InFlight[n] <= failed[n]
    BY DEF Counted, FailuresCounted
  <1>7. FailuresCounted'
    BY <1>1, <1>2, <1>4, <1>6 DEF FailuresCounted
  <1>8. CountIsBehind'
    <2> SUFFICES ASSUME NEW q \in Poller, pc'[q] = "record_failure"
                 PROVE  count'[q] + 1 + InFlight'[msg[q]] <= failed[msg[q]]
      BY <1>2 DEF CountIsBehind
    <2>1. CASE q = p
      BY <2>1, <1>1, <1>3, <1>4, <1>5, <1>6
    <2>2. CASE q # p
      <3>1. pc[q] = "record_failure" /\ count'[q] = count[q]
        BY <2>2, <1>1, <1>2, <1>5
      <3>2. msg[q] \in Message
        BY <3>1 DEF Typed, TypeOK, WorkOK
      <3>3. count[q] + 1 + InFlight[msg[q]] <= failed[msg[q]]
        BY <3>1 DEF Counted, CountIsBehind
      <3>4. QED
        BY <3>1, <3>2, <3>3, <1>1, <1>4
    <2>3. QED  BY <2>1, <2>2
  <1>9. QuarantineIsCounted'
    BY <1>2 DEF Counted, QuarantineIsCounted
  <1>10. QED  BY <1>7, <1>8, <1>9 DEF Counted

(* What is recorded is the count and its own failure.                      *)
LEMMA FailureIsRecorded ==
  ASSUME Typed, Counted, NEW p \in Poller, RecordFailure(p)
  PROVE  Counted'
  <1>1. /\ \A n \in Message : InFlight[n] \in Nat
        /\ record \in [Message -> [status : ProcessingStatus, failures : Nat]]
        /\ pc \in [Poller -> Place] /\ msg \in [Poller -> Message \cup {NoMessage}]
        /\ failed \in [Message -> Nat] /\ count \in [Poller -> Nat]
    BY InFlightType DEF Typed, TypeOK
  <1>2. /\ pc[p] = "record_failure" /\ pc' = [pc EXCEPT ![p] = "idle"]
        /\ msg' = [msg EXCEPT ![p] = NoMessage] /\ count' = [count EXCEPT ![p] = 0]
        /\ failed' = failed
    BY DEF RecordFailure, Done, Goto, history
  <1>3. PICK m \in Message : m = msg[p]
    BY <1>2 DEF Typed, TypeOK, WorkOK
  <1>4. /\ record'[m].failures = count[p] + 1
        /\ record'[m].status = "quarantined" => count[p] + 1 >= MaxAttempts
        /\ \A n \in Message : n # m => record'[n] = record[n]
    BY <1>1, <1>3 DEF RecordFailure
  <1>5. ASSUME NEW n \in Message PROVE InFlight'[n] = InFlight[n]
    <2>1. {q \in Poller : pc'[q] = "fail" /\ msg'[q] = n}
            = {q \in Poller : pc[q] = "fail" /\ msg[q] = n}
      BY <1>1, <1>2, NoMessageAssumption
    <2>2. QED  BY <2>1 DEF InFlight
  <1>6. FailuresCounted'
    <2> SUFFICES ASSUME NEW n \in Message
                 PROVE  record'[n].failures + InFlight[n] <= failed[n]
      BY <1>2, <1>5 DEF FailuresCounted
    <2>1. CASE n = m
      BY <2>1, <1>2, <1>3, <1>4 DEF Counted, CountIsBehind
    <2>2. CASE n # m
      BY <2>2, <1>4 DEF Counted, FailuresCounted
    <2>3. QED  BY <2>1, <2>2
  <1>7. CountIsBehind'
    <2> SUFFICES ASSUME NEW q \in Poller, pc'[q] = "record_failure"
                 PROVE  count'[q] + 1 + InFlight'[msg'[q]] <= failed[msg'[q]]
      BY <1>2 DEF CountIsBehind
    <2>1. q # p /\ pc[q] = "record_failure" /\ msg'[q] = msg[q] /\ count'[q] = count[q]
      BY <1>1, <1>2
    <2>2. msg[q] \in Message
      BY <2>1 DEF Typed, TypeOK, WorkOK
    <2>3. QED
      BY <2>1, <2>2, <1>5 DEF Counted, CountIsBehind
  <1>8. QuarantineIsCounted'
    BY <1>4 DEF Counted, QuarantineIsCounted
  <1>9. QED  BY <1>6, <1>7, <1>8 DEF Counted
LEMMA CountedStep == Typed /\ Counted /\ [Next]_vars => Counted'
  <1> SUFFICES ASSUME Typed, Counted, [Next]_vars PROVE Counted'
    OBVIOUS
  <1> USE DEF history, Harm, Fail
  <1>0. /\ pc \in [Poller -> Place] /\ msg \in [Poller -> Message \cup {NoMessage}]
        /\ count \in [Poller -> Nat]
        /\ record \in [Message -> [status : ProcessingStatus, failures : Nat]]
    BY DEF Typed, TypeOK
  <1>1. ASSUME NEW p \in Poller, IntakeFailed(p) \/ Stamp(p) PROVE Counted'
    BY <1>1, OneFails DEF IntakeFailed, Stamp, Step, locals
  <1>2. ASSUME NEW p \in Poller, ReadFailures(p) PROVE Counted'
    BY <1>2, CountIsRead
  <1>3. ASSUME NEW p \in Poller, RecordFailure(p) PROVE Counted'
    BY <1>3, FailureIsRecorded
  <1>4. ASSUME NEW p \in Poller, NEW m \in Message, Start(p, m) PROVE Counted'
    BY <1>0, <1>4, NothingFails DEF Start, Goto, locals
  <1>5. ASSUME NEW p \in Poller, NEW k \in {"brain", "fallback"}, PreBooking(p, k) PROVE Counted'
    BY <1>0, <1>5, NothingFails DEF PreBooking, Goto
  <1>6. ASSUME NEW p \in Poller,
               Missing(p) \/ NotGuest(p) \/ MarkProcessed(p) \/ RecordLost(p) \/ Crash(p)
        PROVE Counted'
    BY <1>0, <1>6, NothingFails
       DEF Missing, NotGuest, MarkProcessed, RecordLost, Crash, Done, Goto
  <1>7. ASSUME NEW p \in Poller,
               \/ ShadowPersist(p) \/ ShadowPersistFailed(p) \/ Drop(p)
               \/ WriteOutcome(p) \/ OutcomeLost(p)
        PROVE Counted'
    BY <1>0, <1>7, NothingFails
       DEF ShadowPersist, ShadowPersistFailed, Drop, Takes, WriteOutcome, OutcomeLost, Step, Goto,
           locals
  <1>8. ASSUME NEW p \in Poller,
               StoreContext(p) \/ StoreContextFailed(p)
        PROVE Counted'
    BY <1>0, <1>8, NothingFails
       DEF StoreContext, StoreContextFailed, AfterContext, Step, Goto, locals
  <1>9. ASSUME NEW p \in Poller,
               QueueStayReview(p) \/ RouteToSession(p) \/ ConfirmedGuest(p) \/ Skip(p)
        PROVE Counted'
    BY <1>0, <1>9, NothingFails
       DEF QueueStayReview, RouteToSession, ConfirmedGuest, Skip, Report, Goto, Takes
  <1>10. ASSUME NEW p \in Poller,
               RouteRaised(p) \/ FallbackRaised(p) \/ RaisedAfterSave(p)
        PROVE Counted'
    BY <1>0, <1>10, NothingFails
       DEF RouteRaised, FallbackRaised, RaisedAfterSave, Recover, Goto
  <1>11. ASSUME NEW p \in Poller,
               Save(p) \/ SaveDuplicate(p) \/ SaveFailed(p)
        PROVE Counted'
    BY <1>0, <1>11, NothingFails
       DEF Save, SaveDuplicate, SaveFailed, AfterSave, Goto
  <1>12. ASSUME UNCHANGED <<pc, msg, count, record, failed>> PROVE Counted'
    <2>1. InFlight' = InFlight
      BY <1>12 DEF InFlight
    <2>2. QED
      BY <1>12, <2>1 DEF Counted, FailuresCounted, CountIsBehind, QuarantineIsCounted
  <1>13. ASSUME NEW c \in Channel, NEW m \in Message, Promote(c, m) \/ PromoteFailed(c, m)
        PROVE Counted'
    BY <1>12, <1>13 DEF Promote, PromoteFailed, locals
  <1>14. CASE UNCHANGED vars
    BY <1>12, <1>14 DEF vars, locals
  <1>15. QED
    BY <1>1, <1>2, <1>3, <1>4, <1>5, <1>6, <1>7, <1>8, <1>9, <1>10, <1>11, <1>13, <1>14
       DEF Next, Continues, Fails, Dispatches

(* Overlapping polls that read and write the count without a lock never    *)
(* quarantine a message before its own attempts failed that often.         *)
THEOREM QuarantineIsEarnedHolds == Spec => []QuarantineIsEarned
  <1>1. Spec => [](Typed /\ Counted)
    BY TypedInit, TypedStep, CountedInit, CountedStep, PTL DEF Spec
  <1>2. Typed /\ Counted => QuarantineIsEarned
    <2> SUFFICES ASSUME Typed, Counted, NEW m \in Message, record[m].status = "quarantined"
                 PROVE  failed[m] >= MaxAttempts
      BY DEF QuarantineIsEarned
    <2>1. record[m].failures >= MaxAttempts /\ record[m].failures + InFlight[m] <= failed[m]
      BY DEF Counted, QuarantineIsCounted, FailuresCounted
    <2>2. record[m].failures \in Nat /\ failed[m] \in Nat /\ InFlight[m] \in Nat
          /\ MaxAttempts \in Nat
      BY InFlightType, AttemptsAssumption DEF Typed, TypeOK, AttemptsAssumption
    <2>3. QED  BY <2>1, <2>2
  <1>3. QED
    BY <1>1, <1>2, PTL
-----------------------------------------------------------------------------
(***************************************************************************)
(* The inquiry and its address.                                            *)
(***************************************************************************)
(* The inquiry and its address stay, and a poller about to store it goes   *)
(* on, or its attempt came to harm.                                        *)
LEMMA AddressStays ==
  ASSUME AddressedUnlessHarmed, UNCHANGED intake, harmed \subseteq harmed',
         \A q \in Poller : pc[q] = "context" =>
            \/ pc'[q] = pc[q] /\ msg'[q] = msg[q] /\ inserted'[q] = inserted[q]
            \/ msg[q] \in harmed'
  PROVE  AddressedUnlessHarmed'
  BY DEF AddressedUnlessHarmed, intake

LEMMA AddressStep == Typed /\ AddressedUnlessHarmed /\ [Next]_vars => AddressedUnlessHarmed'
  <1> SUFFICES ASSUME Typed, AddressedUnlessHarmed, [Next]_vars PROVE AddressedUnlessHarmed'
    OBVIOUS
  <1> USE DEF history, Harm, Fail
  <1>0. /\ pc \in [Poller -> Place] /\ msg \in [Poller -> Message \cup {NoMessage}]
        /\ inserted \in [Poller -> BOOLEAN] /\ addressed \in [Message -> BOOLEAN]
        /\ inquiry \in [Message -> Source \cup {"none"}]
    BY DEF Typed, TypeOK
  <1>1. ASSUME NEW p \in Poller,
               \/ Missing(p) \/ NotGuest(p) \/ MarkProcessed(p) \/ RecordLost(p)
               \/ RecordFailure(p) \/ Crash(p)
        PROVE AddressedUnlessHarmed'
    BY <1>0, <1>1, AddressStays
       DEF Missing, NotGuest, MarkProcessed, RecordLost, RecordFailure, Crash, Done, Goto
  <1>2. ASSUME NEW p \in Poller,
               \/ IntakeFailed(p) \/ ShadowPersist(p) \/ ShadowPersistFailed(p) \/ Drop(p)
               \/ WriteOutcome(p) \/ OutcomeLost(p) \/ Stamp(p) \/ ReadFailures(p)
        PROVE AddressedUnlessHarmed'
    BY <1>0, <1>2, AddressStays
       DEF IntakeFailed, ShadowPersist, ShadowPersistFailed, Drop, Takes, WriteOutcome,
           OutcomeLost, Stamp, ReadFailures, Step, Goto, locals
  <1>3. ASSUME NEW p \in Poller,
               StoreContextFailed(p)
        PROVE AddressedUnlessHarmed'
    BY <1>0, <1>3, AddressStays
       DEF StoreContextFailed, AfterContext, Step, Goto, locals
  <1>4. ASSUME NEW p \in Poller,
               QueueStayReview(p) \/ RouteToSession(p) \/ ConfirmedGuest(p) \/ Skip(p)
        PROVE AddressedUnlessHarmed'
    BY <1>0, <1>4, AddressStays
       DEF QueueStayReview, RouteToSession, ConfirmedGuest, Skip, Report, Goto, Takes
  <1>5. ASSUME NEW p \in Poller,
               RouteRaised(p) \/ FallbackRaised(p) \/ RaisedAfterSave(p)
        PROVE AddressedUnlessHarmed'
    BY <1>0, <1>5, AddressStays
       DEF RouteRaised, FallbackRaised, RaisedAfterSave, Recover, Goto
  <1>6. ASSUME NEW p \in Poller,
               SaveDuplicate(p) \/ SaveFailed(p)
        PROVE AddressedUnlessHarmed'
    BY <1>0, <1>6, AddressStays
       DEF SaveDuplicate, SaveFailed, AfterSave, Goto
  <1>7. ASSUME NEW p \in Poller, NEW m \in Message, Start(p, m) PROVE AddressedUnlessHarmed'
    BY <1>0, <1>7, AddressStays DEF Start, Goto, locals
  <1>8. ASSUME NEW p \in Poller, NEW k \in {"brain", "fallback"}, PreBooking(p, k)
        PROVE AddressedUnlessHarmed'
    BY <1>0, <1>8, AddressStays DEF PreBooking, Takes, Goto
  <1>9. ASSUME NEW p \in Poller, Save(p) PROVE AddressedUnlessHarmed'
    <2> SUFFICES ASSUME NEW m \in Message, inquiry'[m] \in {"brain", "fallback"}, ~addressed'[m],
                        m \notin harmed'
                 PROVE  \E q \in Poller : pc'[q] = "context" /\ msg'[q] = m /\ inserted'[q]
      BY DEF AddressedUnlessHarmed
    <2>1. /\ pc' = [pc EXCEPT ![p] = "context"] /\ inserted' = [inserted EXCEPT ![p] = TRUE]
          /\ UNCHANGED <<msg, addressed, harmed>> /\ pc[p] = "save"
          /\ \A n \in Message : n # msg[p] => inquiry'[n] = inquiry[n]
      BY <1>0, <1>9 DEF Save, AfterSave, Goto
    <2>2. CASE m = msg[p]
      BY <2>1, <2>2, <1>0
    <2>3. CASE m # msg[p]
      <3>1. PICK q \in Poller : pc[q] = "context" /\ msg[q] = m /\ inserted[q]
        BY <2>1, <2>3 DEF AddressedUnlessHarmed
      <3>2. QED  BY <2>1, <3>1, <1>0
    <2>4. QED  BY <2>2, <2>3
  <1>10. ASSUME NEW p \in Poller, StoreContext(p) PROVE AddressedUnlessHarmed'
    <2> SUFFICES ASSUME NEW m \in Message, inquiry'[m] \in {"brain", "fallback"}, ~addressed'[m],
                        m \notin harmed'
                 PROVE  \E q \in Poller : pc'[q] = "context" /\ msg'[q] = m /\ inserted'[q]
      BY DEF AddressedUnlessHarmed
    <2>1. /\ \A q \in Poller : q # p => pc'[q] = pc[q]
          /\ UNCHANGED <<msg, inserted, inquiry, harmed>>
          /\ addressed' = [addressed EXCEPT ![msg[p]] = addressed[msg[p]] \/ inserted[p]]
      BY <1>0, <1>10 DEF StoreContext, AfterContext, Step, Goto, locals
    <2>2. ~addressed[m] /\ (msg[p] = m => ~inserted[p])
      BY <2>1, <1>0
    <2>3. PICK q \in Poller : pc[q] = "context" /\ msg[q] = m /\ inserted[q]
      BY <2>1, <2>2 DEF AddressedUnlessHarmed
    <2>4. QED  BY <2>1, <2>2, <2>3
  <1>11. ASSUME NEW c \in Channel, NEW m \in Message, Promote(c, m) \/ PromoteFailed(c, m)
        PROVE AddressedUnlessHarmed'
    BY <1>0, <1>11 DEF Promote, PromoteFailed, locals, intake, AddressedUnlessHarmed
  <1>12. CASE UNCHANGED vars
    BY <1>12, AddressStays DEF vars, locals
  <1>13. QED
    BY <1>1, <1>2, <1>3, <1>4, <1>5, <1>6, <1>7, <1>8, <1>9, <1>10, <1>11, <1>12
       DEF Next, Continues, Fails, Dispatches

(* Every mail's inquiry has its guest's address or is about to get it,     *)
(* unless its attempt was interrupted or lost the write.                   *)
THEOREM AddressedUnlessHarmedHolds == Spec => []AddressedUnlessHarmed
  <1>1. Init => AddressedUnlessHarmed
    BY DEF Init, AddressedUnlessHarmed
  <1>2. Spec => [](Typed /\ AddressedUnlessHarmed)
    BY <1>1, TypedInit, TypedStep, AddressStep, PTL DEF Spec
  <1>3. QED
    BY <1>2, PTL

(* No later attempt, fallback or rescue replaces an inquiry or takes its   *)
(* address away.                                                           *)
THEOREM InquiryKeptHolds == Spec => InquiryKept
  <1> DEFINE Kept == \A m \in Message : inquiry[m] # "none" =>
                        inquiry'[m] = inquiry[m] /\ (addressed[m] => addressed'[m])
  <1>1. Typed /\ [Next]_vars => Kept
    <2> SUFFICES ASSUME Typed, [Next]_vars PROVE Kept
      OBVIOUS
    <2> USE DEF intake
    <2>0. /\ addressed \in [Message -> BOOLEAN]
          /\ inquiry \in [Message -> Source \cup {"none"}]
      BY DEF Typed, TypeOK
    <2>1. ASSUME NEW p \in Poller, Save(p) PROVE Kept
      BY <2>0, <2>1 DEF Save
    <2>2. ASSUME NEW p \in Poller, StoreContext(p) PROVE Kept
      BY <2>0, <2>2 DEF StoreContext
    <2>3. ASSUME NEW c \in Channel, NEW m \in Message, Promote(c, m) PROVE Kept
      BY <2>0, <2>3 DEF Promote
    <2>4. ASSUME UNCHANGED intake PROVE Kept
      BY <2>4
    <2>5. ASSUME NEW p \in Poller, Dispatches(p) PROVE Kept
      BY <2>4, <2>5 DEF Dispatches, Drop, QueueStayReview, RouteToSession, ConfirmedGuest, Skip,
                       PreBooking
    <2>6. ASSUME NEW p \in Poller, Continues(p) PROVE Kept
      BY <2>1, <2>2, <2>4, <2>5, <2>6
         DEF Continues, NotGuest, ShadowPersist, SaveDuplicate, WriteOutcome, MarkProcessed, Stamp,
             ReadFailures, RecordFailure
    <2>7. ASSUME NEW p \in Poller, Fails(p) PROVE Kept
      BY <2>4, <2>7
         DEF Fails, Missing, IntakeFailed, ShadowPersistFailed, RouteRaised, FallbackRaised,
             SaveFailed, StoreContextFailed, RaisedAfterSave, OutcomeLost, RecordLost, Crash
    <2>8. ASSUME NEW p \in Poller, NEW m \in Message, Start(p, m) PROVE Kept
      BY <2>4, <2>8 DEF Start
    <2>9. ASSUME NEW c \in Channel, NEW m \in Message, PromoteFailed(c, m) PROVE Kept
      BY <2>4, <2>9 DEF PromoteFailed
    <2>10. QED
      BY <2>3, <2>4, <2>6, <2>7, <2>8, <2>9 DEF Next, vars
  <1>2. Typed /\ [Next]_vars => [Kept]_vars
    BY <1>1
  <1>3. Spec => []Typed
    BY TypedInit, TypedStep, PTL DEF Spec
  <1>4. QED
    BY <1>2, <1>3, PTL DEF Spec, InquiryKept
-----------------------------------------------------------------------------
(***************************************************************************)
(* Where the operator finds a message, but for a stay's action that may    *)
(* yet show another; and the attempts that may move it.                    *)
(***************************************************************************)
Found(m) ==
    \/ inquiry[m] # "none"
    \/ m \in sessions
    \/ \E c \in Channel : outcome[c][m] \in Filtered
    \/ m \in dropped
    \/ outcome["email"][m] = "confirmed"
    \/ outcome["email"][m] = "elsewhere" /\ stayAction # NoMessage

Moving == {"route", "save", "context", "outcome"}
Moves(p, m) == msg[p] = m /\ pc[p] \in Moving
Followed(m) == Found(m) \/ \E p \in Poller : Moves(p, m)

(* What an attempt that nothing interrupted holds. *)
AttemptOK(p) ==
    LET m == msg[p] IN
    /\ pc[p] \notin {"stamp", "fail", "record_failure"}
    /\ origin[p] # "recovery"
    /\ pc[p] \in Moving \cup {"mark"} => outcome["email"][m] # "none"
    /\ pc[p] \in {"context", "outcome"} =>
          /\ result[p] \in Filtered \cup {"queued", "elsewhere", "confirmed"}
          /\ result[p] = "queued" => inquiry[m] # "none"
          /\ result[p] = "elsewhere" => m \in sessions \/ stayAction # NoMessage
    /\ pc[p] = "mark" => Followed(m)

AccountOK(m) ==
    /\ record[m].status = "processed" => Followed(m)
    /\ \A p \in Poller : msg[p] = m => AttemptOK(p)

Accounts == \A m \in Message : m \notin harmed => AccountOK(m)

LEMMA AccountsInit == Init => Accounts
  BY NoMessageAssumption DEF Init, Accounts, AccountOK

(* A message that was followed still is, if what it was found by stays or  *)
(* the acting poller moves it, and if that poller moves it still or leaves *)
(* it to be found.                                                         *)
LEMMA FollowedStays ==
  ASSUME NEW m \in Message, NEW p \in Poller, Followed(m),
         \A q \in Poller : q # p => pc'[q] = pc[q] /\ msg'[q] = msg[q],
         Found(m) => Found(m)' \/ (msg'[p] = m /\ pc'[p] \in Moving),
         Moves(p, m) => Found(m)' \/ (msg'[p] = m /\ pc'[p] \in Moving)
  PROVE  Followed(m)'
  <1>1. CASE Found(m)
    BY <1>1 DEF Followed, Moves
  <1>2. CASE ~Found(m)
    <2>1. PICK q \in Poller : Moves(q, m)
      BY <1>2 DEF Followed
    <2>2. CASE q = p
      BY <2>1, <2>2 DEF Followed, Moves
    <2>3. CASE q # p
      BY <2>1, <2>3 DEF Followed, Moves
    <2>4. QED  BY <2>2, <2>3
  <1>3. QED  BY <1>1, <1>2

(* The other pollers' attempts stay as they are.                           *)
LEMMA OthersStay ==
  ASSUME NEW m \in Message, NEW q \in Poller, msg[q] = m, AttemptOK(q),
         pc'[q] = pc[q], msg'[q] = msg[q], origin'[q] = origin[q], result'[q] = result[q],
         outcome["email"][m] # "none" => outcome'["email"][m] # "none",
         inquiry[m] # "none" => inquiry'[m] # "none",
         sessions \subseteq sessions', stayAction # NoMessage => stayAction' # NoMessage,
         Followed(m) => Followed(m)'
  PROVE  AttemptOK(q)'
  BY DEF AttemptOK

(* A step of the poller p.                                                 *)
LEMMA AccountStays ==
  ASSUME NEW m \in Message, NEW p \in Poller, AccountOK(m),
         \A q \in Poller : q # p => /\ pc'[q] = pc[q] /\ msg'[q] = msg[q]
                                    /\ origin'[q] = origin[q] /\ result'[q] = result[q],
         outcome["email"][m] # "none" => outcome'["email"][m] # "none",
         inquiry[m] # "none" => inquiry'[m] # "none",
         sessions \subseteq sessions', stayAction # NoMessage => stayAction' # NoMessage,
         Found(m) => Found(m)' \/ (msg'[p] = m /\ pc'[p] \in Moving),
         Moves(p, m) => Found(m)' \/ (msg'[p] = m /\ pc'[p] \in Moving),
         record'[m].status = "processed" => record[m].status = "processed" \/ Followed(m),
         msg'[p] = m =>
            /\ pc'[p] \notin {"stamp", "fail", "record_failure"}
            /\ origin'[p] # "recovery"
            /\ pc'[p] \in Moving \cup {"mark"} => outcome'["email"][m] # "none"
            /\ pc'[p] \in {"context", "outcome"} =>
                  /\ result'[p] \in Filtered \cup {"queued", "elsewhere", "confirmed"}
                  /\ result'[p] = "queued" => inquiry'[m] # "none"
                  /\ result'[p] = "elsewhere" => m \in sessions' \/ stayAction' # NoMessage
            /\ pc'[p] = "mark" => Followed(m) \/ Found(m)'
  PROVE  AccountOK(m)'
  <1>1. Followed(m) => Followed(m)'
    BY FollowedStays
  <1>2. record'[m].status = "processed" => Followed(m)'
    BY <1>1 DEF AccountOK
  <1>3. ASSUME NEW q \in Poller, msg'[q] = m, q # p PROVE AttemptOK(q)'
    BY <1>1, <1>3, OthersStay DEF AccountOK
  <1>4. ASSUME msg'[p] = m PROVE AttemptOK(p)'
    <2>1. Found(m)' => Followed(m)'
      BY DEF Followed
    <2>2. QED  BY <1>1, <1>4, <2>1 DEF AttemptOK
  <1>5. QED
    BY <1>2, <1>3, <1>4 DEF AccountOK

(* A step of a poller that did not move the message and has left it or     *)
(* taken it up.                                                            *)
LEMMA AccountRests ==
  ASSUME NEW m \in Message, NEW p \in Poller, AccountOK(m), ~Moves(p, m),
         \A q \in Poller : q # p => /\ pc'[q] = pc[q] /\ msg'[q] = msg[q]
                                    /\ origin'[q] = origin[q] /\ result'[q] = result[q],
         pc'[p] \in {"idle", "intake"}, origin'[p] = "brain",
         UNCHANGED <<outcome, inquiry, sessions, stayAction, dropped>>,
         record'[m].status = "processed" => record[m].status = "processed" \/ Followed(m)
  PROVE  AccountOK(m)'
  <1>1. Found(m) => Found(m)'
    BY DEF Found
  <1>2. QED
    BY <1>1, AccountStays DEF Moving

LEMMA AccountsStep == Typed /\ Accounts /\ [Next]_vars => Accounts'
  <1> SUFFICES ASSUME Typed, Accounts, [Next]_vars, NEW m \in Message, m \notin harmed'
               PROVE  AccountOK(m)'
    BY DEF Accounts
  <1> USE NoMessageAssumption DEF history, intake, elsewhere, Harm, Fail
  <1>a. /\ pc \in [Poller -> Place] /\ msg \in [Poller -> Message \cup {NoMessage}]
        /\ origin \in [Poller -> Origin] /\ result \in [Poller -> RouteOutcome]
        /\ inquiry \in [Message -> Source \cup {"none"}]
        /\ record \in [Message -> [status : ProcessingStatus, failures : Nat]]
        /\ outcome \in [Channel -> [Message -> RouteOutcome]]
        /\ stayAction \in Message \cup {NoMessage}
        /\ sessions \subseteq Message /\ dropped \subseteq Message /\ harmed \subseteq Message
    BY DEF Typed, TypeOK
  <1>b. /\ m \notin harmed => AccountOK(m)
        /\ \A p \in Poller : pc[p] # "idle" => msg[p] \in Message
        /\ \A p \in Poller : pc[p] = "idle" => msg[p] = NoMessage /\ origin[p] = "brain"
    BY DEF Typed, Accounts, WorkOK, TypeOK
  <1>1. ASSUME NEW p \in Poller, Missing(p) PROVE AccountOK(m)'
    BY <1>a, <1>b, <1>1, AccountStays
       DEF Missing, Done, Goto,
           AccountOK, AttemptOK, Found, Moves, Moving
  <1>2. ASSUME NEW p \in Poller, RecordLost(p) PROVE AccountOK(m)'
    BY <1>a, <1>b, <1>2, AccountStays
       DEF RecordLost, Done, Goto,
           AccountOK, AttemptOK, Found, Moves, Moving
  <1>3. ASSUME NEW p \in Poller, Crash(p) PROVE AccountOK(m)'
    BY <1>a, <1>b, <1>3, AccountStays
       DEF Crash, Done, Goto,
           AccountOK, AttemptOK, Found, Moves, Moving
  <1>4. ASSUME NEW p \in Poller, NotGuest(p) PROVE AccountOK(m)'
    <2>1. /\ pc[p] = "intake" /\ pc'[p] = "idle" /\ origin'[p] = "brain"
          /\ \A q \in Poller : q # p => /\ pc'[q] = pc[q] /\ msg'[q] = msg[q]
                                     /\ origin'[q] = origin[q] /\ result'[q] = result[q]
          /\ UNCHANGED <<outcome, inquiry, sessions, stayAction, dropped, harmed>>
      BY <1>a, <1>4 DEF NotGuest, Done, Goto
    <2>2. record'[m].status = "processed" => record[m].status = "processed"
      BY <1>a, <1>4 DEF NotGuest
    <2>3. QED
      BY <1>b, <2>1, <2>2, AccountRests DEF Moves, Moving
  <1>5. ASSUME NEW p \in Poller, MarkProcessed(p) PROVE AccountOK(m)'
    <2>1. /\ pc[p] = "mark" /\ pc'[p] = "idle" /\ origin'[p] = "brain"
          /\ \A q \in Poller : q # p => /\ pc'[q] = pc[q] /\ msg'[q] = msg[q]
                                     /\ origin'[q] = origin[q] /\ result'[q] = result[q]
          /\ UNCHANGED <<outcome, inquiry, sessions, stayAction, dropped, harmed>>
          /\ msg[p] # m => record'[m] = record[m]
      BY <1>a, <1>b, <1>5 DEF MarkProcessed, Done, Goto
    <2>2. msg[p] = m => Followed(m)
      BY <1>b, <2>1 DEF AccountOK, AttemptOK
    <2>3. QED
      BY <1>b, <2>1, <2>2, AccountRests DEF Moves, Moving
  <1>6. ASSUME NEW p \in Poller, RecordFailure(p) PROVE AccountOK(m)'
    BY <1>a, <1>b, <1>6, AccountStays
       DEF RecordFailure, Done, Goto,
           AccountOK, AttemptOK, Found, Moves, Moving
  <1>7. ASSUME NEW p \in Poller, IntakeFailed(p) PROVE AccountOK(m)'
    BY <1>a, <1>b, <1>7, AccountStays
       DEF IntakeFailed, Step, Goto, locals,
           AccountOK, AttemptOK, Found, Moves, Moving
  <1>8. ASSUME NEW p \in Poller, ShadowPersist(p) PROVE AccountOK(m)'
    BY <1>a, <1>b, <1>8, AccountStays
       DEF ShadowPersist, Step, Goto, locals, Channel,
           AccountOK, AttemptOK, Found, Moves, Moving
  <1>9. ASSUME NEW p \in Poller, ShadowPersistFailed(p) PROVE AccountOK(m)'
    BY <1>a, <1>b, <1>9, AccountStays
       DEF ShadowPersistFailed, Step, Goto, locals, Channel,
           AccountOK, AttemptOK, Found, Moves, Moving
  <1>10. ASSUME NEW p \in Poller, Drop(p) PROVE AccountOK(m)'
    BY <1>a, <1>b, <1>10, AccountStays
       DEF Drop, Takes, Step, Goto, locals,
           AccountOK, AttemptOK, Found, Moves, Moving
  <1>11. ASSUME NEW p \in Poller, WriteOutcome(p) PROVE AccountOK(m)'
    <2>1. /\ pc[p] = "outcome" /\ pc' = [pc EXCEPT ![p] = "mark"]
          /\ UNCHANGED <<record, inquiry, sessions, stayAction, dropped, harmed, msg, origin, result>>
          /\ outcome' = Outcome("email", msg[p], result[p])
      BY <1>11 DEF WriteOutcome, Step, Goto, locals
    <2>2. /\ \A c \in Channel : outcome'[c][m] =
                IF c = "email" /\ m = msg[p] /\ outcome[c][m] # "none"
                THEN result[p] ELSE outcome[c][m]
          /\ "email" \in Channel
      BY <1>a, <1>b, <2>1 DEF Outcome, Channel
    <2>3. msg[p] = m => Found(m)'
      BY <1>b, <2>1, <2>2 DEF AccountOK, AttemptOK, Moving, Found
    <2>4. msg[p] # m => (Found(m) => Found(m)')
      BY <2>1, <2>2 DEF Found
    <2>5. outcome["email"][m] # "none" => outcome'["email"][m] # "none"
      BY <1>b, <2>1, <2>2 DEF AccountOK, AttemptOK, Moving, Filtered
    <2>6. QED
      BY <1>a, <1>b, <2>1, <2>3, <2>4, <2>5, AccountStays DEF AccountOK, AttemptOK, Moves, Moving
  <1>12. ASSUME NEW p \in Poller, OutcomeLost(p) PROVE AccountOK(m)'
    BY <1>a, <1>b, <1>12, AccountStays
       DEF OutcomeLost, Step, Goto, locals,
           AccountOK, AttemptOK, Found, Moves, Moving
  <1>13. ASSUME NEW p \in Poller, Stamp(p) PROVE AccountOK(m)'
    BY <1>a, <1>b, <1>13, AccountStays
       DEF Stamp, Step, Goto, locals, Outcome, Channel,
           AccountOK, AttemptOK, Found, Moves, Moving
  <1>14. ASSUME NEW p \in Poller, ReadFailures(p) PROVE AccountOK(m)'
    BY <1>a, <1>b, <1>14, AccountStays
       DEF ReadFailures, Goto,
           AccountOK, AttemptOK, Found, Moves, Moving
  <1>15. ASSUME NEW p \in Poller, StoreContext(p) PROVE AccountOK(m)'
    BY <1>a, <1>b, <1>15, AccountStays
       DEF StoreContext, AfterContext, Step, Goto, locals,
           AccountOK, AttemptOK, Found, Moves, Moving
  <1>16. ASSUME NEW p \in Poller, StoreContextFailed(p) PROVE AccountOK(m)'
    BY <1>a, <1>b, <1>16, AccountStays
       DEF StoreContextFailed, AfterContext, Step, Goto, locals,
           AccountOK, AttemptOK, Found, Moves, Moving
  <1>17. ASSUME NEW p \in Poller, QueueStayReview(p) PROVE AccountOK(m)'
    BY <1>a, <1>b, <1>17, AccountStays
       DEF QueueStayReview, Takes, Report, Goto,
           AccountOK, AttemptOK, Found, Moves, Moving
  <1>18. ASSUME NEW p \in Poller, RouteToSession(p) PROVE AccountOK(m)'
    BY <1>a, <1>b, <1>18, AccountStays
       DEF RouteToSession, Takes, Report, Goto,
           AccountOK, AttemptOK, Found, Moves, Moving
  <1>19. ASSUME NEW p \in Poller, ConfirmedGuest(p) PROVE AccountOK(m)'
    BY <1>a, <1>b, <1>19, AccountStays
       DEF ConfirmedGuest, Takes, Report, Goto,
           AccountOK, AttemptOK, Found, Moves, Moving
  <1>20. ASSUME NEW p \in Poller, Skip(p) PROVE AccountOK(m)'
    BY <1>a, <1>b, <1>20, AccountStays
       DEF Skip, Takes, Report, Goto, Filtered,
           AccountOK, AttemptOK, Found, Moves, Moving
  <1>21. ASSUME NEW p \in Poller, RouteRaised(p) PROVE AccountOK(m)'
    BY <1>a, <1>b, <1>21, AccountStays
       DEF RouteRaised, Recover, Goto,
           AccountOK, AttemptOK, Found, Moves, Moving
  <1>22. ASSUME NEW p \in Poller, FallbackRaised(p) PROVE AccountOK(m)'
    BY <1>a, <1>b, <1>22, AccountStays
       DEF FallbackRaised, Recover, Goto,
           AccountOK, AttemptOK, Found, Moves, Moving
  <1>23. ASSUME NEW p \in Poller, RaisedAfterSave(p) PROVE AccountOK(m)'
    BY <1>a, <1>b, <1>23, AccountStays
       DEF RaisedAfterSave, Goto,
           AccountOK, AttemptOK, Found, Moves, Moving
  <1>24. ASSUME NEW p \in Poller, Save(p) PROVE AccountOK(m)'
    BY <1>a, <1>b, <1>24, AccountStays
       DEF Save, AfterSave, Goto, Audited, SaveOutcome, SaveChannel, Channel, Filtered, Origin,
           AccountOK, AttemptOK, Found, Moves, Moving
  <1>25. ASSUME NEW p \in Poller, SaveDuplicate(p) PROVE AccountOK(m)'
    BY <1>a, <1>b, <1>25, AccountStays
       DEF SaveDuplicate, AfterSave, Goto, Audited, SaveOutcome, SaveChannel, Channel, Filtered,
           Origin, AccountOK, AttemptOK, Found, Moves, Moving
  <1>26. ASSUME NEW p \in Poller, SaveFailed(p) PROVE AccountOK(m)'
    BY <1>a, <1>b, <1>26, AccountStays
       DEF SaveFailed, AfterSave, Goto, Audited, SaveOutcome, SaveChannel, Channel, Filtered,
           Origin, AccountOK, AttemptOK, Found, Moves, Moving
  <1>27. ASSUME NEW p \in Poller, NEW n \in Message, Start(p, n) PROVE AccountOK(m)'
    <2>1. /\ pc[p] = "idle" /\ pc'[p] = "intake" /\ UNCHANGED <<origin, record>>
          /\ \A q \in Poller : q # p => /\ pc'[q] = pc[q] /\ msg'[q] = msg[q]
                                     /\ origin'[q] = origin[q] /\ result'[q] = result[q]
          /\ UNCHANGED <<outcome, inquiry, sessions, stayAction, dropped, harmed>>
      BY <1>a, <1>27 DEF Start, Goto, locals
    <2>2. AccountOK(m) /\ ~Moves(p, m) /\ origin'[p] = "brain" /\ pc'[p] \in {"idle", "intake"}
      BY <1>b, <2>1 DEF Moves, Moving
    <2>3. record'[m].status = "processed" => record[m].status = "processed"
      BY <2>1
    <2>4. QED
      BY <2>1, <2>2, <2>3, AccountRests
  <1>28. ASSUME NEW p \in Poller, NEW k \in {"brain", "fallback"}, PreBooking(p, k)
         PROVE  AccountOK(m)'
    BY <1>a, <1>b, <1>28, AccountStays
       DEF PreBooking, Takes, Goto, AccountOK, AttemptOK, Found, Moves, Moving
  <1>29. ASSUME NEW c \in Channel, NEW n \in Message, Promote(c, n) \/ PromoteFailed(c, n)
         PROVE  AccountOK(m)'
    <2>1. /\ UNCHANGED <<record, sessions, stayAction, pc, msg, origin, result, dropped>>
          /\ m \notin harmed
          /\ inquiry[m] # "none" => inquiry'[m] # "none"
          /\ outcome["email"][m] # "none" => outcome'["email"][m] # "none"
      BY <1>a, <1>29 DEF Promote, PromoteFailed, Rescued, locals, Channel
    <2>2. n = m => inquiry'[m] # "none"
      BY <1>a, <1>29 DEF Promote, PromoteFailed
    <2>3. n # m => inquiry'[m] = inquiry[m] /\ \A d \in Channel : outcome'[d][m] = outcome[d][m]
      BY <1>a, <1>29 DEF Promote, PromoteFailed, Rescued, Channel
    <2>4. Followed(m) => Followed(m)'
      BY <2>1, <2>2, <2>3 DEF Followed, Found, Moves, Channel
    <2>5. QED
      BY <1>b, <2>1, <2>4 DEF AccountOK, AttemptOK
  <1>30. CASE UNCHANGED vars
    BY <1>b, <1>30 DEF vars, locals, AccountOK, AttemptOK, Followed, Found, Moves
  <1>31. QED
    BY <1>1, <1>2, <1>3, <1>4, <1>5, <1>6, <1>7, <1>8, <1>9, <1>10, <1>11, <1>12, <1>13, <1>14, <1>15,
       <1>16, <1>17, <1>18, <1>19, <1>20, <1>21, <1>22, <1>23, <1>24, <1>25, <1>26, <1>27, <1>28,
       <1>29, <1>30
       DEF Next, Continues, Fails, Dispatches

(* Unless an attempt was interrupted or lost a write, what is marked as    *)
(* processed, whatever its route outcome, can be found.                    *)
THEOREM ProcessedIsAccountedHolds == Spec => []ProcessedIsAccounted
  <1>1. Spec => [](Typed /\ Accounts)
    BY TypedInit, TypedStep, AccountsInit, AccountsStep, PTL DEF Spec
  <1>2. Accounts => ProcessedIsAccounted
    BY DEF Accounts, AccountOK, Followed, Found, Moves, Idle, ProcessedIsAccounted, OnSurface
  <1>3. QED
    BY <1>1, <1>2, PTL
-----------------------------------------------------------------------------
=============================================================================
