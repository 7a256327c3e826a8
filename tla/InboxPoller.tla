---------------------------- MODULE InboxPoller ----------------------------
(***************************************************************************)
(* The Gmail inbox poller and the pre-booking intake it drives             *)
(* (gmail_inbox_poller.py, email_pipeline.py, email_dispatch.py,           *)
(* inquiry_persistence.py, prebooking_inquiry_store.py), the audit row of  *)
(* every message (message_event_store.py) and the operator's rescue of a   *)
(* filtered message (operator_filtered_recovery.py).                       *)
(*                                                                         *)
(* Pollers are the Celery schedule, the push-triggered task and the        *)
(* embedded worker: nothing keeps two of them off one mailbox.  One action *)
(* is one committed transaction or one decision between two of them.  What *)
(* a mail is, and what the model makes of it, may differ from one attempt  *)
(* to the next, so each attempt chooses its route.                         *)
(***************************************************************************)
EXTENDS FiniteSets, Naturals

CONSTANTS
    Poller,         \* overlapping poll runs for one operator
    Message,        \* Gmail messages the queries list
    Routes,         \* the routes this instance takes, a subset of Route
    MaxAttempts,    \* _MAX_PARSE_FAILURE_ATTEMPTS
    MaxFaults,      \* bound: errors and restarts in one behaviour
    NoMessage       \* a poller between two messages; an empty action slot

Route == {"drop", "stay", "session", "confirmed", "skip", "brain", "fallback"}

ASSUME PollerAssumption == IsFiniteSet(Poller)
ASSUME RoutesAssumption == Routes \subseteq Route
ASSUME AttemptsAssumption == MaxAttempts \in Nat \ {0}
ASSUME FaultsAssumption == MaxFaults \in Nat
ASSUME NoMessageAssumption == NoMessage \notin Message

VARIABLES
    record,         \* gmail_processed_messages: status and failure_count
    outcome,        \* message_normalizations.route_outcome, by source_channel
    inquiry,        \* pre_booking_inquiries: who inserted the message's row
    addressed,      \* that row has the guest's address and thread
    sessions,       \* messages in a guest session: persisted, or answered there
    stayAction,     \* the stay's one ops_review action: the message it shows
    pc,             \* where a poller stands
    msg,            \* the message it works on
    origin,         \* who asked for the save: the brain, a dispatch, a recovery
    inserted,       \* the row it saved is its own
    result,         \* the route outcome it has yet to write
    count,          \* the failure_count it read
    failed,         \* history: failed attempts
    dropped,        \* history: messages an attempt dropped
    harmed,         \* history: an attempt was interrupted or lost a write
    faults          \* errors and restarts so far

intake == <<inquiry, addressed>>
elsewhere == <<sessions, stayAction>>
locals == <<origin, inserted, result, count>>
history == <<failed, dropped, harmed>>
vars == <<record, outcome, intake, elsewhere, pc, msg, locals, history, faults>>
-----------------------------------------------------------------------------
(***************************************************************************)
(* Types.  Route outcomes the operator's surfaces treat alike are one.     *)
(***************************************************************************)
ProcessingStatus == {"none", "processed", "non_guest", "failed_retryable", "quarantined"}
Channel == {"email", "gmail"}

(* FILTERED_ROUTE_OUTCOMES.  "skipped" stands for the gate's, the system    *)
(* events' and the session router's outcomes.                              *)
Filtered == {"save_failed", "fallback", "route_exception", "skipped"}

(* "none": no row.  "open": NULL or shadow_persisted.  "queued": saved, new *)
(* or duplicate.  "elsewhere": a session, a stay review or an auto reply.  *)
RouteOutcome == Filtered \cup {"none", "open", "queued", "elsewhere", "confirmed", "rescued"}

Origin == {"brain", "dispatch", "recovery"}
Source == {"brain", "fallback", "rescue"}
Place == {"idle", "intake", "route", "save", "context", "outcome", "stamp", "fail",
          "record_failure", "mark"}

TypeOK ==
    /\ record \in [Message -> [status : ProcessingStatus, failures : Nat]]
    /\ outcome \in [Channel -> [Message -> RouteOutcome]]
    /\ inquiry \in [Message -> Source \cup {"none"}]
    /\ addressed \in [Message -> BOOLEAN]
    /\ sessions \subseteq Message
    /\ stayAction \in Message \cup {NoMessage}
    /\ pc \in [Poller -> Place]
    /\ msg \in [Poller -> Message \cup {NoMessage}]
    /\ origin \in [Poller -> Origin]
    /\ inserted \in [Poller -> BOOLEAN]
    /\ result \in [Poller -> RouteOutcome]
    /\ count \in [Poller -> Nat]
    /\ failed \in [Message -> Nat]
    /\ dropped \subseteq Message
    /\ harmed \subseteq Message
    /\ faults \in 0 .. MaxFaults

Init ==
    /\ record = [m \in Message |-> [status |-> "none", failures |-> 0]]
    /\ outcome = [c \in Channel |-> [m \in Message |-> "none"]]
    /\ inquiry = [m \in Message |-> "none"]
    /\ addressed = [m \in Message |-> FALSE]
    /\ sessions = {} /\ stayAction = NoMessage
    /\ pc = [p \in Poller |-> "idle"]
    /\ msg = [p \in Poller |-> NoMessage]
    /\ origin = [p \in Poller |-> "brain"]
    /\ inserted = [p \in Poller |-> FALSE]
    /\ result = [p \in Poller |-> "none"]
    /\ count = [p \in Poller |-> 0]
    /\ failed = [m \in Message |-> 0]
    /\ dropped = {} /\ harmed = {}
    /\ faults = 0
-----------------------------------------------------------------------------
(***************************************************************************)
(* Helpers.                                                                *)
(***************************************************************************)
Goto(p, place) == pc' = [pc EXCEPT ![p] = place]

(* The poller goes on with its next message. *)
Done(p) ==
    /\ Goto(p, "idle")
    /\ msg' = [msg EXCEPT ![p] = NoMessage]
    /\ origin' = [origin EXCEPT ![p] = "brain"]
    /\ inserted' = [inserted EXCEPT ![p] = FALSE]
    /\ result' = [result EXCEPT ![p] = "none"]
    /\ count' = [count EXCEPT ![p] = 0]

(* The step goes to another place and changes nothing else of the poller's. *)
Step(p, place) == Goto(p, place) /\ UNCHANGED <<msg, locals>>

(* The dispatch returns the route outcome o; writing it comes next. *)
Report(p, o) ==
    /\ Goto(p, "outcome")
    /\ result' = [result EXCEPT ![p] = o]
    /\ UNCHANGED <<msg, origin, inserted, count>>

(* The step is an error or a restart ... *)
Fault == faults < MaxFaults /\ faults' = faults + 1
NoFault == UNCHANGED faults

(* ... that interrupts the work on m or loses a write for it. *)
Harm(m) == Fault /\ harmed' = harmed \cup {m}

(* An attempt to process m failed. *)
Fail(m) == Harm(m) /\ failed' = [failed EXCEPT ![m] = @ + 1]

(* An UPDATE of the route outcome: it finds a row or changes nothing. *)
Outcome(c, m, o) ==
    [outcome EXCEPT ![c][m] = IF @ = "none" THEN @ ELSE o]

(* _is_already_processed. *)
Settled(m) ==
    \/ record[m].status \in {"processed", "non_guest", "quarantined"}
    \/ record[m].status = "failed_retryable" /\ record[m].failures >= MaxAttempts
-----------------------------------------------------------------------------
(***************************************************************************)
(* Taking a message in.                                                    *)
(***************************************************************************)
(* The poller comes to m, which the record says is not done; when reading  *)
(* the record fails, it takes m to be not done.                            *)
Start(p, m) ==
    /\ pc[p] = "idle"
    /\ \/ ~Settled(m) /\ NoFault
       \/ Fault
    /\ Goto(p, "intake")
    /\ msg' = [msg EXCEPT ![p] = m]
    /\ UNCHANGED <<record, outcome, intake, elsewhere, locals, history>>

(* Gmail has no such message any more (404). *)
Missing(p) ==
    /\ pc[p] = "intake"
    /\ Fault
    /\ Done(p)
    /\ UNCHANGED <<record, outcome, intake, elsewhere, history>>

(* Fetching, parsing or enriching raised, or the extractor's answer did    *)
(* not parse.                                                              *)
IntakeFailed(p) ==
    /\ pc[p] = "intake"
    /\ Fail(msg[p])
    /\ Step(p, "fail")
    /\ UNCHANGED <<record, outcome, intake, elsewhere, dropped>>

(* A mail from before the go-live date, or one no parser takes for a       *)
(* guest's: the layer-1 prefilter's drops end here too.  The record may be *)
(* lost.                                                                   *)
NotGuest(p) ==
    /\ pc[p] = "intake"
    /\ \/ record' = [record EXCEPT ![msg[p]] = [status |-> "non_guest", failures |-> 0]]
          /\ NoFault
       \/ UNCHANGED record /\ Fault
    /\ Done(p)
    /\ UNCHANGED <<outcome, intake, elsewhere, history>>

(* persist_canonical_inbound_message, then the outcome "shadow_persisted"  *)
(* over whatever outcome an earlier attempt wrote.                         *)
ShadowPersist(p) ==
    /\ pc[p] = "intake"
    /\ outcome' = [outcome EXCEPT !["email"][msg[p]] = "open"]
    /\ Step(p, "route")
    /\ UNCHANGED <<record, intake, elsewhere, history>>
    /\ NoFault

(* It fails open: without a row, or with the row but not the outcome. *)
ShadowPersistFailed(p) ==
    /\ pc[p] = "intake"
    /\ \/ UNCHANGED outcome
       \/ /\ outcome["email"][msg[p]] = "none"
          /\ outcome' = [outcome EXCEPT !["email"][msg[p]] = "open"]
    /\ Harm(msg[p])
    /\ Step(p, "route")
    /\ UNCHANGED <<record, intake, elsewhere, failed, dropped>>
-----------------------------------------------------------------------------
(***************************************************************************)
(* Routing.                                                                *)
(***************************************************************************)
(* The attempt takes the route k. *)
Takes(p, k) == pc[p] = "route" /\ k \in Routes

(* route_kind "drop": no outcome is written. *)
Drop(p) ==
    /\ Takes(p, "drop")
    /\ dropped' = dropped \cup {msg[p]}
    /\ Step(p, "mark")
    /\ UNCHANGED <<record, outcome, intake, elsewhere, failed, harmed, faults>>

(* An active stay holds it in its ops_review action, of which there is one: *)
(* ON CONFLICT (workflow_type, workflow_ref, action_type) DO UPDATE.       *)
QueueStayReview(p) ==
    /\ Takes(p, "stay")
    /\ stayAction' = msg[p]
    /\ Report(p, "elsewhere")
    /\ UNCHANGED <<record, outcome, intake, sessions, history, faults>>

(* An active stay answers it at once, or a later lifecycle stage or another *)
(* intent has it persisted: persist_inbound_from_inquiry.                  *)
RouteToSession(p) ==
    /\ Takes(p, "session")
    /\ sessions' = sessions \cup {msg[p]}
    /\ Report(p, "elsewhere")
    /\ UNCHANGED <<record, outcome, intake, stayAction, history, faults>>

(* A reservation matched. *)
ConfirmedGuest(p) ==
    /\ Takes(p, "confirmed")
    /\ Report(p, "confirmed")
    /\ UNCHANGED <<record, outcome, intake, elsewhere, history, faults>>

(* The gate skipped it, it is a system event of no consequence, or its     *)
(* session could not be written.                                           *)
Skip(p) ==
    /\ Takes(p, "skip")
    /\ Report(p, "skipped")
    /\ UNCHANGED <<record, outcome, intake, elsewhere, history, faults>>

(* A pre-booking inquiry: drafted by the brain, or, with the brain off or  *)
(* failing, or for the gate's review, saved as a fallback.                 *)
PreBooking(p, k) ==
    /\ Takes(p, k)
    /\ Goto(p, "save")
    /\ origin' = [origin EXCEPT ![p] = IF k = "brain" THEN "brain" ELSE "dispatch"]
    /\ UNCHANGED <<record, outcome, intake, elsewhere, msg, inserted, result, count, history,
                   faults>>

(* A dispatch raised.  What looks like an inquiry is recovered as a         *)
(* fallback, anything else is stamped and fails.                           *)
Recover(p) ==
    /\ Goto(p, "save")
    /\ origin' = [origin EXCEPT ![p] = "recovery"]

RouteRaised(p) ==
    /\ pc[p] = "route"
    /\ Harm(msg[p])
    /\ Recover(p) \/ (Goto(p, "stamp") /\ UNCHANGED origin)
    /\ UNCHANGED <<record, outcome, intake, elsewhere, msg, inserted, result, count, failed,
                   dropped>>

(* A fallback raised: dispatch_pre_booking's outer handler saves another   *)
(* one or raises, and the poller recovers once; a recovery that raised     *)
(* fails.                                                                  *)
FallbackRaised(p) ==
    /\ pc[p] = "save" /\ origin[p] # "brain"
    /\ Harm(msg[p])
    /\ \/ origin[p] = "dispatch" /\ (Recover(p) \/ UNCHANGED <<pc, origin>>)
       \/ Goto(p, "stamp") /\ UNCHANGED origin
    /\ UNCHANGED <<record, outcome, intake, elsewhere, msg, inserted, result, count, failed,
                   dropped>>
-----------------------------------------------------------------------------
(***************************************************************************)
(* Saving.  The brain's and the fallback's rows have the same key, the     *)
(* Gmail thread and message: ON CONFLICT (thread_id, message_id) DO        *)
(* NOTHING.  The fallback's audit row has source_channel "gmail".          *)
(***************************************************************************)
SaveChannel(p) == IF origin[p] = "brain" THEN "email" ELSE "gmail"
(* Mutant: the save's status is not looked at. *)
SaveOutcome_Optimistic(p, o) == IF origin[p] = "brain" THEN "queued" ELSE "fallback"

SaveOutcome(p, o) == IF origin[p] = "brain" THEN o ELSE "fallback"

(* persist_pre_booking_inquiry_with_normalization: the audit row first,    *)
(* then the inquiry, then the outcome, which may be lost.                  *)
Audited(p, o) ==
    LET c == SaveChannel(p) IN
    outcome' \in {[outcome EXCEPT ![c][msg[p]] = SaveOutcome(p, o)],
                  [outcome EXCEPT ![c][msg[p]] = IF @ = "none" THEN "open" ELSE @]}

AfterSave(p, o) ==
    /\ Goto(p, "context")
    /\ result' = [result EXCEPT ![p] = SaveOutcome(p, o)]
    /\ UNCHANGED <<msg, origin, count>>

Save(p) ==
    /\ pc[p] = "save"
    /\ inquiry[msg[p]] = "none"
    /\ inquiry' = [inquiry EXCEPT ![msg[p]] = IF origin[p] = "brain" THEN "brain" ELSE "fallback"]
    /\ inserted' = [inserted EXCEPT ![p] = TRUE]
    /\ Audited(p, "queued")
    /\ AfterSave(p, "queued")
    /\ UNCHANGED <<record, addressed, elsewhere, history, faults>>

(* Mutant: ON CONFLICT DO UPDATE. *)
SaveDuplicate_Overwrites(p) ==
    /\ pc[p] = "save"
    /\ inquiry[msg[p]] # "none"
    /\ inquiry' = [inquiry EXCEPT ![msg[p]] = IF origin[p] = "brain" THEN "brain" ELSE "fallback"]
    /\ Audited(p, "queued")
    /\ AfterSave(p, "queued")
    /\ UNCHANGED <<record, addressed, elsewhere, inserted, history, faults>>

SaveDuplicate(p) ==
    /\ pc[p] = "save"
    /\ inquiry[msg[p]] # "none"
    /\ Audited(p, "queued")
    /\ AfterSave(p, "queued")
    /\ UNCHANGED <<record, intake, elsewhere, inserted, history, faults>>

(* Rolled back, and reported as save_failed; the fallback looks at no      *)
(* status.  Without an audit row nothing is tried.                         *)
SaveFailed(p) ==
    /\ pc[p] = "save"
    /\ Audited(p, "save_failed") \/ UNCHANGED outcome
    /\ AfterSave(p, "save_failed")
    /\ Fault
    /\ UNCHANGED <<record, intake, elsewhere, inserted, history>>

(* _store_gmail_thread_context: UPDATE ... WHERE draft_id = its own, a row  *)
(* there is only if its own INSERT made it.  A recovery is then done.      *)
AfterContext(p) == Step(p, IF origin[p] = "recovery" THEN "mark" ELSE "outcome")

(* Mutant: a fallback's thread is not stored. *)
StoreContext_BrainOnly(p) ==
    /\ pc[p] = "context"
    /\ addressed' = [addressed EXCEPT ![msg[p]] = @ \/ (inserted[p] /\ origin[p] = "brain")]
    /\ AfterContext(p)
    /\ UNCHANGED <<record, outcome, inquiry, elsewhere, history, faults>>

StoreContext(p) ==
    /\ pc[p] = "context"
    /\ addressed' = [addressed EXCEPT ![msg[p]] = @ \/ inserted[p]]
    /\ AfterContext(p)
    /\ UNCHANGED <<record, outcome, inquiry, elsewhere, history, faults>>

StoreContextFailed(p) ==
    /\ pc[p] = "context"
    /\ Harm(msg[p])
    /\ AfterContext(p)
    /\ UNCHANGED <<record, outcome, intake, elsewhere, failed, dropped>>

(* The brain's save is behind it and the dispatch raises, before or after   *)
(* the outcome is written: a fallback.                                     *)
RaisedAfterSave(p) ==
    /\ pc[p] \in {"context", "outcome", "mark"}
    /\ origin[p] = "brain" /\ result[p] \in {"queued", "save_failed"}
    /\ Harm(msg[p])
    /\ Goto(p, "save")
    /\ origin' = [origin EXCEPT ![p] = "dispatch"]
    /\ inserted' = [inserted EXCEPT ![p] = FALSE]
    /\ result' = [result EXCEPT ![p] = "none"]
    /\ UNCHANGED <<record, outcome, intake, elsewhere, msg, count, failed, dropped>>
-----------------------------------------------------------------------------
(***************************************************************************)
(* The outcome and the record.                                             *)
(***************************************************************************)
WriteOutcome(p) ==
    /\ pc[p] = "outcome"
    /\ outcome' = Outcome("email", msg[p], result[p])
    /\ Step(p, "mark")
    /\ UNCHANGED <<record, intake, elsewhere, history, faults>>

OutcomeLost(p) ==
    /\ pc[p] = "outcome"
    /\ Harm(msg[p])
    /\ Step(p, "mark")
    /\ UNCHANGED <<record, outcome, intake, elsewhere, failed, dropped>>

(* Mutant: ON CONFLICT DO NOTHING. *)
MarkProcessed_DoNothing(p) ==
    /\ pc[p] = "mark"
    /\ record' = [record EXCEPT ![msg[p]] =
                     IF @.status = "none" THEN [status |-> "processed", failures |-> 0] ELSE @]
    /\ Done(p)
    /\ UNCHANGED <<outcome, intake, elsewhere, history, faults>>

(* Whatever the route outcome was, a save that failed included. *)
MarkProcessed(p) ==
    /\ pc[p] = "mark"
    /\ record' = [record EXCEPT ![msg[p]] = [status |-> "processed", failures |-> 0]]
    /\ Done(p)
    /\ UNCHANGED <<outcome, intake, elsewhere, history, faults>>

(* _record_processing_state swallows its errors. *)
RecordLost(p) ==
    /\ pc[p] \in {"mark", "record_failure"}
    /\ Harm(msg[p])
    /\ Done(p)
    /\ UNCHANGED <<record, outcome, intake, elsewhere, failed, dropped>>

(* The route exception is stamped, best effort, and raised again. *)
Stamp(p) ==
    /\ pc[p] = "stamp"
    /\ outcome' \in {outcome, Outcome("email", msg[p], "route_exception")}
    /\ failed' = [failed EXCEPT ![msg[p]] = @ + 1]
    /\ Step(p, "fail")
    /\ UNCHANGED <<record, intake, elsewhere, dropped, harmed, faults>>

(* _record_retryable_failure reads the count; on an error, or in a session *)
(* the failure left in an aborted transaction, it counts from nothing.     *)
ReadFailures(p) ==
    /\ pc[p] = "fail"
    /\ \/ count' = [count EXCEPT ![p] = record[msg[p]].failures] /\ NoFault
       \/ count' = [count EXCEPT ![p] = 0] /\ Fault
    /\ Goto(p, "record_failure")
    /\ UNCHANGED <<record, outcome, intake, elsewhere, msg, origin, inserted, result, history>>

(* Mutants: quarantined one failure early; a status nobody knows. *)
RecordFailure_Early(p) ==
    /\ pc[p] = "record_failure"
    /\ LET next == count[p] + 1 IN
       record' = [record EXCEPT ![msg[p]] =
           [status   |-> IF next + 1 >= MaxAttempts THEN "quarantined" ELSE "failed_retryable",
            failures |-> next]]
    /\ Done(p)
    /\ UNCHANGED <<outcome, intake, elsewhere, history, faults>>

RecordFailure_Failed(p) ==
    /\ pc[p] = "record_failure"
    /\ record' = [record EXCEPT ![msg[p]] = [status |-> "failed", failures |-> count[p] + 1]]
    /\ Done(p)
    /\ UNCHANGED <<outcome, intake, elsewhere, history, faults>>

(* ... and then writes, over whatever the record says by then. *)
RecordFailure(p) ==
    /\ pc[p] = "record_failure"
    /\ LET next == count[p] + 1 IN
       record' = [record EXCEPT ![msg[p]] =
           [status   |-> IF next >= MaxAttempts THEN "quarantined" ELSE "failed_retryable",
            failures |-> next]]
    /\ Done(p)
    /\ UNCHANGED <<outcome, intake, elsewhere, history, faults>>

(* The process stops. *)
Crash(p) ==
    /\ pc[p] # "idle"
    /\ Harm(msg[p])
    /\ Done(p)
    /\ UNCHANGED <<record, outcome, intake, elsewhere, failed, dropped>>
-----------------------------------------------------------------------------
(***************************************************************************)
(* promote_filtered_message: any recorded message, through the same save.  *)
(***************************************************************************)
Rescued(c, m) == [outcome EXCEPT ![c][m] = "rescued"]

Promote(c, m) ==
    /\ outcome[c][m] # "none"
    /\ inquiry' = [inquiry EXCEPT ![m] = IF @ = "none" THEN "rescue" ELSE @]
    /\ outcome' \in {outcome, Rescued(c, m)}
    /\ UNCHANGED <<record, addressed, elsewhere, pc, msg, locals, history, faults>>

(* The insert is rolled back, and the outcome is written all the same. *)
PromoteFailed(c, m) ==
    /\ outcome[c][m] # "none"
    /\ outcome' = Rescued(c, m)
    /\ Harm(m)
    /\ UNCHANGED <<record, intake, elsewhere, pc, msg, locals, failed, dropped>>
-----------------------------------------------------------------------------
Dispatches(p) ==
    \/ Drop(p) \/ QueueStayReview(p) \/ RouteToSession(p)
    \/ ConfirmedGuest(p) \/ Skip(p)
    \/ \E k \in {"brain", "fallback"} : PreBooking(p, k)

(* A poller gets on with its message. *)
Continues(p) ==
    \/ NotGuest(p) \/ ShadowPersist(p)
    \/ Dispatches(p)
    \/ Save(p) \/ SaveDuplicate(p) \/ StoreContext(p)
    \/ WriteOutcome(p) \/ MarkProcessed(p)
    \/ Stamp(p) \/ ReadFailures(p) \/ RecordFailure(p)

Fails(p) ==
    \/ Missing(p) \/ IntakeFailed(p) \/ ShadowPersistFailed(p) \/ RouteRaised(p) \/ FallbackRaised(p)
    \/ SaveFailed(p) \/ StoreContextFailed(p) \/ RaisedAfterSave(p)
    \/ OutcomeLost(p) \/ RecordLost(p) \/ Crash(p)

Next ==
    \/ \E p \in Poller :
          \/ \E m \in Message : Start(p, m)
          \/ Continues(p)
          \/ Fails(p)
    \/ \E c \in Channel, m \in Message : Promote(c, m) \/ PromoteFailed(c, m)

Spec == Init /\ [][Next]_vars

(* A message that is not done stays listed (it is unread, or recent), some *)
(* poll comes to it, and a poll that runs gets on.                         *)
Fairness ==
    /\ \A p \in Poller : WF_vars(Continues(p) \/ Fails(p))
    /\ \A m \in Message : WF_vars(\E p \in Poller : Start(p, m))

FairSpec == Spec /\ Fairness
-----------------------------------------------------------------------------
(***************************************************************************)
(* What the intake promises.                                               *)
(***************************************************************************)
Idle(m) == \A p \in Poller : msg[p] # m

(* Some surface shows the message to the operator: the inquiry queue, the  *)
(* guest's session, the stay's open action or the filtered list.           *)
OnSurface(m) ==
    \/ inquiry[m] # "none"
    \/ m \in sessions
    \/ stayAction = m
    \/ \E c \in Channel : outcome[c][m] \in Filtered

(* A message is quarantined, and so never looked at again, only after that *)
(* many of its own attempts failed, though overlapping polls read and      *)
(* write the count without a lock and lost writes restart it.              *)
QuarantineIsEarned ==
    \A m \in Message : record[m].status = "quarantined" => failed[m] >= MaxAttempts

(* _mark_processed comes after every route outcome, a failed save          *)
(* included.  Still, unless an attempt was interrupted or a write was lost,*)
(* a processed message nobody works on is on a surface, was dropped, or    *)
(* is a confirmed guest's; a held stay mail has its stay's action waiting. *)
ProcessedIsAccounted ==
    \A m \in Message :
        (record[m].status = "processed" /\ Idle(m) /\ m \notin harmed) =>
            \/ OnSurface(m)
            \/ m \in dropped
            \/ outcome["email"][m] = "confirmed"
            \/ outcome["email"][m] = "elsewhere" /\ stayAction # NoMessage

(* An approval can reach the guest: the inquiry of a mail has the guest's  *)
(* address, or the poller that inserted it is about to store it, unless an *)
(* attempt was interrupted in between or the write was lost.               *)
AddressedUnlessHarmed ==
    \A m \in Message :
        (inquiry[m] \in {"brain", "fallback"} /\ ~addressed[m] /\ m \notin harmed) =>
            \E p \in Poller : pc[p] = "context" /\ msg[p] = m /\ inserted[p]

(* Processing a message again, by an overlapping poll, a retry, a fallback *)
(* or a rescue, never replaces the inquiry an operator may be working on,  *)
(* nor takes its address away.                                             *)
InquiryKept ==
    [][\A m \in Message : inquiry[m] # "none" =>
          inquiry'[m] = inquiry[m] /\ (addressed[m] => addressed'[m])]_vars

(* Every listed message is in the end done: processed, not a guest's, or   *)
(* quarantined, and stays so once the errors stop, also when a poll that   *)
(* failed late writes over a record that was done.                         *)
Settles == \A m \in Message : <>[]Settled(m)

(* operator_filtered_recovery.py:38-39 of the rescue: it "just moves a row *)
(* from "recorded" to "actionable"": a message marked as rescued, which    *)
(* takes it off the filtered list, is in the queue.                        *)
RescuedIsQueued ==
    \A m \in Message :
        (\E c \in Channel : outcome[c][m] = "rescued") => inquiry[m] # "none"
=============================================================================
