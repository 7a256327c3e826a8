-------------------------- MODULE PreBookingReview --------------------------
(***************************************************************************)
(* The operator review of drafted replies to pre-booking guests:           *)
(* approve, edit-and-send, reject, bind-property, regenerate and assign    *)
(* (app/api/v1/endpoints/operator_prebooking.py), the knowledge-base retry *)
(* of held inquiries (kb_retry_handler.py), and the queue read model those *)
(* calls and the dashboard's poll refresh (prebooking_queue_service.py).   *)
(*                                                                         *)
(* A Request is one invocation of a handler.  Its program counter stops at *)
(* every await where another invocation can change what it has read: one   *)
(* action here is one database transaction, one call of the mail provider  *)
(* or one publication.  Guest names, confidences, flags and the other      *)
(* columns that no step decides on are left out of an inquiry.             *)
(***************************************************************************)
EXTENDS FiniteSets, Naturals

CONSTANTS
    Draft,          \* draft_ids present in pre_booking_inquiries
    Request,        \* handler invocations; each is used once
    Handlers,       \* which handlers the requests call: the combinations to look at
    Text,           \* reply texts
    Drafted,        \* those an inquiry may come with: texts are alike, one is enough
    Property,       \* property codes
    Operator,       \* operators a draft can be assigned to
    NoText,         \* final_reply IS NULL
    NoProperty,     \* property_external_id is empty
    NoOperator,     \* assigned_operator_id IS NULL
    NoRow           \* no row selected, or no row in the queue read model

Kind == {"approve", "edit", "reject", "bind", "regenerate", "kb_retry", "assign"}

ASSUME HandlersAssumption == Handlers \subseteq [Request -> Kind] /\ Drafted \subseteq Text

VARIABLES
    inquiry,        \* pre_booking_inquiries, by draft
    queue,          \* operator_prebooking_queue_read_models, by draft
    assignee,       \* its assigned_operator_id column
    gapResolved,    \* the draft's concierge_knowledge_gaps are resolved
    learned,        \* operator_draft_events
    mails,          \* replies the mail provider delivered to guests
    kind,           \* which handler each request calls
    target,         \* the draft it calls it for
    pc,             \* where it stands
    row,            \* the inquiry it selected when it started
    view,           \* the queue row it computed and has not written yet
    reply,          \* the text it sends
    gapWrite,       \* it resolved the gaps in its open transaction
    response,       \* what it answered
    decision,       \* the outcome it committed
    page,           \* the drafts the dashboard's poll asks for
    refresh         \* rows the dashboard's poll computed and has not written

calls == <<kind, target>>
shared == <<inquiry, queue, assignee, gapResolved, learned, mails>>
locals == <<row, view, reply, gapWrite>>
dashboard == <<page, refresh>>
vars == <<calls, shared, pc, locals, response, decision, dashboard>>
-----------------------------------------------------------------------------
(***************************************************************************)
(* Types.                                                                  *)
(***************************************************************************)
Decided == {"replied", "rejected"}
Status == Decided \cup {"pending_review"}

Inquiry == [status   : Status,
            draft    : Text,
            final    : Text \cup {NoText},
            property : Property \cup {NoProperty}]

ASSUME NullAssumption == NoText \notin Text /\ NoRow \notin Inquiry

Mail == [req : Request, draft : Draft, text : Text]
Event == [req : Request, draft : Draft,
          event : {"approved_unchanged", "edited", "rejected"}]
Response == {"none", "ok", "conflict", "not_found", "failed"}
Place == {"new", "send", "persist", "publish", "sync", "sync_write", "resolve",
          "learn", "bind", "reread", "rewrite", "assign", "done", "crashed"}
NotRunning == {"new", "done", "crashed"}

TypeOK ==
    /\ inquiry \in [Draft -> Inquiry]
    /\ queue \in [Draft -> Inquiry \cup {NoRow}]
    /\ assignee \in [Draft -> Operator \cup {NoOperator}]
    /\ gapResolved \in [Draft -> BOOLEAN]
    /\ learned \subseteq Event
    /\ mails \subseteq Mail
    /\ pc \in [Request -> Place]
    /\ kind \in [Request -> Kind]
    /\ target \in [Request -> Draft]
    /\ row \in [Request -> Inquiry \cup {NoRow}]
    /\ view \in [Request -> Inquiry \cup {NoRow}]
    /\ reply \in [Request -> Text \cup {NoText}]
    /\ gapWrite \in [Request -> BOOLEAN]
    /\ response \in [Request -> Response]
    /\ decision \in [Request -> Decided \cup {"none"}]
    /\ page \subseteq Draft
    /\ refresh \in [Draft -> Inquiry \cup {NoRow}]

Init ==
    /\ inquiry \in [Draft -> {i \in Inquiry : i.status = "pending_review" /\ i.final = NoText
                                             /\ i.draft \in Drafted}]
    /\ queue = [d \in Draft |-> NoRow]
    /\ assignee = [d \in Draft |-> NoOperator]
    /\ gapResolved = [d \in Draft |-> FALSE]
    /\ learned = {}
    /\ mails = {}
    /\ kind \in Handlers
    /\ target \in [Request -> Draft]
    /\ pc = [r \in Request |-> "new"]
    /\ row = [r \in Request |-> NoRow]
    /\ view = [r \in Request |-> NoRow]
    /\ reply = [r \in Request |-> NoText]
    /\ gapWrite = [r \in Request |-> FALSE]
    /\ response = [r \in Request |-> "none"]
    /\ decision = [r \in Request |-> "none"]
    /\ page \in SUBSET Draft
    /\ refresh = [d \in Draft |-> NoRow]
-----------------------------------------------------------------------------
(***************************************************************************)
(* Helpers.                                                                *)
(***************************************************************************)
Actioned(d) == inquiry[d].status \in Decided

MailOf(r) == [req |-> r, draft |-> target[r], text |-> reply[r]]

(* The request's handler goes on to the place p. *)
Goto(r, p) == pc' = [pc EXCEPT ![r] = p]

(* The handler returns: its locals go out of scope and its session closes, *)
(* which rolls back whatever it had not committed.                         *)
Leave(r, p) ==
    /\ Goto(r, p)
    /\ row' = [row EXCEPT ![r] = NoRow]
    /\ view' = [view EXCEPT ![r] = NoRow]
    /\ reply' = [reply EXCEPT ![r] = NoText]
    /\ gapWrite' = [gapWrite EXCEPT ![r] = FALSE]

Answer(r, a) ==
    /\ Leave(r, "done")
    /\ response' = [response EXCEPT ![r] = a]

(* A fresh invocation of one of the handlers ks. *)
Called(r, ks) == pc[r] = "new" /\ kind[r] \in ks

(* The handler goes on to the place p and keeps its locals. *)
Step(r, p) ==
    /\ Goto(r, p)
    /\ UNCHANGED <<locals, response>>
-----------------------------------------------------------------------------
(***************************************************************************)
(* The calls, as they read the inquiry.                                    *)
(***************************************************************************)
(* Already replied or rejected: 409 for approve, edit and bind, an error   *)
(* result for regenerate.                                                  *)
ReadActioned(r) ==
    /\ Called(r, {"approve", "edit", "bind", "regenerate"})
    /\ Actioned(target[r])
    /\ Answer(r, IF kind[r] = "regenerate" THEN "failed" ELSE "conflict")
    /\ UNCHANGED <<calls, shared, decision, dashboard>>

(* approve_inquiry sends the draft it read, edit_and_send_inquiry the      *)
(* operator's text.                                                        *)
ReadForReply(r, t) ==
    /\ Called(r, {"approve", "edit"})
    /\ ~Actioned(target[r])
    /\ kind[r] = "approve" => t = inquiry[target[r]].draft
    /\ Goto(r, "send")
    /\ row' = [row EXCEPT ![r] = inquiry[target[r]]]
    /\ reply' = [reply EXCEPT ![r] = t]
    /\ UNCHANGED <<calls, shared, view, gapWrite, response, decision, dashboard>>

(* reject_inquiry reads the row for its intent, and looks at no status;    *)
(* assign_inquiry starts with the queue row.                               *)
ReadUnguarded(r) ==
    /\ Called(r, {"reject", "assign"})
    /\ Step(r, IF kind[r] = "reject" THEN "persist" ELSE "sync")
    /\ UNCHANGED <<calls, shared, decision, dashboard>>

(* Mutant: no status check before the draft is composed again. *)
ReadForRewrite_Unguarded(r) ==
    /\ Called(r, {"bind", "regenerate"})
    /\ Goto(r, IF kind[r] = "bind" THEN "bind" ELSE "rewrite")
    /\ row' = [row EXCEPT ![r] = inquiry[target[r]]]
    /\ UNCHANGED <<calls, shared, view, reply, gapWrite, response, decision, dashboard>>

(* The status check of _bind_inquiry_property and, for regenerate, of      *)
(* reevaluate_existing_prebooking_inquiry, which keeps the row it read.    *)
ReadForRewrite(r) ==
    /\ Called(r, {"bind", "regenerate"})
    /\ ~Actioned(target[r])
    /\ Goto(r, IF kind[r] = "bind" THEN "bind" ELSE "rewrite")
    /\ row' = [row EXCEPT ![r] = inquiry[target[r]]]
    /\ UNCHANGED <<calls, shared, view, reply, gapWrite, response, decision, dashboard>>

(* A knowledge-base save finds the held draft and spawns a task for it,    *)
(* which reads the inquiry when it gets to run.                            *)
ScheduleRetry(r) ==
    /\ Called(r, {"kb_retry"})
    /\ inquiry[target[r]].status = "pending_review"
    /\ Step(r, "reread")
    /\ UNCHANGED <<calls, shared, decision, dashboard>>
-----------------------------------------------------------------------------
(***************************************************************************)
(* Sending and the outcome.                                                *)
(***************************************************************************)
(* Mutant: the queue row shows the reply before it is persisted. *)
SendDelivered_Optimistic(r) ==
    /\ pc[r] = "send"
    /\ mails' = mails \cup {MailOf(r)}
    /\ queue' = [queue EXCEPT ![target[r]] =
                    [row[r] EXCEPT !.status = "replied", !.final = reply[r]]]
    /\ Step(r, "persist")
    /\ UNCHANGED <<calls, inquiry, assignee, gapResolved, learned, decision, dashboard>>

(* _send_reply returned True: the provider has the mail. *)
SendDelivered(r) ==
    /\ pc[r] = "send"
    /\ mails' = mails \cup {MailOf(r)}
    /\ Step(r, "persist")
    /\ UNCHANGED <<calls, inquiry, queue, assignee, gapResolved, learned, decision, dashboard>>

(* Mutant: the result of the send is ignored. *)
SendFailed_Ignored(r) ==
    /\ pc[r] = "send"
    /\ mails' \in {mails, mails \cup {MailOf(r)}}
    /\ Step(r, "persist")
    /\ UNCHANGED <<calls, inquiry, queue, assignee, gapResolved, learned, decision, dashboard>>

(* _send_reply returned False: no credentials, no address, or an error     *)
(* raised by the provider, which may have taken the mail before it failed. *)
SendFailed(r) ==
    /\ pc[r] = "send"
    /\ mails' \in {mails, mails \cup {MailOf(r)}}
    /\ Answer(r, "failed")
    /\ UNCHANGED <<calls, inquiry, queue, assignee, gapResolved, learned, decision, dashboard>>

(* Mutant: a status the table's readers do not know. *)
OutcomeRow_Sent(r, i) ==
    CASE kind[r] = "reject"  -> [i EXCEPT !.status = "rejected"]
      [] OTHER -> [i EXCEPT !.status = "sent", !.final = reply[r]]

(* The row _persist_inquiry_outcome leaves: a reply is kept as final_reply *)
(* and, when the operator edited it, as the draft too.                     *)
OutcomeRow(r, i) ==
    CASE kind[r] = "reject"  -> [i EXCEPT !.status = "rejected"]
      [] kind[r] = "approve" -> [i EXCEPT !.status = "replied", !.final = reply[r]]
      [] OTHER -> [i EXCEPT !.status = "replied", !.final = reply[r], !.draft = reply[r]]

(* Mutant: the UPDATE has no status in its WHERE clause. *)
Persist_Unguarded(r) ==
    /\ pc[r] = "persist"
    /\ inquiry' = [inquiry EXCEPT ![target[r]] = OutcomeRow(r, @)]
    /\ decision' = [decision EXCEPT ![r] = OutcomeRow(r, inquiry[target[r]]).status]
    /\ Step(r, IF kind[r] = "reject" THEN "learn" ELSE "publish")
    /\ UNCHANGED <<calls, queue, assignee, gapResolved, learned, mails, dashboard>>

(* UPDATE ... WHERE status NOT IN ('replied', 'rejected') in its own       *)
(* session, and commit.                                                    *)
Persist(r) ==
    /\ pc[r] = "persist"
    /\ ~Actioned(target[r])
    /\ inquiry' = [inquiry EXCEPT ![target[r]] = OutcomeRow(r, @)]
    /\ decision' = [decision EXCEPT ![r] = OutcomeRow(r, inquiry[target[r]]).status]
    /\ Step(r, IF kind[r] = "reject" THEN "learn" ELSE "publish")
    /\ UNCHANGED <<calls, queue, assignee, gapResolved, learned, mails, dashboard>>

(* Mutants: rowcount is not looked at; a lost race is answered ok. *)
PersistConflict_Ignored(r) ==
    /\ pc[r] = "persist"
    /\ Actioned(target[r])
    /\ Step(r, IF kind[r] = "reject" THEN "learn" ELSE "publish")
    /\ UNCHANGED <<calls, shared, decision, dashboard>>

PersistConflict_Ok(r) ==
    /\ pc[r] = "persist"
    /\ Actioned(target[r])
    /\ Answer(r, "ok")
    /\ UNCHANGED <<calls, shared, decision, dashboard>>

(* rowcount = 0: somebody else decided first. *)
PersistConflict(r) ==
    /\ pc[r] = "persist"
    /\ Actioned(target[r])
    /\ Answer(r, IF kind[r] = "reject" THEN "not_found" ELSE "conflict")
    /\ UNCHANGED <<calls, shared, decision, dashboard>>

(* hub.publish succeeded; a retry has nothing left to do. *)
Publish(r) ==
    /\ pc[r] = "publish"
    /\ IF kind[r] \in {"bind", "regenerate"} THEN Answer(r, "ok") ELSE Step(r, "sync")
    /\ UNCHANGED <<calls, shared, decision, dashboard>>

(* Mutant: every error of the persist is taken for a lost race. *)
Raise_Conflict(r) ==
    /\ \/ pc[r] \in {"persist", "publish", "bind"}
       \/ pc[r] = "learn" /\ kind[r] = "reject"
    /\ Answer(r, "conflict")
    /\ UNCHANGED <<calls, shared, decision, dashboard>>

(* An exception of the database or the hub reaches the handler: 500.  At   *)
(* "learn" it is the read-back of a rejection just committed.              *)
Raise(r) ==
    /\ \/ pc[r] \in {"persist", "publish", "bind"}
       \/ pc[r] = "learn" /\ kind[r] = "reject"
    /\ Answer(r, "failed")
    /\ UNCHANGED <<calls, shared, decision, dashboard>>
-----------------------------------------------------------------------------
(***************************************************************************)
(* The queue read model, the knowledge gaps and the learning events.       *)
(***************************************************************************)
(* Where a handler goes when sync_draft is over. *)
AfterSync(r) ==
    CASE kind[r] \in {"approve", "edit"} -> Step(r, "resolve")
      [] kind[r] = "reject" -> Answer(r, "ok")
      [] OTHER -> Step(r, "assign")

(* The row _compute_live_rows makes of an inquiry: one bound to no property *)
(* shows the property its mail's normalization selected, if any.           *)
Live(i) ==
    {i} \cup {[i EXCEPT !.property = p] : p \in {q \in Property : i.property = NoProperty}}

(* sync_draft reads the live row, and only later writes it. *)
SyncCompute(r) ==
    /\ pc[r] = "sync"
    /\ \E i \in Live(inquiry[target[r]]) : view' = [view EXCEPT ![r] = i]
    /\ Goto(r, "sync_write")
    /\ UNCHANGED <<calls, shared, row, reply, gapWrite, response, decision, dashboard>>

(* Mutant: the upsert writes every column of the row. *)
SyncWrite_ClearsAssignee(r) ==
    /\ pc[r] = "sync_write"
    /\ queue' = [queue EXCEPT ![target[r]] = view[r]]
    /\ assignee' = [assignee EXCEPT ![target[r]] = NoOperator]
    /\ AfterSync(r)
    /\ UNCHANGED <<calls, inquiry, gapResolved, learned, mails, decision, dashboard>>

(* The upsert takes whatever was computed, and keeps the assignment. *)
SyncWrite(r) ==
    /\ pc[r] = "sync_write"
    /\ queue' = [queue EXCEPT ![target[r]] = view[r]]
    /\ AfterSync(r)
    /\ UNCHANGED <<calls, inquiry, assignee, gapResolved, learned, mails, decision, dashboard>>

(* An error of the select or of the upsert is logged and swallowed; assign *)
(* takes a failed select for a missing draft.                              *)
SyncSkipped(r) ==
    /\ pc[r] \in {"sync", "sync_write"}
    /\ IF pc[r] = "sync" /\ kind[r] = "assign" THEN Answer(r, "not_found") ELSE AfterSync(r)
    /\ UNCHANGED <<calls, shared, decision, dashboard>>

(* assign_draft updates the queue row, if there is one, and says so anyway. *)
Assign(r, o) ==
    /\ pc[r] = "assign"
    /\ assignee' = [assignee EXCEPT ![target[r]] = IF queue[target[r]] = NoRow THEN @ ELSE o]
    /\ Answer(r, "ok")
    /\ UNCHANGED <<calls, inquiry, queue, gapResolved, learned, mails, decision, dashboard>>

AssignFailed(r) ==
    /\ pc[r] = "assign"
    /\ Answer(r, "failed")
    /\ UNCHANGED <<calls, shared, decision, dashboard>>

(* Mutant: the gaps are committed on their own. *)
ResolveGaps_Committed(r, resolved) ==
    /\ pc[r] = "resolve"
    /\ gapResolved' = [gapResolved EXCEPT ![target[r]] = @ \/ resolved]
    /\ Step(r, "learn")
    /\ UNCHANGED <<calls, inquiry, queue, assignee, learned, mails, decision, dashboard>>

(* _resolve_prebooking_gaps_for_draft updates the gaps and does not commit; *)
(* when it raises, it rolls back.                                          *)
ResolveGaps(r, resolved) ==
    /\ pc[r] = "resolve"
    /\ gapWrite' = [gapWrite EXCEPT ![r] = resolved]
    /\ Goto(r, "learn")
    /\ UNCHANGED <<calls, shared, row, view, reply, response, decision, dashboard>>

EventOf(r) ==
    [req |-> r, draft |-> target[r],
     event |-> CASE kind[r] = "reject" -> "rejected"
                 [] kind[r] = "edit" /\ reply[r] # row[r].draft -> "edited"
                 [] OTHER -> "approved_unchanged"]

AfterLearning(r) == IF kind[r] = "reject" THEN Step(r, "publish") ELSE Answer(r, "ok")

(* The event's commit also commits the gaps resolved in the same session. *)
Learn(r) ==
    /\ pc[r] = "learn"
    /\ learned' = learned \cup {EventOf(r)}
    /\ gapResolved' = [gapResolved EXCEPT ![target[r]] = @ \/ gapWrite[r]]
    /\ AfterLearning(r)
    /\ UNCHANGED <<calls, inquiry, queue, assignee, mails, decision, dashboard>>

(* Swallowed, with a rollback that takes the resolved gaps along. *)
LearnFailed(r) ==
    /\ pc[r] = "learn"
    /\ AfterLearning(r)
    /\ UNCHANGED <<calls, shared, decision, dashboard>>
-----------------------------------------------------------------------------
(***************************************************************************)
(* Binding a property and rewriting the draft.                             *)
(***************************************************************************)
(* The UPDATE looks at no status; its handler then re-evaluates the draft. *)
Bind(r, p) ==
    /\ pc[r] = "bind"
    /\ inquiry' = [inquiry EXCEPT ![target[r]].property = p]
    /\ Step(r, "reread")
    /\ UNCHANGED <<calls, queue, assignee, gapResolved, learned, mails, decision, dashboard>>

BindUnknownProperty(r) ==
    /\ pc[r] = "bind"
    /\ Answer(r, "not_found")
    /\ UNCHANGED <<calls, shared, decision, dashboard>>

(* Where a caller goes when the re-evaluation returned an error, or raised. *)
AfterFailedRetry(r) == IF kind[r] = "bind" THEN Step(r, "publish") ELSE Answer(r, "failed")

(* Mutant: no status check before the draft is composed. *)
Reread_Unguarded(r) ==
    /\ pc[r] = "reread"
    /\ row' = [row EXCEPT ![r] = inquiry[target[r]]]
    /\ Goto(r, "rewrite")
    /\ UNCHANGED <<calls, shared, view, reply, gapWrite, response, decision, dashboard>>

(* The re-evaluation a bind or a knowledge-base save asked for selects the  *)
(* inquiry and checks its status.                                          *)
Reread(r) ==
    /\ pc[r] = "reread"
    /\ ~Actioned(target[r])
    /\ row' = [row EXCEPT ![r] = inquiry[target[r]]]
    /\ Goto(r, "rewrite")
    /\ UNCHANGED <<calls, shared, view, reply, gapWrite, response, decision, dashboard>>

RereadActioned(r) ==
    /\ pc[r] = "reread"
    /\ Actioned(target[r])
    /\ AfterFailedRetry(r)
    /\ UNCHANGED <<calls, shared, decision, dashboard>>

AfterRewrite(r) == IF kind[r] = "kb_retry" THEN Answer(r, "ok") ELSE Step(r, "publish")

Rewritten(i, t, p) ==
    [i EXCEPT !.status = "pending_review", !.draft = t, !.property = p]

(* The draft is composed: t from the model, p from the mail parsed again or *)
(* from the row selected before.  The UPDATE looks at no status and sets it *)
(* back to pending; sync_draft, in the same session, adds the queue row and *)
(* commits both.                                                           *)
Rewrite(r, t, p) ==
    /\ pc[r] = "rewrite"
    /\ p \in Property \cup {row[r].property}
    /\ inquiry' = [inquiry EXCEPT ![target[r]] = Rewritten(@, t, p)]
    /\ \E i \in Live(inquiry'[target[r]]) : queue' = [queue EXCEPT ![target[r]] = i]
    /\ AfterRewrite(r)
    /\ UNCHANGED <<calls, assignee, gapResolved, learned, mails, decision, dashboard>>

(* sync_draft rolled the UPDATE back, and the caller is told it is done.    *)
(* The queue row is as it was when all of sync_draft failed; shows the     *)
(* inquiry as it was when only the first select failed and the fallback    *)
(* read again; and shows the lost rewrite when the assignments could not   *)
(* be loaded after the row was read.                                       *)
RewriteLost(r, t, p) ==
    /\ pc[r] = "rewrite"
    /\ p \in Property \cup {row[r].property}
    /\ LET old == inquiry[target[r]]
       IN  queue' \in {queue} \cup {[queue EXCEPT ![target[r]] = i] :
                                       i \in Live(old) \cup Live(Rewritten(old, t, p))}
    /\ AfterRewrite(r)
    /\ UNCHANGED <<calls, inquiry, assignee, gapResolved, learned, mails, decision, dashboard>>

(* The provider, the model or the database raised before the UPDATE. *)
RewriteRaised(r) ==
    /\ pc[r] = "rewrite"
    /\ AfterFailedRetry(r)
    /\ UNCHANGED <<calls, shared, decision, dashboard>>
-----------------------------------------------------------------------------
(***************************************************************************)
(* Restarts and the dashboard.                                             *)
(***************************************************************************)
(* The worker process stops between two steps of the handler. *)
Crash(r) ==
    /\ pc[r] \notin NotRunning
    /\ Leave(r, "crashed")
    /\ UNCHANGED <<calls, shared, response, decision, dashboard>>

(* What the poll asks for changes: the user picks another status, property  *)
(* or unbound filter, a status or a property changes under the filter, or  *)
(* newer inquiries push a draft out of the newest rows that fit the limit. *)
(* Only the page at the time of a select matters, so it moves between two. *)
PageMoves ==
    /\ refresh = [d \in Draft |-> NoRow]
    /\ page' \in SUBSET Draft
    /\ UNCHANGED <<calls, shared, pc, locals, response, decision, refresh>>

(* The dashboard's poll: fetch_queue_rows selects the live rows of its page, *)
RefreshCompute ==
    /\ refresh = [d \in Draft |-> NoRow]
    /\ refresh' \in {rows \in [Draft -> Inquiry \cup {NoRow}] :
          \A d \in Draft : rows[d] \in IF d \in page THEN Live(inquiry[d]) ELSE {NoRow}}
    /\ UNCHANGED <<calls, shared, pc, locals, response, decision, page>>

(* Mutant: ON CONFLICT DO NOTHING instead of DO UPDATE. *)
RefreshWrite_DoNothing ==
    /\ refresh # [d \in Draft |-> NoRow]
    /\ queue' = [d \in Draft |-> IF queue[d] = NoRow THEN refresh[d] ELSE queue[d]]
    /\ refresh' = [d \in Draft |-> NoRow]
    /\ UNCHANGED <<calls, inquiry, assignee, gapResolved, learned, mails, pc, locals,
                   response, decision, page>>

(* upserts them in a transaction of its own, and leaves the others alone,  *)
RefreshWrite ==
    /\ refresh # [d \in Draft |-> NoRow]
    /\ queue' = [d \in Draft |-> IF refresh[d] = NoRow THEN queue[d] ELSE refresh[d]]
    /\ refresh' = [d \in Draft |-> NoRow]
    /\ UNCHANGED <<calls, inquiry, assignee, gapResolved, learned, mails, pc, locals,
                   response, decision, page>>

(* or fails, and is swallowed. *)
RefreshFailed ==
    /\ refresh # [d \in Draft |-> NoRow]
    /\ refresh' = [d \in Draft |-> NoRow]
    /\ UNCHANGED <<calls, shared, pc, locals, response, decision, page>>
-----------------------------------------------------------------------------
Reads(r) ==
    \/ ReadActioned(r)
    \/ \E t \in Text : ReadForReply(r, t)
    \/ ReadUnguarded(r)
    \/ ReadForRewrite(r)
    \/ ScheduleRetry(r)

(* What a running handler does next. *)
Continues(r) ==
    \/ SendDelivered(r) \/ SendFailed(r)
    \/ Persist(r) \/ PersistConflict(r)
    \/ Publish(r) \/ Raise(r)
    \/ SyncCompute(r) \/ SyncWrite(r) \/ SyncSkipped(r)
    \/ \E o \in Operator \cup {NoOperator} : Assign(r, o)
    \/ AssignFailed(r)
    \/ \E resolved \in BOOLEAN : ResolveGaps(r, resolved)
    \/ Learn(r) \/ LearnFailed(r)
    \/ \E p \in Property : Bind(r, p)
    \/ BindUnknownProperty(r)
    \/ Reread(r) \/ RereadActioned(r)
    \/ \E t \in Text, p \in Property \cup {NoProperty} : Rewrite(r, t, p) \/ RewriteLost(r, t, p)
    \/ RewriteRaised(r)

Poll == PageMoves \/ RefreshCompute \/ RefreshWrite \/ RefreshFailed

Next ==
    \/ \E r \in Request : Reads(r) \/ Continues(r) \/ Crash(r)
    \/ Poll

Spec == Init /\ [][Next]_vars

(* A handler that runs gets on, or dies with its process; a dashboard that  *)
(* stays open polls, and its database is not down for ever.                *)
Fairness ==
    /\ \A r \in Request : WF_vars(Continues(r))
    /\ WF_vars(RefreshCompute)
    /\ SF_vars(RefreshWrite)

FairSpec == Spec /\ Fairness
-----------------------------------------------------------------------------
(***************************************************************************)
(* What the review promises.                                               *)
(***************************************************************************)
(* A guest has received the reply an inquiry is marked with: whatever the  *)
(* interleaving of approvals, edits, retries and crashes, final_reply names *)
(* a text that was delivered for this draft, and an inquiry is "replied"   *)
(* only with such a text (approve_inquiry, edit_and_send_inquiry send      *)
(* before they persist).                                                   *)
RepliedWasDelivered ==
    \A d \in Draft :
        /\ inquiry[d].status = "replied" => inquiry[d].final # NoText
        /\ inquiry[d].final # NoText =>
              \E m \in mails : m.draft = d /\ m.text = inquiry[d].final

(* The learning loop only hears of decisions that were committed: an event *)
(* of a request follows the same request's outcome, of the matching kind,  *)
(* even when handlers for one draft overlap and one of them loses.         *)
LearnedFromDecisions ==
    \A e \in learned :
        /\ target[e.req] = e.draft
        /\ decision[e.req] = IF e.event = "rejected" THEN "rejected" ELSE "replied"

(* Knowledge gaps are closed in the transaction of an approval or edit     *)
(* event, so a crash, a failed event or another request's commit never     *)
(* leaves a draft's gaps closed with no such event to explain it.          *)
GapsResolvedByReply ==
    \A d \in Draft : gapResolved[d] =>
        \E e \in learned : e.draft = d /\ e.event \in {"approved_unchanged", "edited"}

(* The read model may be late but invents nothing: a queue row shows an    *)
(* outcome only if some request for that draft committed that outcome, and *)
(* a final reply only if it was delivered.  So for every row computed and   *)
(* not yet written.                                                        *)
ShowsOnlyHistory(d, i) ==
    /\ i.status \in Decided =>
          \E r \in Request : target[r] = d /\ decision[r] = i.status
    /\ i.final # NoText => \E m \in mails : m.draft = d /\ m.text = i.final

QueueInventsNothing ==
    \A d \in Draft : queue[d] # NoRow => ShowsOnlyHistory(d, queue[d])

(* A caller is never told that somebody else decided when nobody did: 409  *)
(* after a sent mail, and 404 for a rejection, name another request's      *)
(* committed outcome.                                                      *)
ConflictHasWinner ==
    \A r \in Request :
        (response[r] = "conflict" \/ (kind[r] = "reject" /\ response[r] = "not_found")) =>
            \E q \in Request \ {r} : target[q] = target[r] /\ decision[q] # "none"

(* "sent" and "rejected" are only answered once they are on record, and an *)
(* approval or edit answered so has its own mail behind it.                *)
OkIsOnRecord ==
    \A r \in Request :
        (response[r] = "ok" /\ kind[r] \in {"approve", "edit", "reject"}) =>
            /\ decision[r] = IF kind[r] = "reject" THEN "rejected" ELSE "replied"
            /\ kind[r] # "reject" => \E m \in mails : m.req = r

(* Of the requests that race for one draft a single one decides.  A second  *)
(* decision stands only where a retry reopened the draft in between, so    *)
(* without retries at most one outcome is ever committed.                  *)
Retries == {"bind", "regenerate", "kb_retry"}
OneDecisionUnlessReopened ==
    \A d \in Draft :
        (\A r \in Request : target[r] = d => kind[r] \notin Retries) =>
            Cardinality({r \in Request : target[r] = d /\ decision[r] # "none"}) <= 1

(* A decision is never replaced by another decision, nor its reply changed: *)
(* the only step that leaves "replied" or "rejected" is the UPDATE of a    *)
(* re-evaluation that had read the inquiry while it was pending.           *)
DecisionsStand ==
    [][\A d \in Draft : Actioned(d) =>
          \/ inquiry'[d].status = inquiry[d].status /\ inquiry'[d].final = inquiry[d].final
          \/ /\ inquiry'[d].status = "pending_review"
             /\ \E r \in Request : /\ target[r] = d
                                   /\ kind[r] \in Retries
                                   /\ pc[r] = "rewrite" /\ pc'[r] # "rewrite"
                                   /\ row[r].status = "pending_review"]_vars

(* An assignment outlives every refresh of the queue row: stale or not, an *)
(* upsert never clears or changes it; only an assign call does.            *)
AssignmentKept ==
    [][\A d \in Draft : assignee'[d] # assignee[d] =>
          \E r \in Request : /\ kind[r] = "assign" /\ target[r] = d
                             /\ pc[r] = "assign" /\ pc'[r] = "done"]_vars

(* The review implements the life of an inquiry (InquiryLife): whatever    *)
(* the handlers, their transactions and the read model do in between, the  *)
(* tables and the answers change as if each decision, its mail before it   *)
(* and its answer after it were one step.  A rejection is turned away with *)
(* 404, the other calls with 409.                                          *)
TurnedAway(r) ==
    response[r] = "conflict" \/ (kind[r] = "reject" /\ response[r] = "not_found")

Statuses == [d \in Draft |-> inquiry[d].status]
Finals == [d \in Draft |-> inquiry[d].final]
Sent == {<<m.draft, m.text>> : m \in mails}
Composing == {r \in Request : pc[r] = "rewrite"}
Confirmed == {r \in Request : response[r] = "ok" /\ kind[r] \in {"approve", "edit", "reject"}}
Beaten == {r \in Request : TurnedAway(r)}

Life == INSTANCE InquiryLife WITH
    Caller <- Request, Reply <- Text, NoReply <- NoText,
    status <- Statuses, reply <- Finals, sent <- Sent, about <- target, outcome <- decision,
    composing <- Composing, confirmed <- Confirmed, beaten <- Beaten

ImplementsLife == Life!Spec

(* Once the calls are over the read model catches up with every inquiry    *)
(* that stays on the page the dashboard polls, however stale the row that  *)
(* a late handler or an overlapping poll wrote into it.  An inquiry off    *)
(* that page, archived, filtered out or older than the newest rows, keeps  *)
(* the row its last writer left.                                           *)
QueueCatchesUp ==
    \A d \in Draft : <>[](d \in page) => <>[](queue[d] \in Live(inquiry[d]))

(* docs/ON_CONFLICT_DIVERGENCE_DECISION_2026_05_04.md:268, of retries:     *)
(* "Operator state must not be silently mutated by writer-level retry      *)
(* behavior."  The UPDATE of a re-evaluation checks no status, so one that *)
(* composed its draft while the operator decided reopens the inquiry.      *)
DecisionsAreFinal ==
    [][\A d \in Draft : Actioned(d) => inquiry'[d].status = inquiry[d].status]_vars
=============================================================================
