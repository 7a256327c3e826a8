# Oyvoda: a TLA+ verification project

Oyvoda answers the mail of vacation-rental guests. A guest's mail is read from a property manager's
mailbox, parsed and routed; a pre-booking inquiry is drafted by a language model, reviewed by an
operator, sent, and learned from. This project models the parts of the backend where several
processes touch the same row, where a step can be lost between two commits, and where an operator
would not notice that something went missing. Every definition is translated from the code under
`src/`; `PROJECT.json` maps each one to its file and lines.

Contents: [the system](#1-the-system), [the plan](#2-the-plan), the modules
([review](#3-prebookingreview), [intake](#4-inboxpoller), [realtime](#5-operatorrealtime),
[push](#6-mailboxpush), [knowledge](#7-scopedknowledge), [stays](#8-stayactions)),
[findings](#9-findings), [proofs](#10-what-is-proved),
[what is only checked, or not modelled](#11-limits), [how to run it](#12-running-it).

## 1. The system

Paths are under `src/app` unless they start with `src/`. FastAPI processes, Celery workers and (in a
small deployment) one process with embedded workers share a PostgreSQL database and Redis. There is
no ORM unit of work: most handlers run several statements with several commits, and what lies
between two commits can be interleaved, lost or repeated.

| component | state it keeps | operations | what is hard | what makes it correct |
|---|---|---|---|---|
| **Operator review** (`api/v1/endpoints/operator_prebooking.py`, `services/messaging_brain/pre_booking_retry.py`, `services/operator/prebooking_queue_service.py`) | `pre_booking_inquiries` rows, the queue read model, assignments, knowledge gaps, learning events | approve, edit, reject, bind a property, regenerate, retry from knowledge, assign, refresh the queue | racing operators; a status checked seconds before it is overwritten; the mail leaves before the commit; best-effort tails | one decision per draft; what is marked replied was delivered; the queue invents nothing and catches up |
| **Gmail intake** (`services/integrations/gmail_inbox_poller.py`, `email_pipeline.py`, `email_dispatch.py`) | `gmail_processed_messages`: status and failure count | poll, parse, route, dispatch, record, retry, quarantine | polls overlap; the count is read and written back; a crash between two commits; errors swallowed | every message is done in the end; none is quarantined early; none disappears |
| **Inquiry store and audit rows** (`services/messaging_brain/persistence/prebooking_inquiry_store.py`, `message_event_store.py`, `services/concierge/inquiry_persistence.py`) | inquiries by thread and message, `message_normalizations.route_outcome` | persist, insert or duplicate, thread context, outcome | repeated inserts, partial saves | an inquiry is never replaced and can be answered |
| **Filtered mail and rescue** (`operator_filtered_recovery.py`, `filtered_recovery_service.py`) | the same rows | list, promote | an outcome that says more than was saved | what was not surfaced is listed |
| **Realtime events** (`services/operator/realtime_hub.py`, the SSE endpoint, `static/dashboard-v2/src/realtime`) | Redis counter, buffer and channel; subscriber queues; the tab's cache | publish, subscribe, replay, dispatch, refetch | events between the buffer read and the registration; full queues; dispatcher death; reconnects | a stream that fell behind has something coming; every tab is told |
| **Gmail push** (`services/integrations/gmail_push.py`, `api/v1/endpoints/messaging_webhooks.py`, the poll tasks of `workers/tasks.py`) | watch and history cursor; poll tasks in the broker | register, record a notification, queue a poll; list a window, unread or recent mail | a cursor read and then updated, ahead of its poll; Pub/Sub repeats and reorders; tasks retried, given back, given up | nothing below the cursor is forgotten; every announced mail is polled or counted as missed |
| **Knowledge and extraction staging** (`scoped_knowledge_service.py`, `dashboard_kb_service.py`, `gap_recorder.py`, `staging_service.py`, `draft_learning_service.py`) | versioned entries with their history, candidates, gaps, learned edits | upload, approve, reject, resolve a gap, create, edit, delete, learn | lookup before write; writers that take the advisory lock and writers that do not; uploads that lock in opposite orders | every version is archived once; a request writes all or nothing; what reads approved was written |
| Guest sessions (`concierge/post_booking_routing.py`) | sessions and their messages | find or create, append | check, then insert | one session per guest |
| **Stay actions** (`stay_workflow_service.py`, `stay_action_agent.py`, `stay_proactive_runtime.py`, `email_dispatch.py`) | the action queue of a stay, its read model, the touch stamps of its session | synchronise, execute, touch, hold a mail for review | a status read before it is written back; a message sent between two writes of its row; rows taken in different orders | one sender at a time; what is shown as done is in the thread; every call ends |
| Escalation workflows (`escalation_workflow_service.py`, `escalation_action_agent.py`) | tickets and their actions | upsert, act, resolve | the same synchronisation | as above |
| Autonomy gate and staged rollout (`staged_rollout`) | phase and approval mode of a tenant, feature flags | initialize, advance, set the mode | flags applied apart from the phase | flags agree with the phase |
| Process start (`main.py`), worker runtime (`src/workers/base.py`) | the lock file; jobs | acquire, steal a stale lock; run, time out, retry | create and then write; retries that do not count | one process with embedded workers; bounded retries |

`PROJECT.json` lists the remaining components too (retention, reservation sync, security, legacy
concierge, analytics, ...), each with why it is left aside: they are single statements, numerical
pipelines, heuristics over data, or text.

**How the parts meet.** MailboxPush ends where a poll takes a message up, and InboxPoller begins there.
The poller and the review share `pre_booking_inquiries`: the poller inserts a row once and never touches a
decided one (`InquiryKept`), which is why PreBookingReview starts from a pending inquiry. The review and
the poller publish to the realtime hub after they commit and swallow its errors; OperatorRealtime
therefore starts from "something was committed". A rescue goes through the poller's save. The intake and
the stay meet in the single `ops_review` action that holds a mail of an active stay: InboxPoller has it as
a surface that a second mail takes over, StayActions as one row of the queue, which any view of the
session writes too. A reply of the review resolves gaps, a gap's answer becomes an entry of
ScopedKnowledge, and an edit of a reply should become a candidate there.

## 2. The plan

In order of importance; the first six are built.

1. **PreBookingReview**: the decision on a draft, its side effects and the read model; it implements
   **InquiryLife**.
2. **InboxPoller**: a mail's way to a surface the operator sees.
3. **OperatorRealtime**: how a change reaches a dashboard tab.
4. **ScopedKnowledge**: every write of the knowledge base, with candidates and gaps; it implements
   **KnowledgeLedger**.
5. **MailboxPush**: the watch, the history cursor, and the poll it triggers; it implements
   **MailDelivery**.
6. **StayActions**: the action queue of a stay, and who writes it.
7. **GuestSessions** (to come): find-or-create by two polls, composed with the route "session" of
   InboxPoller; then the escalations' queue, which is synchronised in the same way.
8. **StagedRollout** and the singleton lock of `main.py` (to come); the worker runtime last, as
   nothing starts it.

The three abstract specifications say what a component promises with one step per promise: *an
inquiry's life* (pending, decided once, undone only by a caller that began before), *a mail's
delivery* (owed, polled or given up; an announcement is discharged only against a mail that is owed
or settled) and *the knowledge as if its requests came one at a time* (each is done at once, in the step
that answers it, or never). Each is a PROPERTY of a run and its step simulation a theorem. Worth stating next: *a
message's life* (listed, worked on, done, found by its outcome) for InboxPoller, and *a wake-up line*
(a change sets a flag at every listener, hearing clears it) for OperatorRealtime.

Theorems to come: those two refinements; the lock's mutual exclusion as far as it holds.

## 3. PreBookingReview

**State and code.** `inquiry` is the table row of a draft (status, draft text, final reply, property),
`queue` and `assignee` the read model's row, `gapResolved`, `learned` and `mails` what a reply leaves
behind; `pc`, `kind`, `target`, `row`, `view`, `reply`, `gapWrite`, `response` are the local variables
of a call, `page` and `refresh` the dashboard's own pass over the queue.

The dashboard does not look at every draft. `fetch_queue_rows` (`prebooking_queue_service.py:222-233,
315-321`) leaves out archived rows, takes a status, a property or the unbound ones if it is asked to, and
returns the newest rows up to a limit (200 in `dashboard/js/sections/messages.js:784`, 25 in the v2
bootstrap). Filters and newer drafts are not the draft's own doing, so the set of drafts that a poll selects
is a variable, `page`, that may change between any two polls (`PageMoves`). What such a query shows of a row
is not the row either: without a property of its own the draft takes the one that its mail was bound to
(`COALESCE`, line 225 and 278), so a live row is one of `Live(inquiry[d])`: the row, or the row with such a
property filled in.

A call takes the steps of its handler,
one per commit or per read that a later statement uses: read (`ReadActioned`, `ReadForReply`,
`ReadUnguarded`, `ReadForRewrite`), send, guarded UPDATE (`_persist_inquiry_outcome`), gap
resolution, learning event, queue sync as a read and an upsert, publish. Any step can fail as the
code lets it, and a process can stop anywhere (`Crash`). Text is a model value; what the drafting
model writes is any text. A retry's rewrite is two actions: `Rewrite`, and `RewriteLost`, in which its
transaction is rolled back - with the queue row untouched, or with the rewritten rows, already read, upserted
and committed by the sync, if it was the lookup of the assignment in `sync_draft` that failed and rolled back
(lines 388-436). One failure of the code changes no state and is left out: the first SELECT
raising, which only answers 500.

**Runs.**

- `review_decisions`: any two of all seven calls on one draft, two texts, the dashboard's refresh and
  fairness. Eight invariants: delivered before replied, learning and gaps only after a decision, no
  invented queue row, a conflict has a winner, an ok is on record, at most one decision unless a retry was
  involved. Four properties of steps and behaviours: a decision is undone only by the UPDATE of a
  re-evaluation that read it pending; the queue row of a draft that stays on the polled page ends up as a
  live row, and of a draft off that page nothing of the kind is claimed: if its own sync was skipped,
  nothing repairs it (`QueueCatchesUp`); an assignment is never lost to a refresh (`AssignmentKept`);
  every step is one of InquiryLife's or none (`ImplementsLife`). Two calls and the refresh are three
  writers, which is what each of the races needs; two texts tell whose text was recorded.
  MCPreBookingReview names the pairs of handlers: requests are alike and so are texts, so one order of
  each pair (`Handlers`) and one text of the first draft (`Drafted`) stand for all. With more calls the
  safety properties are theorems.
- `review_reopened`: a finding of section 9.

**Refinement.** InquiryLife knows statuses, final replies, mails and what callers were told. The
mapping reads status and reply from `inquiry`, what was sent from `mails`, a composing caller from
`pc`, and who decided what from `decision`, which the guarded UPDATE sets. That one UPDATE, in the middle
of a handler, is the decision; all that comes before but the mail, and all that follows but the
answer, is invisible.

**Fairness.** A handler that runs gets on or dies with its process (weak). `RefreshCompute` is the
dashboard's poll (weak); nothing makes the page move or stay. `RefreshWrite` is strong: the upsert is
attempted again on every poll and may fail with the database, but not for ever.

## 4. InboxPoller

**State and code.** `record` is `gmail_processed_messages`, `outcome` the audit row's route outcome by
channel, `inquiry` who inserted the message's inquiry, `addressed` whether it has the guest's address
and thread, `sessions` and `stayAction` the two places outside the pre-booking queue. A poller (`pc`,
`msg`, `origin`, `inserted`, `result`, `count`) is a Celery run, a push-triggered run or an embedded
worker: nothing keeps two off a mailbox. `failed`, `dropped` and `harmed` are history. `Start` is
`_is_already_processed`; `NotGuest`, `ShadowPersist`, the seven routes, `Save`, `StoreContext`,
`WriteOutcome`, `MarkProcessed` follow the pipeline; `Stamp`, `ReadFailures` and `RecordFailure` the
failure path, read and write apart as in the code; `Promote` is the operator's rescue. Each `...Failed`
or `...Lost` action is an exception handler of the code, with the state it leaves behind. What a
parser or a model makes of a mail may differ between attempts, so each attempt chooses its route.

`harmed` collects the messages an attempt of which was interrupted or lost a best-effort write. Two
properties exclude them, as the code has no repair for a crash between two commits; the runs have
faults all the same, and all other properties hold for harmed messages as well.

**Runs.** All with `CHECK_DEADLOCK FALSE`: pollers stop when every message is done.

- `inbox_overlap`: two pollers on one message, every route, two faults, `MaxAttempts` 2. All four safety
  properties, and Settles under fairness, without symmetry. Two pollers suffice for each read-write
  race of the count and for a late failure over a finished record; two attempts reach the quarantine
  through the same code as three. One message, as records of different messages meet only in the
  stay's action: that a second mail of a stay displaces the first is left to the theorem of
  ProcessedIsAccounted, which is for any messages.
- `inbox_rescue`: a finding.

**Fairness.** A poller that runs gets on (its steps include the failures), and some poll comes to a
message that stays listed. The latter is the code's own assumption, and MailboxPush looks at it: the query
lists the 50 newest unread messages without paging, so one under 50 newer unread ones (`Buried`) is not
listed, and Settles says nothing of it.

## 5. OperatorRealtime

**State and code.** `counter`, `buffer`, `channel` are Redis' key, list and pub/sub; `dispatcher` the task
of a server's hub; `link`, `host`, `replay`, `queue`, `lastId` a tab's event stream; `timer`, `fetch`,
`answer`, `fresh`, `feed` the dashboard's debounce, request and cache. `Number` and `Push` are `publish`
(two calls, so ids can be pushed out of order); `Connect`, `ReadBuffer`, `Register` are `subscribe` in the
order in which the code leaves its gap, and `Greet` the endpoint's first event, which makes a tab refetch;
`Dispatch` is `_enqueue` with the loss of the oldest event; `Newer` is the replay's filter, a recursive
function; `DispatcherFailed` leaves the streams open and unfed, as in the code. Redis and TanStack Query
are external and modelled from their use.

**Runs.** `realtime_streams`: two servers (a tab can reconnect elsewhere), one tab, one publisher with
two changes, buffer and queue of size 1 so that both overflow, two faults. NoSilentStream: a stream
not told of the last publish has something coming. EventuallyHeard: every publish is heard, unless the
dispatcher failed or the request was refused; both escapes are the code's and are hazards of the list.
`realtime_feed`: a finding. `CHECK_DEADLOCK FALSE`: changes are bounded.

**Fairness.** Publishing goes on once begun, dispatchers read, EventSource reconnects, timers end,
servers answer, staleTime passes; nothing makes anyone change, fail or disconnect.

## 6. MailboxPush

**State and code.** One watched mailbox. `arrived` and `unread` are Gmail's; history ids are counted in
messages, so message `m` arrived at id `m`, and a window is a set of messages. `pushes` is what Pub/Sub
holds unacknowledged, `answers` a watch call's answer that is not saved yet, `cursor` the column
`gmail_watch_history_id`. A webhook request is a delivery of an announcement, of which several may run at
once: `ReadCursor` is the SELECT, `MoveCursor` and `Ignore` the UPDATE and its two outcomes, `Dispatch`
the task and the 204. `tasks`, `at`, `job`, `left` are the broker and the workers: `PollWindow`,
`PollRecent` (no start, or Gmail's 404) and `PollUnread` (the schedule) take a task and list
(`RecentPages`: the recent query also asks for `newer_than:14d`, so any number of the oldest messages may
be too old for it), `ListFailed` is Celery's retry with its bound, `PollFailed` and `ProcessFailed` the
errors that a poll swallows, `Crash` the redelivery of `task_acks_late`. `missed` is history: mail that a
registration jumped over, that a request lost after the cursor had moved, or that its poll gave up. Taking
a task and listing are one step: no other step changes what the listing of a window depends on, and for
the unread page it is as if the worker had taken the task then. One registration is under way at a time
(the renewal is hourly); an error that lasts until the last retry is one fault.

`Provider` is the column `email_provider`: NULL and `gmail` are one case, `google` the other, which
the poll task alone tells apart (section 9).

**Runs.** `CHECK_DEADLOCK FALSE`: a mailbox may stay as it is.

- `mailbox_push`: two mails, one page of each listing of size 1 (so that a mail can be buried), two
  tries, one worker, one fault, `Provider` "gmail". CursorCovers: nothing at or below the cursor is
  without a window, however requests and registrations move it; AcknowledgedIsCovered: no notification
  is answered as stale whose mail no window has; PushArrives: each announced mail is polled or
  missed; UnreadIsPolled: the schedule polls what stays unread and is not buried; ImplementsDelivery.
  Two announcements, delivered at the same time and again after a failure, are what the races of the
  cursor need, with a registration as a third writer. Two deliveries of one announcement at the same
  time (`Copy` with two members) are left to the theorems, which are for any number of deliveries,
  workers, mails and faults, and for both providers.
- `mailbox_window`: a finding, without a fault.

**Fairness.** Pub/Sub delivers what is not acknowledged, and requests and polls that run get on or fail
(weak). A queue's task is taken and the scheduled poll made again and again (strong: one worker may be
busy each time it could have come to them); the schedule is on in the deployment
(`docs/RAILWAY_OPERATIONAL_NOTES.md:477,511`; small deployments run it embedded, `main.py:507-604`).
Nothing makes mail arrive, a watch live, or anything fail.

**Refinement.** MailDelivery knows of a mail only what is announced and where it stands: none, owed,
missed, polled. `Standing` computes it from `polled`, `missed` and `Covered`, the windows of requests,
tasks and workers. A worker that dies, a retry and an acknowledgement are then invisible: a version in
which the task was acknowledged when taken fails at once.

## 7. ScopedKnowledge

**State and code.** `entry` and `history` are `concierge_scoped_knowledge` and its history by slot, a slot
being a scope with a question's key or a topic, the cell of a unique index; a deleted entry stays with
`active` FALSE. `candidate` and `promoted` are the staged fact's review, `gap` the gap's flag, `lock` the
advisory locks. A `Call` is one request and one transaction, read committed; `pc`, `todo`, `next`, `read`
are its place. A file may hold one
question twice (`twice`; the upload's loop removes no repetition): the second write finds the row of the
first in its own transaction, under the lock it has, so the two are one `Write` that takes two versions
(`Again`). A call stops where another can come in between: `Lock`, `Lookup`, `Write`, `Commit` for
the writers through the service (uploads of several questions, approvals, resolutions), `StartEdit` and
`Edit` for the dashboard, whose `Create`, `Edit` and `Delete` take no lock and write no history.
`Collide` is the unique violation this leads to. `AbortDeadlock` is PostgreSQL's abort of one of two calls
that wait for each other, `Fail` an error, disconnection or restart. `RecordEdit`, `Propose` and
`CloseSession` are the learning call, with the commit that is in it and the one that is not. An answer
is named by the call that wrote it.

**Runs.** Any three overlapping calls of nine kinds on three slots, two of questions and one of a topic,
one with an entry from before; files with one question, with one held twice, and with two (`Files`, which
MCScopedKnowledge gives; a file's writes of a slot do not depend on its other slots); one candidate, one
gap, one call that may fail. Two writers and a third between are what lookup, insert and update need; two
slots are what an all-or-nothing upload and a deadlock need. `CHECK_DEADLOCK FALSE`: calls end.

- `knowledge_writes`: HistoryIsComplete, AllOrNothing, ApprovedIsWritten, CallsEnd, ImplementsLedger.
- `knowledge_served`, `knowledge_edits`: findings.

**Fairness.** Weak fairness of each call's next step (`Advance`): a request that runs goes on. It can only
wait for a lock, which the end of the holder's transaction releases; of calls that wait for each
other the database aborts one, which is an assumption about PostgreSQL.

**Refinement.** KnowledgeLedger has the same entries, history, candidates and gaps, what was asked
(`input`) and what was answered (`response`), and no locks, lookups or open transactions: `Lock`,
`Lookup`, `Write` and `Propose` are invisible, and a commit does the whole request on the entries as
they are *then*. So what an earlier lookup saw must still hold at the commit, in its version and in whether
it is active: an UPDATE that wrote `active` as it was read would undo a deletion in between, which only this
property notices. One thing the lookup saw may be stale, and the specification says so: the archived
answer may be one that the dashboard has since replaced in place (`replaced`). A question that a file holds
twice takes two versions in the one step, and the first is archived with the call's own answer. A request is refused
only when there is nothing it could be done to, and one that fails leaves nothing behind; that a learning
call does leave its learning event is below this level.

## 8. StayActions

**State and code.** One guest's stay. `queue` is `operator_workflow_action_queue` by action type, the
status as committed, and `dirty` as last written; `lock` says who holds a row of it, the stay's read
model (`workflow`) or its session (`guest`). A call is a request, a task or a mail with a database
session of its own; PostgreSQL's READ COMMITTED is `Write`, `Commit` and `Rollback`, and a read sees
`queue`. `desired`, `seen`, `todo` are the local variables of a synchronisation, `act` and `result` of
an execution, `then` is where a call goes on after its synchronisation. `recorded` are the actions that
the guest or the operators were told of, by a message in the thread, a notification or a handoff; `noted` are
those of a transaction that has yet to commit, `lost` those that a caught failure took back.

`ReadExisting` is the end of composing: what is due depends on guest, calendar and vendor and is any set
of the constant `Due`; `Upsert`, `Suppress`, `RowsFail` and `_persist_workflow` follow, row by row, up to
the commit. `LoadContext`, `MarkInProgress`, the outcomes, `AddMessage` (whose commit also commits the
mark), `Patch` and `Complete` are an execution. The ten actions are of three kinds: three send the guest a
message (`Outreach`), three open work for a vendor or the staff, tell of it and write the read model
(`Coordination`; the one with a vendor writes first and tells afterwards, `TellVendor`), and four only
tell (`Notify`). A failed write of the read model is caught with a rollback in the middle of the execution
(`PatchFails`): the mark and an uncommitted notice are gone, and the execution still ends as in progress
or completed. The proactive runtime (`Touch`, `ListDue`) synchronises, executes and synchronises again.
`Stops` is a restart or an unhandled error anywhere. A message that was sent and not recorded (`Stops` in
"sent") leaves the row as it was, so it will be sent again.

`LoadContext` has no return for a completed action. The code has one (`stay_action_agent.py:233`), but it
is never taken: the SELECT names two columns `status`, the action's and the stay's, and the mapping
keeps the later one, the stay's, which is active, feedback_pending, expired or closed. The unit test's
fixture has the same two keys (`test_stay_action_agent.py:461,473`). A second click on a completed
action therefore sends again; what is left between two clicks is the row lock.

**Run.** `stay_actions`: an execution, which ends with a synchronisation, and any other call beside it;
the review, an action that sends, and two coordinations, one that tells before the read model is written
and one that tells after. What is due is everything, nothing, or what a departure calls for; the theorems
hold for any such sets. OneSender: of one action, one call at a time is between its mark and its message.
ShownIsDelivered: of what the queue shows in progress or completed (the dashboard hides the completed ones
as having happened, `SessionExpansion.tsx:324-327`) somebody was told, but for the notices in `lost`:
after a `PatchFails` a turnover or a walkthrough is in progress and no one has heard of it, and the
property says that nothing else leads there. TakenBackInFourWays: what is shown in progress or completed
stops being shown so in four ways. A synchronisation that read the row before it was begun writes ready,
or blocked if the action is due no more (`Overtaken`); one that read it in progress and finds it due no
more writes blocked (`Withdrawn`); a second execution ends as failed or blocked (`Repeated`); another mail
for review opens the review again (`Reopened`). From blocked and failed a later synchronisation may make
it ready, with a fresh read, so an action that is offered again has gone one of these ways first; the code
has all four, and the property says that there is no fifth: a synchronisation that read a row as completed
never takes it back. NobodyStuck: of the calls underway one can go on, or is in a circle of waits that the
database breaks, so that no row is waited for whose holder has ended. EveryStepCounts: no step, a caught
error's and the database's included, sends a call back to an earlier place. CallsEnd: circles of row locks
(an execution holds the session or the read model and wants its row, a synchronisation holds rows and
wants the read model) are broken and every call ends. Two calls are what each circle needs; pairs without
an execution, and more calls, are left to the theorems. The calls end, which `Finished` says.

**Fairness.** Weak, of each call's next step: a call that runs goes on. It waits only for a row, and
holders end their transactions. `Victim` (weak) is PostgreSQL's deadlock detector; its victim is a
synchronisation's loop or a write of the read model, whose calls go on without it, or another call, which ends.

## 9. Findings

| run | source | a document says | the code does |
|---|---|---|---|
| `review_reopened` | `pre_booking_retry.py:370` | operator state is not silently mutated by retries | the retry's UPDATE has no status guard: a decision made while it composed is undone |
| `inbox_rescue` | `inquiry_persistence.py:145` | a rescue moves a row from recorded to actionable | after a rolled-back save it is recorded as rescued, without an inquiry |
| `realtime_feed` | `invalidation.ts:72` | realtime invalidates queries | it fetches with the query's staleTime and may answer from the cache |
| `knowledge_edits` | `draft_learning_service.py:122` | durable learnings become pending candidates | the candidate is inserted after the commit and rolled back with the session |
| `knowledge_served` | `scoped_knowledge_service.py:415` | an approved fact, or a gap's answer, appears in the knowledge | written to an entry that was deleted once, it stays inactive and nobody reads it |
| `mailbox_window` | `workers/tasks.py:1229` | a push polls the messages of its history window | in a mailbox stored as "google", the sign-up's value, it polls the unread page |

`PROJECT.json` quotes each document with its lines.

## 10. What is proved

TLAPS proves, for every value of the constants that satisfies the assumptions of the modules:

**PreBookingReview_proofs** (any drafts, requests, texts, properties and operators; the null values are
not among them). TypeCorrect and ten properties. The chain: `Typed` strengthens TypeOK by where a
handler can stand for the call it serves (`PlaceOK`) and what it holds there (`HoldsOK`: a sender has a
text, a rewriter a row that was pending). `StepEffects` reduces every step once to what it can do to
the tables and to one handler, and the history invariants are proved from that lemma alone:
`DecisionOK` (past the guarded UPDATE a handler's decision is on record), `MailOK` (a handler about to
persist a reply has delivered it), `GapWriteOK`, and `CopiesOK` (the copies of a row in a handler, the
refresh and the queue name only what was decided and delivered; that a query's property tells no more
than the row is `TellsNoMore`, by `LiveRow`). `Inv` joins them with the properties;
none of these is inductive alone, RepliedWasDelivered for instance needs MailOK before its UPDATE.
`SoleDecider`, on top of Inv, gives the one decision: on a draft that no retry touches, whoever
decided left the row decided, so that the guard turns every other away. *AssignmentKept* follows from
what each upsert leaves out. *ImplementsLife* maps each step to one of InquiryLife's or none; it needs
`Inv` (a decision's reply was sent, an ok and a conflict have their decision on record) and
`Unanswered`, that a running call was told nothing yet.

**InboxPoller_proofs** (any finite set of pollers, any messages, routes and bounds). TypeCorrect and
all four safety properties.
- *QuarantineIsEarned.* The recorded count plus the attempts in flight (failed, count not yet read) is
  at most the failed attempts (`FailuresCounted`); a poller that has read the count is behind by one
  more (`CountIsBehind`). A lost update only lowers the left side. Cardinalities of the set of
  pollers in flight are why `Poller` is assumed finite.
- *ProcessedIsAccounted.* `Found` drops from the property the stay action that another mail may
  displace; a message is `Followed` if it is found or an attempt is moving it. A processed message and
  one about to be marked are followed, and an uninterrupted attempt (`AttemptOK`) has an audit row, a
  result that says where the message is, and no recovery behind it. An attempt that rewrites an
  outcome is itself the reason why the message is followed until it has written its own.
- *AddressedUnlessHarmed* is inductive with the types, *InquiryKept* follows from the guards of the
  steps that write the table, and they are stated because of what they exclude: a second save, a
  fallback and a rescue all come to the same row.

**ScopedKnowledge_proofs** (any slots, calls, candidates and gaps). TypeCorrect and the three safety
properties. `Inv` says where a call can stand (`PlaceOK`) with which slots still to write (`TodoOK`), that it
holds the lock of whatever it has looked up (`LockOK`), and from that, that what it looked up still is
the entry, but for an answer the dashboard replaced in place (`CurrentOK`). HistoryIsComplete is that
invariant's use: without the lock two calls would hold the same version.
- *ImplementsLedger.* Each commit is one step of the ledger, and all else a stutter or a `Hear`. Besides
  `Inv` it needs `ReadWasAnswer`: the answer that a call has read is the slot's, or one an edit replaced.
- *NobodyStuck* (of the calls underway one can go on or is in a circle). Locks and rows are only held by
  calls underway (`HeldOK`) and these are finitely many (`FewUnderway`), so that waits which nobody can
  leave come round: `CircleOfOne`, below. A call that waits for a row waits for one that has locks, so only
  waits for locks are left in the end, each for one holder.
- *EveryStepCounts.* Each step writes one of the slots still to write or brings the call to a later place.

The last two are not in a run's list, as CallsEnd fails with them; they are its safety half, for any number
of calls.

**MailboxPush_proofs** (any mails, deliveries, workers, retries, sizes of listings, both providers).
TypeCorrect, CursorCovers, AcknowledgedIsCovered and ImplementsDelivery. `CoveredStays` is the lemma the rest
hangs on: no step of any actor takes a message out of every window without polling it or counting it.
CursorCovers is not inductive, as a request moves the cursor to where its window ends from what it
read before: `KnownCovered` says that what it read is covered as well. For the refinement the converse
is needed too: a step that gives up some mail brings no other into a window (`EndedRequestCovers`,
`WorkerCovers`).

**StayActions_proofs** (any number of calls, any of the ten actions). TypeCorrect, OneSender,
ShownIsDelivered, TakenBackInFourWays, NobodyStuck and EveryStepCounts. `IInv` ties the copies of a status
together: a row nobody holds is as committed (`Settled`), a holder is in a transaction
(`HeldInTransaction`), an execution holds its own row and no other from its mark to the next commit
(`SenderHolds`), and whatever says in_progress or completed - the committed row, the written one, a
synchronisation's copy, an execution's result - stands for a message or a notice, committed or lost, or is
held by the call that is about to send it. None is inductive without the others: a stale copy is harmless
only because what it copied was delivered. `NotedIsOwn` says that a rollback loses the notice of the
execution itself and of a coordination. TakenBackInFourWays needs at the commit that what a
synchronisation has written is what it read and found due (`WriteIsAsRead`), and that it has no completed
action that is not due among its rows (`TodoIsAsRead` of those to come, `WithdrawnIsAsRead` of those it
holds; ReadInvariance). NobodyStuck follows from `HeldInTransaction` with `CircleOfWaits`, and
EveryStepCounts from one lemma per group of steps: together they are what is left of CallsEnd when
fairness is taken away.

**OperatorRealtime_proofs** (any servers, tabs, publishers, sizes). TypesHold, the type invariant, and
NoSilentStream, with `Fed`: a live stream that is not deaf has a running dispatcher at its server. What a
reconnect replays is typed by `NewerFacts`, an induction over the buffer: just the events that are newer
are selected. `SelectsExists` says first that the recursive function `Newer` is defined by exists.

**InductionLemmas** serves these proofs. The library's induction takes a predicate as a parameter, which no
installed prover can instantiate; these lemmas take a *set* instead and follow from the well-foundedness of
numbers (`UpTo`) and of the subsets of a finite set (`MinimalSubset`). `CircleOfWaits` and `CircleOfOne` are
what the two NobodyStuck need: if each member of a finite set waits for a member of it, for any or for just
one, some of them wait in a circle.

Only checked by TLC: liveness (QueueCatchesUp, Settles, EventuallyHeard, the two CallsEnd, PushArrives,
UnreadIsPolled), which needs fairness. Every invariant, action property and refinement that a run checks
is a theorem.

## 11. Limits

- The code promises no at-most-once mail: an approval repeated after a provider error, or an automatic
  reply repeated after a restart, is sent again. The model keeps the mails, and no property denies it.
- Content is abstracted: parsing, gating and drafting choose any outcome the code can take. Whether a
  mail is classified well is not a question for this project.
- A mail that the first layer or the drop route of the intake discards is on no surface: the filtered
  list calls itself complete (`operator_filtered_recovery.py:5-9`), the drop is meant
  (`email_parser_router.py:417`). `dropped` keeps these apart, and no run decides between the two.
- The page of the dashboard's poll is any set of drafts, and may change at will: an archived row, a filter
  and the newest 200 are not told apart. No code under `src/app` archives an inquiry.
- A file holds a question at most twice in ScopedKnowledge: a third time adds a version in the same way.
  In MailboxPush a mail that was too old for the recent query may be young again at the next poll, which
  allows more than the code does.
- MailboxPush leaves out when a watch expires, which no step of the code learns of but the renewal, and
  two operators with one mailbox.
- ScopedKnowledge leaves out the recording of gaps, the tenant's global FAQ, legacy imports, property
  groups, assets and document metadata, and says nothing of which of an approval and a rejection that
  overlap should win.
- StayActions has statuses only: payloads are left out, so that a view's payload over a held mail's is a
  hazard of the list and no property. A completed proactive touch or status response is never offered
  again in a stay, as `_desired_status` keeps it, and a stale synchronisation may write in_progress over
  completed for good; no document says what should happen. The rows of handoffs and work orders, which a
  second execution refreshes, are not locked in the model, nor is there a bound on what may be due
  together but the run's. Escalations, and the operator's updates of dispatch, turnover and walkthrough,
  are not modelled.
- The hub's in-memory backend (one process, no gap in subscribe) and other query families of the
  dashboard are left out; so is the guest thread a saved row is linked to.
- The Microsoft poller has the same pipeline with another mailbox interface and is not a module yet.
- Bounds are `Max...` constants and the sizes of the sets; all are in the configurations. Proofs do
  not depend on them.

## 12. Running it

    tlc -config review_decisions.cfg MCPreBookingReview
    tlc -config inbox_overlap.cfg InboxPoller
    tlc -config realtime_streams.cfg OperatorRealtime
    tlc -config knowledge_writes.cfg MCScopedKnowledge
    tlc -config mailbox_push.cfg MailboxPush
    tlc -config stay_actions.cfg MCStayActions
    tlapm PreBookingReview_proofs.tla

and likewise for the other configurations and for `InboxPoller_proofs`, `ScopedKnowledge_proofs`,
`MailboxPush_proofs`, `StayActions_proofs`, `OperatorRealtime_proofs` and `InductionLemmas`.

No run uses symmetry, as most check liveness; MCStayActions instead fixes what one of its two calls is, and
MCPreBookingReview the order of a pair.
`PROJECT.json` names the module
of each run, the mutant that each property catches, the lines each definition stands for, and the
hazards of the code with the properties that watch them.
