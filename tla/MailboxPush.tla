---------------------------- MODULE MailboxPush ----------------------------
(***************************************************************************)
(* How a mail in a watched Gmail mailbox comes to be polled: the watch and *)
(* its history cursor (gmail_push.py), the webhook that Google Pub/Sub     *)
(* calls (messaging_webhooks.py), the poll tasks it and the schedule queue *)
(* (tasks.py) and the listings these make (gmail_inbox_poller.py).  What a *)
(* poll makes of a message is InboxPoller's matter.                        *)
(*                                                                         *)
(* One mailbox.  History ids are counted in messages: message m arrived at *)
(* history id m.  Gmail announces an id, Pub/Sub delivers it until it is   *)
(* acknowledged, to several requests at once if one is slow, in any order. *)
(***************************************************************************)
EXTENDS FiniteSets, Integers

CONSTANTS
    Provider,       \* email_provider of its credentials, NULL read as "gmail"
    MaxMail,        \* bound: messages that arrive
    UnreadListed,   \* maxResults of the unread query, 50
    RecentListed,   \* maxResults of the recent_inbox query, 25
    MaxTries,       \* 1 + max_retries of the poll task
    Copy,           \* deliveries of one announcement at the same time
    Worker,         \* Celery workers
    MaxFaults       \* bound: errors and restarts in one behaviour

ASSUME ProviderAssumption == Provider \in {"gmail", "google"}
ASSUME MailAssumption == MaxMail \in Nat
ASSUME ListedAssumption == UnreadListed \in Nat \ {0} /\ RecentListed \in Nat \ {0}
ASSUME TriesAssumption == MaxTries \in Nat \ {0}
ASSUME FaultsAssumption == MaxFaults \in Nat

VARIABLES
    arrived,        \* the mailbox's history id: messages 1 .. arrived are in it
    unread,         \* those nobody has opened
    pushes,         \* history ids announced and not acknowledged
    answers,        \* history ids of watch calls whose answer is not saved yet
    cursor,         \* gmail_watch_history_id
    pc,             \* where a webhook request stands
    known,          \* the cursor it read
    tasks,          \* poll tasks in the broker
    at,             \* where a worker stands
    job,            \* its task
    left,           \* messages it has listed and not come to yet
    polled,         \* messages a poll has processed
    missed,         \* history: in no window any more, or failed in one
    faults          \* errors and restarts so far

mailbox == <<arrived, unread>>
hooks == <<pc, known>>
workers == <<at, job, left>>
vars == <<mailbox, pushes, answers, cursor, hooks, tasks, workers, polled, missed, faults>>
-----------------------------------------------------------------------------
(***************************************************************************)
(* Types.                                                                  *)
(***************************************************************************)
None == -1      \* NULL, and the empty string it becomes
Mail == 1 .. MaxMail
HistoryId == 0 .. MaxMail

(* A webhook request is a delivery of an announcement. *)
Request == Mail \X Copy
Note(r) == r[1]

(* poll_connected_inbox_for_operator.  A task of the schedule has no       *)
(* window, and identical tasks are one: polling twice polls once more.     *)
Task == [kind : {"history", "unread"}, from : HistoryId \cup {None},
         upto : HistoryId, tries : 0 .. MaxTries - 1]

ScheduledTask == [kind |-> "unread", from |-> None, upto |-> 0, tries |-> 0]

TypeOK ==
    /\ arrived \in HistoryId /\ unread \subseteq Mail
    /\ pushes \subseteq Mail
    /\ answers \subseteq HistoryId
    /\ cursor \in HistoryId \cup {None}
    /\ pc \in [Request -> {"idle", "record", "dispatch"}]
    /\ known \in [Request -> HistoryId \cup {None}]
    /\ tasks \subseteq Task
    /\ at \in [Worker -> {"idle", "poll"}]
    /\ job \in [Worker -> Task]
    /\ left \in [Worker -> SUBSET Mail]
    /\ polled \subseteq Mail
    /\ missed \subseteq Mail
    /\ faults \in 0 .. MaxFaults

(* Connected: the credentials are stored and no watch is registered yet. *)
Init ==
    /\ arrived = 0 /\ unread = {}
    /\ pushes = {} /\ answers = {}
    /\ cursor = None
    /\ pc = [r \in Request |-> "idle"]
    /\ known = [r \in Request |-> None]
    /\ tasks = {}
    /\ at = [w \in Worker |-> "idle"]
    /\ job = [w \in Worker |-> ScheduledTask]
    /\ left = [w \in Worker |-> {}]
    /\ polled = {}
    /\ missed = {}
    /\ faults = 0
-----------------------------------------------------------------------------
(***************************************************************************)
(* Helpers.                                                                *)
(***************************************************************************)
Fault == faults < MaxFaults /\ faults' = faults + 1

(* The messages of the history window that starts after one id and ends    *)
(* with another, and those a task of the push asks for.                    *)
Window(from, upto) == {m \in Mail : from < m /\ m <= upto}
Claims(t) == IF t.kind = "history" THEN Window(t.from, t.upto) ELSE {}

(* What a worker has yet to process of its task's window. *)
Holds(w) == IF at[w] = "poll" THEN Claims(job[w]) \cap left[w] ELSE {}

(* The message was polled, was missed, or some window it is in has not     *)
(* been polled yet.                                                        *)
Covered(m) ==
    \/ m \in polled \cup missed
    \/ \E r \in Request : pc[r] = "dispatch" /\ m \in Window(known[r], Note(r))
    \/ \E t \in tasks : m \in Claims(t)
    \/ \E w \in Worker : m \in Holds(w)

(* Mutant: the oldest first. *)
Newest_Oldest(S, n) == {m \in S : Cardinality({k \in S : k < m}) < n}

(* A page of a listing: Gmail lists the newest first. *)
Newest(S, n) == {m \in S : Cardinality({k \in S : k > m}) < n}
-----------------------------------------------------------------------------
(***************************************************************************)
(* The mailbox.                                                            *)
(***************************************************************************)
(* Gmail announces it if a watch is live, which the code cannot see, and   *)
(* does its best.                                                          *)
Arrive ==
    /\ arrived < MaxMail
    /\ arrived' = arrived + 1
    /\ unread' = unread \cup {arrived + 1}
    /\ pushes' \in {pushes \cup {arrived + 1}, pushes}
    /\ UNCHANGED <<answers, cursor, hooks, tasks, workers, polled, missed, faults>>

(* Somebody opens the message in Gmail; no poll does. *)
Open(m) ==
    /\ m \in unread
    /\ unread' = unread \ {m}
    /\ UNCHANGED <<arrived, pushes, answers, cursor, hooks, tasks, workers, polled, missed, faults>>
-----------------------------------------------------------------------------
(***************************************************************************)
(* register_gmail_watch, from the hourly renewal or when the operator      *)
(* connects the mailbox again.  Gmail answers with its history id of the   *)
(* moment, which then replaces the cursor.  One registration at a time.    *)
(***************************************************************************)
Register ==
    /\ answers = {}
    /\ answers' = answers \cup {arrived}
    /\ UNCHANGED <<mailbox, pushes, cursor, hooks, tasks, workers, polled, missed, faults>>

SaveWatch(n) ==
    /\ n \in answers
    /\ answers' = answers \ {n}
    /\ cursor' = n
    /\ missed' = missed \cup {m \in Mail : m <= n /\ ~Covered(m)}
    /\ UNCHANGED <<mailbox, pushes, hooks, tasks, workers, polled, faults>>

(* Only last_push_error is written: the watch is on, the cursor is as it was. *)
SaveWatchFailed(n) ==
    /\ n \in answers
    /\ Fault
    /\ answers' = answers \ {n}
    /\ UNCHANGED <<mailbox, pushes, cursor, hooks, tasks, workers, polled, missed>>
-----------------------------------------------------------------------------
(***************************************************************************)
(* The webhook: record_gmail_push_notification, then the task.  The cursor *)
(* is read and written without a lock.  last_push_history_id is read only  *)
(* while the cursor is NULL, and the first notification sets both.         *)
(***************************************************************************)
(* Mutant: off by one. *)
ShouldTrigger_Skips(incoming, previous) == incoming > previous + 1

(* should_trigger_push_sync: also when nothing is known. *)
ShouldTrigger(incoming, previous) == incoming > previous

(* The request is answered 204: Pub/Sub takes it as the acknowledgement. *)
EndRequest(r) ==
    /\ pc' = [pc EXCEPT ![r] = "idle"]
    /\ known' = [known EXCEPT ![r] = None]

Acknowledge(r) == EndRequest(r) /\ pushes' = pushes \ {Note(r)}

ReadCursor(r) ==
    /\ pc[r] = "idle"
    /\ Note(r) \in pushes
    /\ pc' = [pc EXCEPT ![r] = "record"]
    /\ known' = [known EXCEPT ![r] = cursor]
    /\ UNCHANGED <<mailbox, pushes, answers, cursor, tasks, workers, polled, missed, faults>>

MoveCursor(r) ==
    /\ pc[r] = "record"
    /\ ShouldTrigger(Note(r), known[r])
    /\ cursor' = Note(r)
    /\ pc' = [pc EXCEPT ![r] = "dispatch"]
    /\ UNCHANGED <<mailbox, pushes, answers, known, tasks, workers, polled, missed, faults>>

(* duplicate_or_stale_history_id. *)
Ignore(r) ==
    /\ pc[r] = "record"
    /\ ~ShouldTrigger(Note(r), known[r])
    /\ cursor' = IF cursor = None THEN Note(r) ELSE cursor
    /\ Acknowledge(r)
    /\ UNCHANGED <<mailbox, answers, tasks, workers, polled, missed, faults>>

(* Mutant: the window starts at the id it should end with. *)
Dispatch_FromIncoming(r) ==
    /\ pc[r] = "dispatch"
    /\ tasks' = tasks \cup {[kind |-> "history", from |-> Note(r), upto |-> Note(r), tries |-> 0]}
    /\ Acknowledge(r)
    /\ UNCHANGED <<mailbox, answers, cursor, workers, polled, missed, faults>>

Dispatch(r) ==
    /\ pc[r] = "dispatch"
    /\ tasks' = tasks \cup {[kind |-> "history", from |-> known[r], upto |-> Note(r), tries |-> 0]}
    /\ Acknowledge(r)
    /\ UNCHANGED <<mailbox, answers, cursor, workers, polled, missed, faults>>

(* Mutant: the error is swallowed, and the answer is 204. *)
HookFailed_Swallowed(r) ==
    /\ pc[r] # "idle"
    /\ Fault
    /\ Acknowledge(r)
    /\ missed' = IF pc[r] = "dispatch" THEN missed \cup (Window(known[r], Note(r)) \ polled)
                                       ELSE missed
    /\ UNCHANGED <<mailbox, answers, cursor, tasks, workers, polled>>

(* An error or a restart: Pub/Sub will deliver it again, but once the      *)
(* cursor has moved it will be taken for a duplicate.                      *)
HookFailed(r) ==
    /\ pc[r] # "idle"
    /\ Fault
    /\ EndRequest(r)
    /\ missed' = IF pc[r] = "dispatch" THEN missed \cup (Window(known[r], Note(r)) \ polled)
                                       ELSE missed
    /\ UNCHANGED <<mailbox, pushes, answers, cursor, tasks, workers, polled>>
-----------------------------------------------------------------------------
(***************************************************************************)
(* The poll task: a worker takes it, lists messages and goes through them. *)
(* Taking and listing are one step, as what is listed does not depend on   *)
(* when the worker began.  The task is acknowledged when it ends.          *)
(***************************************************************************)
(* The worker w has listed S for the task t. *)
GoThrough(w, t, S) ==
    /\ at' = [at EXCEPT ![w] = "poll"]
    /\ job' = [job EXCEPT ![w] = t]
    /\ left' = [left EXCEPT ![w] = S]

EndTask(w) ==
    /\ at' = [at EXCEPT ![w] = "idle"]
    /\ job' = [job EXCEPT ![w] = ScheduledTask]
    /\ left' = [left EXCEPT ![w] = {}]

(* What the query for recent mail, newer_than:14d, may list: messages 1 to *)
(* old are older than that, however few or many they are.                  *)
RecentPages == {Newest((old + 1) .. arrived, RecentListed) : old \in 0 .. arrived}

(* The page of unread mail, or, when there is none, the recent mail: the   *)
(* five-minute schedule's task.  It carries nothing, and is only looked at *)
(* once a worker has it.                                                   *)
PollUnread(w) ==
    /\ at[w] = "idle"
    /\ \E page \in RecentPages :
         GoThrough(w, ScheduledTask, IF unread # {} THEN Newest(unread, UnreadListed) ELSE page)
    /\ UNCHANGED <<mailbox, pushes, answers, cursor, hooks, tasks, polled, missed, faults>>

(* What a task of the push lists: poll_from_history, the messages of the   *)
(* window.  Only this task tells "google" from "gmail"; then it hands its  *)
(* mode to poll_with_mode, which takes it for the unread query.            *)
PageOf(t) == IF Provider = "gmail" THEN Claims(t) ELSE Newest(unread, UnreadListed)

(* What is neither listed nor polled before is missed, as the task goes.   *)
PollWindow(w, t) ==
    /\ at[w] = "idle"
    /\ Provider = "gmail" => t.from # None
    /\ tasks' = tasks \ {t}
    /\ GoThrough(w, t, PageOf(t))
    /\ missed' = missed \cup (Claims(t) \ (PageOf(t) \cup polled))
    /\ UNCHANGED <<mailbox, pushes, answers, cursor, hooks, polled, faults>>

(* Without a start, or from one Gmail no longer has (404), poll_from_history *)
(* lists the recent mail instead.                                          *)
PollRecent(w, t) ==
    /\ at[w] = "idle"
    /\ Provider = "gmail"
    /\ \/ t.from = None /\ UNCHANGED faults
       \/ t.from # None /\ Fault
    /\ tasks' = tasks \ {t}
    /\ \E page \in RecentPages :
       /\ GoThrough(w, t, page)
       /\ missed' = missed \cup (Claims(t) \ (page \cup polled))
    /\ UNCHANGED <<mailbox, pushes, answers, cursor, hooks, polled>>

Retried(t) == [kind |-> t.kind, from |-> t.from, upto |-> t.upto, tries |-> t.tries + 1]

(* Mutant: it is retried for ever. *)
ListFailed_Forever(w, t) ==
    /\ at[w] = "idle"
    /\ tasks' = (tasks \ {t}) \cup {Retried(t)}
    /\ UNCHANGED <<mailbox, pushes, answers, cursor, hooks, workers, polled, missed, faults>>

(* The task raised before it had a listing - the database, the token, the  *)
(* history: it is retried with its window, max_retries times.  An error    *)
(* that lasts until the last of them counts as one fault.                  *)
ListFailed(w, t) ==
    /\ at[w] = "idle"
    /\ \/ /\ t.tries + 1 < MaxTries
          /\ Fault
          /\ tasks' = (tasks \ {t}) \cup {Retried(t)}
          /\ UNCHANGED missed
       \/ /\ t.tries + 1 = MaxTries
          /\ tasks' = tasks \ {t}
          /\ missed' = missed \cup (Claims(t) \ polled)
          /\ UNCHANGED faults
    /\ UNCHANGED <<mailbox, pushes, answers, cursor, hooks, workers, polled>>

(* Later, and in the other listings, the poll swallows such an error and   *)
(* the task ends well.                                                     *)
PollFailed(w) ==
    /\ at[w] = "poll"
    /\ Fault
    /\ missed' = missed \cup (Holds(w) \ polled)
    /\ EndTask(w)
    /\ UNCHANGED <<mailbox, pushes, answers, cursor, hooks, tasks, polled>>

(* _process_one_message settles it ... *)
Process(w, m) ==
    /\ m \in left[w]
    /\ polled' = polled \cup {m}
    /\ left' = [left EXCEPT ![w] = @ \ {m}]
    /\ missed' = missed \ {m}
    /\ UNCHANGED <<mailbox, pushes, answers, cursor, hooks, tasks, at, job, faults>>

(* ... or fails, and a later listing may bring it again. *)
ProcessFailed(w, m) ==
    /\ m \in left[w]
    /\ Fault
    /\ left' = [left EXCEPT ![w] = @ \ {m}]
    /\ missed' = missed \cup ({m} \ polled)
    /\ UNCHANGED <<mailbox, pushes, answers, cursor, hooks, tasks, at, job, polled>>

Finish(w) ==
    /\ at[w] = "poll" /\ left[w] = {}
    /\ EndTask(w)
    /\ UNCHANGED <<mailbox, pushes, answers, cursor, hooks, tasks, polled, missed, faults>>

(* Mutant: the task was acknowledged when it was taken. *)
Crash_Acknowledged(w) ==
    /\ at[w] = "poll"
    /\ Fault
    /\ EndTask(w)
    /\ UNCHANGED <<mailbox, pushes, answers, cursor, hooks, tasks, polled, missed>>

(* The worker stops: task_acks_late and task_reject_on_worker_lost give    *)
(* the task back, window and all.                                          *)
Crash(w) ==
    /\ at[w] = "poll"
    /\ Fault
    /\ tasks' = IF job[w].kind = "history" THEN tasks \cup {job[w]} ELSE tasks
    /\ EndTask(w)
    /\ UNCHANGED <<mailbox, pushes, answers, cursor, hooks, polled, missed>>
-----------------------------------------------------------------------------
HookContinues(r) == MoveCursor(r) \/ Ignore(r) \/ Dispatch(r)
Delivery(r) == ReadCursor(r) \/ HookContinues(r) \/ HookFailed(r)

Takes(w) == \E t \in tasks : PollWindow(w, t) \/ PollRecent(w, t) \/ ListFailed(w, t)
GoesOn(w) == (\E m \in Mail : Process(w, m)) \/ Finish(w)
Breaks(w) == PollFailed(w) \/ Crash(w) \/ \E m \in Mail : ProcessFailed(w, m)

Next ==
    \/ Arrive \/ Register
    \/ \E m \in Mail : Open(m)
    \/ \E n \in HistoryId : SaveWatch(n) \/ SaveWatchFailed(n)
    \/ \E r \in Request : Delivery(r)
    \/ \E w \in Worker : PollUnread(w) \/ Takes(w) \/ GoesOn(w) \/ Breaks(w)

Spec == Init /\ [][Next]_vars

(* Pub/Sub delivers what is not acknowledged, requests and polls that run  *)
(* get on or fail, the schedule is on (ENABLE_INBOX_POLL_SCHEDULE) and no  *)
(* task waits for ever.  Nothing makes mail arrive or be opened, a watch   *)
(* live, or anything fail.                                                 *)
Fairness ==
    /\ \A n \in Mail : WF_vars(\E c \in Copy : Delivery(<<n, c>>))
    /\ SF_vars(\E w \in Worker : PollUnread(w))
    /\ SF_vars(\E w \in Worker : Takes(w))
    /\ \A w \in Worker : WF_vars(GoesOn(w) \/ Breaks(w))

FairSpec == Spec /\ Fairness
-----------------------------------------------------------------------------
(***************************************************************************)
(* What the push path promises.                                            *)
(***************************************************************************)
(* The cursor may jump ahead, be moved back by an older push that commits  *)
(* late, or be moved on by a request that then dies; but no mail at or     *)
(* below it is forgotten: it was polled, a window with it is on its way to *)
(* a poll, or it was jumped over by a registration, lost with its request, *)
(* or given up by its poll.                                                *)
CursorCovers == \A m \in Mail : m <= cursor => Covered(m)

(* However often and in whatever order Pub/Sub delivers: no announcement  *)
(* is acknowledged as stale or a duplicate while its mail is in no window. *)
AcknowledgedIsCovered == [][\A m \in pushes : m \in pushes' \/ Covered(m)']_vars

(* Request by request, cursor, retries and redeliveries implement what     *)
(* MailDelivery says of a mail: a mail that is owed a poll is not let go.  *)
Standing == [m \in Mail |-> IF m \in polled THEN "polled"
                           ELSE IF m \in missed THEN "missed"
                           ELSE IF Covered(m) THEN "owed" ELSE "none"]

Delivered == INSTANCE MailDelivery WITH announced <- pushes, standing <- Standing

ImplementsDelivery == Delivered!Spec

(* An announced mail is polled, opened in Gmail meanwhile or not, unless   *)
(* its window was missed.                                                  *)
PushArrives == \A m \in Mail : (m \in pushes) ~> (m \in polled \cup missed)

(* "Only messages introduced by the new history window are handed to the   *)
(* parser path, not an arbitrary recent slice of the mailbox"              *)
(* (gmail_inbox_poller.py:1618): a poll that has a window goes through it. *)
PollsItsWindow == \A w \in Worker :
    at[w] = "poll" /\ job[w].kind = "history" /\ job[w].from # None =>
        left[w] \subseteq Claims(job[w]) /\ Claims(job[w]) \subseteq left[w] \cup polled

(* The schedule repairs what the push missed: a mail that stays unread is  *)
(* polled, unless a page of newer unread mail is before it - polled mail   *)
(* counts, for no poll marks its messages as read.                         *)
Buried(m) == Cardinality({k \in unread : k > m}) >= UnreadListed

UnreadIsPolled ==
    \A m \in Mail : (m <= arrived) ~> (m \in polled \/ m \notin unread \/ Buried(m))
=============================================================================
