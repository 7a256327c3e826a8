-------------------------- MODULE OperatorRealtime --------------------------
(***************************************************************************)
(* One tenant's realtime events: the Redis backend of the operator hub     *)
(* (realtime_hub.py), the event stream endpoint (realtime_stream of        *)
(* operator_dashboard_v2_api.py) and the dashboard tabs that refetch the   *)
(* pre-booking feed on an event (RealtimeBridge.tsx, invalidation.ts).     *)
(*                                                                         *)
(* An event carries no data a tab uses: it only says that something        *)
(* changed.  The database is the number of committed changes, the feed a   *)
(* tab shows the number it last read.  Redis is external: its counter and  *)
(* list are atomic, and each dispatcher gets what is published after it    *)
(* subscribed, in order.  So is TanStack Query's fetchQuery.               *)
(***************************************************************************)
EXTENDS Integers, Sequences

CONSTANTS
    Server,         \* API processes with a hub
    Tab,            \* open dashboard tabs
    Publisher,      \* calls and tasks that publish, in any process
    BufferSize,     \* the replay buffer's LTRIM (200)
    QueueSize,      \* a subscriber's asyncio.Queue(maxsize=100)
    MaxChanges,     \* bound: committed changes in one behaviour
    MaxFaults       \* bound: errors, restarts and lost connections

ASSUME ServerAssumption == Server # {}
ASSUME SizesAssumption == BufferSize \in Nat \ {0} /\ QueueSize \in Nat \ {0}
ASSUME BoundsAssumption == MaxChanges \in Nat /\ MaxFaults \in Nat

VARIABLES
    changes,        \* the database: committed changes
    task,           \* where a publisher stands
    ticket,         \* the event id a publisher drew
    counter,        \* Redis: operator-realtime-counter
    buffer,         \* Redis: operator-realtime-buffer
    channel,        \* Redis: published, not yet read by a server's dispatcher
    dispatcher,     \* a server's dispatcher task
    link,           \* a tab's event stream
    host,           \* the server it goes to
    replay,         \* the missed events, still to be sent
    queue,          \* the stream's subscriber queue
    lastId,         \* the tab's Last-Event-ID
    unheard,        \* history: published to, and not told since
    deaf,           \* history: its stream's dispatcher failed
    timer,          \* the debounce timer of summary.updated runs
    fetch,          \* the tab's request for the feed
    answer,         \* what its answer will show
    fresh,          \* the feed is younger than its staleTime
    feed,           \* what the tab shows
    faults          \* faults so far

redis == <<counter, buffer, channel>>
stream == <<link, host, replay, queue, lastId>>
hearing == <<unheard, deaf>>
dashboard == <<timer, fetch, answer, fresh, feed>>
vars == <<changes, task, ticket, redis, dispatcher, stream, hearing, dashboard, faults>>
-----------------------------------------------------------------------------
Kind == {"inquiry", "summary"}
Event == [id : Nat, kind : Kind]
NoEvent == -1
Greeting == [id |-> 0, kind |-> "summary"]

TypeOK ==
    /\ changes \in 0 .. MaxChanges
    /\ task \in [Publisher -> {"idle", "changed", "numbered"}]
    /\ ticket \in [Publisher -> Nat]
    /\ counter \in Nat
    /\ buffer \in Seq(Event) /\ Len(buffer) <= BufferSize
    /\ channel \in [Server -> Seq(Event)]
    /\ dispatcher \in [Server -> {"none", "running", "failed"}]
    /\ link \in [Tab -> {"closed", "reading", "read", "greeting", "open", "refused"}]
    /\ host \in [Tab -> Server]
    /\ replay \in [Tab -> Seq(Event)]
    /\ queue \in [Tab -> Seq(Event)] /\ \A t \in Tab : Len(queue[t]) <= QueueSize
    /\ lastId \in [Tab -> Nat \cup {NoEvent}]
    /\ unheard \in [Tab -> BOOLEAN]
    /\ deaf \in [Tab -> BOOLEAN]
    /\ timer \in [Tab -> BOOLEAN]
    /\ fetch \in [Tab -> {"none", "asked", "answered"}]
    /\ answer \in [Tab -> 0 .. MaxChanges]
    /\ fresh \in [Tab -> BOOLEAN]
    /\ feed \in [Tab -> 0 .. MaxChanges]
    /\ faults \in 0 .. MaxFaults

(* The tabs are loaded: they show the feed, read a moment ago. *)
Init ==
    /\ changes = 0
    /\ task = [p \in Publisher |-> "idle"]
    /\ ticket = [p \in Publisher |-> 0]
    /\ counter = 0 /\ buffer = <<>>
    /\ channel = [s \in Server |-> <<>>]
    /\ dispatcher = [s \in Server |-> "none"]
    /\ link = [t \in Tab |-> "closed"]
    /\ host = [t \in Tab |-> CHOOSE s \in Server : TRUE]
    /\ replay = [t \in Tab |-> <<>>]
    /\ queue = [t \in Tab |-> <<>>]
    /\ lastId = [t \in Tab |-> NoEvent]
    /\ unheard = [t \in Tab |-> FALSE]
    /\ deaf = [t \in Tab |-> FALSE]
    /\ timer = [t \in Tab |-> FALSE]
    /\ fetch = [t \in Tab |-> "none"]
    /\ answer = [t \in Tab |-> 0]
    /\ fresh = [t \in Tab |-> TRUE]
    /\ feed = [t \in Tab |-> 0]
    /\ faults = 0

Fault == faults < MaxFaults /\ faults' = faults + 1
-----------------------------------------------------------------------------
(***************************************************************************)
(* publish: callers commit a change first and swallow its errors.          *)
(***************************************************************************)
Change(p) ==
    /\ task[p] = "idle" /\ changes < MaxChanges
    /\ changes' = changes + 1
    /\ task' = [task EXCEPT ![p] = "changed"]
    /\ UNCHANGED <<ticket, redis, dispatcher, stream, hearing, dashboard, faults>>

(* INCR *)
Number(p) ==
    /\ task[p] = "changed"
    /\ counter' = counter + 1
    /\ ticket' = [ticket EXCEPT ![p] = counter + 1]
    /\ task' = [task EXCEPT ![p] = "numbered"]
    /\ UNCHANGED <<changes, buffer, channel, dispatcher, stream, hearing, dashboard, faults>>

Trimmed(s, n) == IF Len(s) > n THEN SubSeq(s, Len(s) - n + 1, Len(s)) ELSE s

(* Mutant: no LTRIM. *)
Buffered_Untrimmed(e) == Append(buffer, e)

Buffered(e) == Trimmed(Append(buffer, e), BufferSize)

(* RPUSH, LTRIM and PUBLISH in one transaction; ids need not be in order.  *)
Push(p, k) ==
    /\ task[p] = "numbered"
    /\ LET e == [id |-> ticket[p], kind |-> k] IN
       /\ buffer' = Buffered(e)
       /\ channel' = [s \in Server |->
             IF dispatcher[s] = "running" THEN Append(channel[s], e) ELSE channel[s]]
    /\ task' = [task EXCEPT ![p] = "idle"]
    /\ ticket' = [ticket EXCEPT ![p] = 0]
    /\ unheard' = [t \in Tab |-> TRUE]
    /\ UNCHANGED <<changes, counter, dispatcher, stream, deaf, dashboard, faults>>

PublishFailed(p) ==
    /\ task[p] # "idle"
    /\ Fault
    /\ task' = [task EXCEPT ![p] = "idle"]
    /\ ticket' = [ticket EXCEPT ![p] = 0]
    /\ UNCHANGED <<changes, redis, dispatcher, stream, hearing, dashboard>>
-----------------------------------------------------------------------------
(***************************************************************************)
(* The stream.                                                             *)
(***************************************************************************)
(* A request that is being served. *)
Live(t) == link[t] \in {"reading", "read", "greeting", "open"}

(* _ensure_started: a dispatcher that is not running is started. *)
Started(s) == [dispatcher EXCEPT ![s] = "running"]

(* Mutant: a stream that was lost is not asked for again. *)
Connect_Once(t, s) ==
    /\ link[t] = "closed" /\ lastId[t] = NoEvent
    /\ dispatcher' = Started(s)
    /\ link' = [link EXCEPT ![t] = "reading"]
    /\ host' = [host EXCEPT ![t] = s]
    /\ deaf' = [deaf EXCEPT ![t] = FALSE]
    /\ UNCHANGED <<changes, task, ticket, redis, replay, queue, lastId, unheard, dashboard, faults>>

(* A request for /realtime, or EventSource's own reconnect; any server. *)
Connect(t, s) ==
    /\ link[t] = "closed"
    /\ dispatcher' = Started(s)
    /\ link' = [link EXCEPT ![t] = "reading"]
    /\ host' = [host EXCEPT ![t] = s]
    /\ deaf' = [deaf EXCEPT ![t] = FALSE]
    /\ UNCHANGED <<changes, task, ticket, redis, replay, queue, lastId, unheard, dashboard, faults>>

(* The answer is an error: EventSource does not try again. *)
Refused(t) ==
    /\ link[t] \in {"closed", "reading"}
    /\ Fault
    /\ link' = [link EXCEPT ![t] = "refused"]
    /\ UNCHANGED <<changes, task, ticket, redis, dispatcher, host, replay, queue, lastId, hearing,
                   dashboard>>

(* The events of s with a higher id, in the order they are in. *)
Newer(s, id) ==
    LET selected[n \in 0 .. Len(s)] ==
            IF n = 0 THEN <<>>
            ELSE IF s[n].id > id THEN Append(selected[n - 1], s[n])
            ELSE selected[n - 1]
    IN selected[Len(s)]

(* LRANGE; a tab that has had no event yet has missed none. *)
Missed(t) == IF lastId[t] = NoEvent THEN <<>> ELSE Newer(buffer, lastId[t])

ReadBuffer(t) ==
    /\ link[t] = "reading"
    /\ replay' = [replay EXCEPT ![t] = Missed(t)]
    /\ link' = [link EXCEPT ![t] = "read"]
    /\ UNCHANGED <<changes, task, ticket, redis, dispatcher, host, queue, lastId, hearing, dashboard,
                   faults>>

(* Mutant: the stream does not begin with a summary.updated. *)
Register_NoGreeting(t) ==
    /\ link[t] = "read"
    /\ link' = [link EXCEPT ![t] = "open"]
    /\ UNCHANGED <<changes, task, ticket, redis, dispatcher, host, replay, queue, lastId, hearing,
                   dashboard, faults>>

(* Only now is the queue among the subscribers: what was published since   *)
(* the LRANGE is in neither.                                               *)
Register(t) ==
    /\ link[t] = "read"
    /\ link' = [link EXCEPT ![t] = "greeting"]
    /\ UNCHANGED <<changes, task, ticket, redis, dispatcher, host, replay, queue, lastId, hearing,
                   dashboard, faults>>

(* _enqueue: a full queue loses its oldest event. *)
Enqueued(q, e) == Append(IF Len(q) = QueueSize THEN Tail(q) ELSE q, e)

(* The dispatcher hands one event to every stream of its server. *)
Dispatch(s) ==
    /\ dispatcher[s] = "running" /\ channel[s] # <<>>
    /\ channel' = [channel EXCEPT ![s] = Tail(@)]
    /\ queue' = [t \in Tab |->
          IF link[t] \in {"greeting", "open"} /\ host[t] = s THEN Enqueued(queue[t], Head(channel[s])) ELSE queue[t]]
    /\ UNCHANGED <<changes, task, ticket, counter, buffer, dispatcher, link, host, replay, lastId,
                   hearing, dashboard, faults>>

(* It raised: the streams stay open, and nobody feeds them. *)
DispatcherFailed(s) ==
    /\ dispatcher[s] = "running"
    /\ Fault
    /\ dispatcher' = [dispatcher EXCEPT ![s] = "failed"]
    /\ channel' = [channel EXCEPT ![s] = <<>>]
    /\ deaf' = [t \in Tab |-> deaf[t] \/ (host[t] = s /\ Live(t))]
    /\ UNCHANGED <<changes, task, ticket, counter, buffer, stream, unheard, dashboard>>

(* The connections of tabs in T end: the queues go, EventSource reconnects. *)
Closed(T) ==
    /\ link' = [t \in Tab |-> IF t \in T THEN "closed" ELSE link[t]]
    /\ replay' = [t \in Tab |-> IF t \in T THEN <<>> ELSE replay[t]]
    /\ queue' = [t \in Tab |-> IF t \in T THEN <<>> ELSE queue[t]]
    /\ UNCHANGED <<host, lastId>>

Disconnect(t) ==
    /\ Live(t)
    /\ Fault
    /\ Closed({t})
    /\ UNCHANGED <<changes, task, ticket, redis, dispatcher, hearing, dashboard>>

(* A server restarts. *)
Restart(s) ==
    /\ dispatcher[s] # "none"
    /\ Fault
    /\ dispatcher' = [dispatcher EXCEPT ![s] = "none"]
    /\ channel' = [channel EXCEPT ![s] = <<>>]
    /\ Closed({t \in Tab : host[t] = s /\ Live(t)})
    /\ UNCHANGED <<changes, task, ticket, counter, buffer, hearing, dashboard>>
-----------------------------------------------------------------------------
(***************************************************************************)
(* The dashboard.                                                          *)
(***************************************************************************)
(* fetchQuery with the feed's staleTime: a young answer is taken from the  *)
(* cache, a request on its way is joined.                                  *)
Refetched(t) ==
    IF fetch[t] = "none" /\ ~fresh[t] THEN [fetch EXCEPT ![t] = "asked"] ELSE fetch

(* An event arrives.  An inquiry's is refetched for at once, a summary's   *)
(* when the debounce timer ends.                                           *)
Heard(t, e) ==
    /\ lastId' = [lastId EXCEPT ![t] = e.id]
    /\ unheard' = [unheard EXCEPT ![t] = FALSE]
    /\ IF e.kind = "summary"
       THEN timer' = [timer EXCEPT ![t] = TRUE] /\ UNCHANGED fetch
       ELSE fetch' = Refetched(t) /\ UNCHANGED timer
    /\ UNCHANGED <<changes, task, ticket, redis, dispatcher, host, deaf, answer, fresh, feed, faults>>

(* The stream begins with a summary.updated. *)
Greet(t) ==
    /\ link[t] = "greeting"
    /\ link' = [link EXCEPT ![t] = "open"]
    /\ Heard(t, Greeting)
    /\ UNCHANGED <<replay, queue>>

(* Then come the missed events, and then what the dispatcher hands over. *)
Receive(t) ==
    /\ link[t] = "open"
    /\ \/ /\ replay[t] # <<>>
          /\ replay' = [replay EXCEPT ![t] = Tail(@)]
          /\ UNCHANGED <<link, queue>>
          /\ Heard(t, Head(replay[t]))
       \/ /\ replay[t] = <<>> /\ queue[t] # <<>>
          /\ queue' = [queue EXCEPT ![t] = Tail(@)]
          /\ UNCHANGED <<link, replay>>
          /\ Heard(t, Head(queue[t]))

Debounced(t) ==
    /\ timer[t]
    /\ timer' = [timer EXCEPT ![t] = FALSE]
    /\ fetch' = Refetched(t)
    /\ UNCHANGED <<changes, task, ticket, redis, dispatcher, stream, hearing, answer, fresh, feed,
                   faults>>

(* A server reads the feed for the tab, and the answer arrives, or not. *)
Answer(t) ==
    /\ fetch[t] = "asked"
    /\ fetch' = [fetch EXCEPT ![t] = "answered"]
    /\ answer' = [answer EXCEPT ![t] = changes]
    /\ UNCHANGED <<changes, task, ticket, redis, dispatcher, stream, hearing, timer, fresh, feed,
                   faults>>

Show(t) ==
    /\ fetch[t] = "answered"
    /\ fetch' = [fetch EXCEPT ![t] = "none"]
    /\ feed' = [feed EXCEPT ![t] = answer[t]]
    /\ fresh' = [fresh EXCEPT ![t] = TRUE]
    /\ answer' = [answer EXCEPT ![t] = 0]
    /\ UNCHANGED <<changes, task, ticket, redis, dispatcher, stream, hearing, timer, faults>>

FetchFailed(t) ==
    /\ fetch[t] # "none"
    /\ Fault
    /\ fetch' = [fetch EXCEPT ![t] = "none"]
    /\ answer' = [answer EXCEPT ![t] = 0]
    /\ UNCHANGED <<changes, task, ticket, redis, dispatcher, stream, hearing, timer, fresh, feed>>

(* staleTime passes. *)
Age(t) ==
    /\ fresh[t]
    /\ fresh' = [fresh EXCEPT ![t] = FALSE]
    /\ UNCHANGED <<changes, task, ticket, redis, dispatcher, stream, hearing, timer, fetch, answer,
                   feed, faults>>
-----------------------------------------------------------------------------
Publishes(p) == Number(p) \/ \E k \in Kind : Push(p, k)

Streams(t) ==
    \/ \E s \in Server : Connect(t, s)
    \/ ReadBuffer(t) \/ Register(t) \/ Greet(t) \/ Receive(t)

Refetches(t) == Debounced(t) \/ Answer(t) \/ Show(t)

Fails ==
    \/ \E p \in Publisher : PublishFailed(p)
    \/ \E s \in Server : DispatcherFailed(s) \/ Restart(s)
    \/ \E t \in Tab : Refused(t) \/ Disconnect(t) \/ FetchFailed(t)

Next ==
    \/ \E p \in Publisher : Change(p) \/ Publishes(p)
    \/ \E s \in Server : Dispatch(s)
    \/ \E t \in Tab : Streams(t) \/ Refetches(t) \/ Age(t)
    \/ Fails

Spec == Init /\ [][Next]_vars

(* Calls go on, a dispatcher reads what there is, EventSource reconnects,  *)
(* timers end and servers answer.  Nobody must change or break anything.   *)
Fairness ==
    /\ \A p \in Publisher : WF_vars(Publishes(p))
    /\ \A s \in Server : WF_vars(Dispatch(s))
    /\ \A t \in Tab : WF_vars(Streams(t)) /\ WF_vars(Refetches(t)) /\ WF_vars(Age(t))

FairSpec == Spec /\ Fairness
-----------------------------------------------------------------------------
(***************************************************************************)
(* What the operator is told.                                              *)
(***************************************************************************)
(* A tab with an open stream that was not told of the last publish has     *)
(* something coming: though an event published between the LRANGE and the  *)
(* registration is in neither, and a full queue loses events, the greeting *)
(* was sent later, or a later event makes up for it.  Only a failed        *)
(* dispatcher may silence a stream.                                        *)
NoSilentStream ==
    \A t \in Tab :
        (link[t] = "open" /\ unheard[t] /\ ~deaf[t]) =>
            replay[t] # <<>> \/ queue[t] # <<>> \/ channel[host[t]] # <<>>

(* Every publish reaches every tab in the end, by this event or another    *)
(* one, through disconnections and restarts, unless its stream's dispatcher*)
(* failed or its request was refused.                                      *)
EventuallyHeard ==
    \A t \in Tab : unheard[t] ~> (~unheard[t] \/ deaf[t] \/ link[t] = "refused")

(* docs/DASHBOARD_V2_TANSTACK_MIGRATION.md:127 "Realtime should invalidate *)
(* queries": when changes stop, every tab shows the last one.              *)
FeedFollows == \A t \in Tab : <>[](feed[t] = changes)
=============================================================================
