----------------------- MODULE OperatorRealtime_proofs -----------------------
(* Theorems about OperatorRealtime, for any number of servers, tabs,       *)
(* publishers, changes and faults and any sizes of the buffers.            *)
EXTENDS OperatorRealtime, InductionLemmas, SequenceTheorems, TLAPS

(* The types of what an event goes through on its way to a stream.         *)
LineOK ==
    /\ ticket \in [Publisher -> Nat]
    /\ counter \in Nat
    /\ channel \in [Server -> Seq(Event)]
    /\ dispatcher \in [Server -> {"none", "running", "failed"}]
    /\ link \in [Tab -> {"closed", "reading", "read", "greeting", "open", "refused"}]
    /\ host \in [Tab -> Server]
    /\ queue \in [Tab -> Seq(Event)]
    /\ unheard \in [Tab -> BOOLEAN]
    /\ deaf \in [Tab -> BOOLEAN]

(* A live stream is fed, unless its dispatcher failed. *)
Fed == \A t \in Tab : Live(t) /\ ~deaf[t] => dispatcher[host[t]] = "running"

Inv == Fed /\ NoSilentStream

(* What a step leaves alone when it concerns neither streams nor events.   *)
line == <<ticket, counter, channel, dispatcher, link, host, replay, queue, unheard, deaf>>
-----------------------------------------------------------------------------
(***************************************************************************)
(* The operators.                                                          *)
(***************************************************************************)
LEMMA EnqueuedFacts ==
  ASSUME NEW q \in Seq(Event), NEW e \in Event
  PROVE  Enqueued(q, e) \in Seq(Event) /\ Enqueued(q, e) # <<>>
  <1>1. Len(q) = QueueSize => Tail(q) \in Seq(Event)
    BY SizesAssumption
  <1>2. \A p \in Seq(Event) : Append(p, e) \in Seq(Event) /\ Append(p, e) # <<>>
    OBVIOUS
  <1>3. QED
    BY <1>1, <1>2 DEF Enqueued

LEMMA HeadTail ==
  ASSUME NEW q \in Seq(Event), q # <<>>
  PROVE  Head(q) \in Event /\ Tail(q) \in Seq(Event)
  OBVIOUS
-----------------------------------------------------------------------------
(***************************************************************************)
(* What a reconnect replays.                                               *)
(***************************************************************************)
(* What Newer recurses through. *)
Selects(f, s, id) ==
    f = [n \in 0 .. Len(s) |->
           IF n = 0 THEN <<>>
           ELSE IF s[n].id > id THEN Append(f[n - 1], s[n])
           ELSE f[n - 1]]

LEMMA SelectsExists ==
  ASSUME NEW s \in Seq(Event), NEW id
  PROVE  \E f : Selects(f, s, id)
  <1> DEFINE Step(p, n) == IF s[n].id > id THEN Append(p, s[n]) ELSE p
             Upto(n, f) == f[0] = <<>> /\ \A i \in 1 .. n : f[i] = Step(f[i - 1], i)
             S == {n \in 0 .. Len(s) : \E f : Upto(n, f)}
  <1>1. Len(s) \in Nat
    OBVIOUS
  <1>2. 0 \in S
    <2>1. Upto(0, [i \in {0} |-> <<>>])
      OBVIOUS
    <2>2. \E f : Upto(0, f)
      <3> HIDE DEF Upto
      <3>1. QED
        BY <2>1
    <2>3. QED
      BY <1>1, <2>2
  <1>3. ASSUME NEW n \in 1 .. Len(s), n - 1 \in S PROVE n \in S
    <2>1. PICK f : Upto(n - 1, f)
      BY <1>3
    <2> DEFINE g == [i \in 0 .. n |-> IF i = n THEN Step(f[n - 1], n) ELSE f[i]]
    <2> HIDE DEF Step
    <2>2. Upto(n, g)
      <3>1. g[0] = <<>>
        BY <2>1
      <3>2. ASSUME NEW i \in 1 .. n PROVE g[i] = Step(g[i - 1], i)
        <4>1. CASE i = n
          BY <4>1
        <4>2. CASE i # n
          <5>1. i \in 1 .. n - 1 /\ g[i] = f[i] /\ g[i - 1] = f[i - 1]
            BY <4>2
          <5>2. QED
            BY <5>1, <2>1
        <4>3. QED
          BY <4>1, <4>2
      <3>3. QED
        BY <3>1, <3>2
    <2>3. \E h : Upto(n, h)
      <3> HIDE DEF Upto, g
      <3>1. QED
        BY <2>2
    <2>4. QED
      BY <2>3
  <1>4. Len(s) \in S
    <2> HIDE DEF S
    <2>1. 0 .. Len(s) \subseteq S
      BY <1>1, <1>2, <1>3, UpTo
    <2>2. QED
      BY <1>1, <2>1
  <1>5. PICK f : Upto(Len(s), f)
    BY <1>4
  <1> DEFINE g == [i \in 0 .. Len(s) |-> f[i]]
  <1>6. ASSUME NEW n \in 0 .. Len(s)
        PROVE  g[n] = IF n = 0 THEN <<>> ELSE Step(g[n - 1], n)
    <2> HIDE DEF Step
    <2>1. CASE n = 0
      BY <2>1, <1>5, <1>1
    <2>2. CASE n # 0
      <3>1. n \in 1 .. Len(s) /\ g[n] = f[n] /\ g[n - 1] = f[n - 1]
        BY <2>2, <1>1
      <3>2. QED
        BY <3>1, <2>2, <1>5
    <2>3. QED
      BY <2>1, <2>2
  <1>7. Selects(g, s, id)
    BY <1>6 DEF Selects
  <1>8. QED
    BY <1>7

(* Newer selects events, and just those that are newer. *)
LEMMA NewerFacts ==
  ASSUME NEW s \in Seq(Event), NEW id
  PROVE  /\ Newer(s, id) \in Seq(Event)
         /\ \A e : (\E i \in 1 .. Len(Newer(s, id)) : Newer(s, id)[i] = e)
                     <=> (\E i \in 1 .. Len(s) : s[i] = e /\ e.id > id)
  <1> DEFINE f == CHOOSE g : Selects(g, s, id)
             In(e, p) == \E i \in 1 .. Len(p) : p[i] = e
             Good(n) == /\ f[n] \in Seq(Event)
                        /\ \A e : In(e, f[n]) <=> \E i \in 1 .. n : s[i] = e /\ e.id > id
             S == {n \in 0 .. Len(s) : Good(n)}
  <1>1. Selects(f, s, id)
    BY SelectsExists
  <1>2. Newer(s, id) = f[Len(s)]
    BY DEF Newer, Selects
  <1> HIDE DEF f
  <1>3. \A n \in 0 .. Len(s) : f[n] = IF n = 0 THEN <<>> ELSE IF s[n].id > id THEN Append(f[n - 1], s[n]) ELSE f[n - 1]
    BY <1>1 DEF Selects
  <1>4. Len(s) \in Nat /\ \A n \in 1 .. Len(s) : s[n] \in Event
    OBVIOUS
  <1>5. 0 \in S
    <2>1. f[0] = <<>>
      BY <1>3, <1>4
    <2>2. f[0] \in Seq(Event) /\ \A e : ~In(e, f[0]) /\ ~\E i \in 1 .. 0 : s[i] = e /\ e.id > id
      BY <2>1
    <2>3. Good(0)
      <3> HIDE DEF In
      <3>1. QED
        BY <2>2
    <2> HIDE DEF Good
    <2>4. QED
      BY <2>3, <1>4
  <1>6. ASSUME NEW n \in 1 .. Len(s), n - 1 \in S PROVE n \in S
    <2>1. n \in 0 .. Len(s) /\ n # 0 /\ n - 1 \in Nat /\ s[n] \in Event /\ Good(n - 1)
      BY <1>4, <1>6
    <2>2. CASE s[n].id > id
      <3>1. f[n] = Append(f[n - 1], s[n])
        BY <1>3, <2>1, <2>2
      <3> DEFINE p == f[n - 1]
      <3>2. p \in Seq(Event) /\ f[n] = Append(p, s[n])
        BY <2>1, <3>1
      <3> HIDE DEF p
      <3>3. /\ f[n] \in Seq(Event) /\ Len(f[n]) = Len(p) + 1 /\ Len(p) \in Nat
            /\ f[n][Len(p) + 1] = s[n]
            /\ \A i \in 1 .. Len(p) : f[n][i] = p[i]
        BY <3>2, <2>1, AppendProperties
      <3>4. ASSUME NEW e PROVE In(e, f[n]) <=> In(e, p) \/ e = s[n]
        <4>1. In(e, p) => In(e, f[n])
          BY <3>3
        <4>2. e = s[n] => In(e, f[n])
          BY <3>3
        <4>3. ASSUME NEW i \in 1 .. Len(f[n]), f[n][i] = e PROVE In(e, p) \/ e = s[n]
          <5>1. i = Len(p) + 1 \/ i \in 1 .. Len(p)
            BY <3>3
          <5>2. QED
            BY <5>1, <4>3, <3>3
        <4>4. QED
          BY <4>1, <4>2, <4>3
      <3>5. ASSUME NEW e PROVE (\E i \in 1 .. n : s[i] = e /\ e.id > id)
                                 <=> (\E i \in 1 .. n - 1 : s[i] = e /\ e.id > id) \/ e = s[n]
        BY <2>1, <2>2
      <3>6. \A e : In(e, p) <=> \E i \in 1 .. n - 1 : s[i] = e /\ e.id > id
        BY <2>1 DEF p
      <3> HIDE DEF In
      <3>7. \A e : In(e, f[n]) <=> \E i \in 1 .. n : s[i] = e /\ e.id > id
        BY <3>4, <3>5, <3>6
      <3>8. QED
        BY <3>3, <3>7, <2>1
    <2>3. CASE ~(s[n].id > id)
      <3>1. f[n] = f[n - 1]
        BY <1>3, <2>1, <2>3
      <3>2. \A e : (\E i \in 1 .. n : s[i] = e /\ e.id > id)
                     <=> (\E i \in 1 .. n - 1 : s[i] = e /\ e.id > id)
        BY <2>1, <2>3
      <3> HIDE DEF In
      <3>3. Good(n)
        BY <3>1, <3>2, <2>1
      <3>4. QED
        BY <3>3, <2>1
    <2>4. QED
      BY <2>2, <2>3
  <1>7. Len(s) \in S
    <2> HIDE DEF S
    <2>1. 0 .. Len(s) \subseteq S
      BY <1>4, <1>5, <1>6, UpTo
    <2>2. QED
      BY <1>4, <2>1
  <1>8. QED
    BY <1>2, <1>7
-----------------------------------------------------------------------------
(***************************************************************************)
(* Types.                                                                  *)
(***************************************************************************)
LEMMA TypeInit == Init => TypeOK
  <1> SUFFICES ASSUME Init PROVE TypeOK
    OBVIOUS
  <1>1. (CHOOSE s \in Server : TRUE) \in Server
    BY ServerAssumption
  <1>2. <<>> \in Seq(Event) /\ Len(<<>>) = 0
    OBVIOUS
  <1>3. buffer \in Seq(Event) /\ Len(buffer) <= BufferSize
    BY <1>2, SizesAssumption DEF Init
  <1>4. \A t \in Tab : queue[t] \in Seq(Event) /\ Len(queue[t]) <= QueueSize
    BY <1>2, SizesAssumption DEF Init
  <1>5. /\ channel \in [Server -> Seq(Event)]
        /\ replay \in [Tab -> Seq(Event)]
        /\ queue \in [Tab -> Seq(Event)]
    BY <1>2 DEF Init
  <1>6. host \in [Tab -> Server]
    BY <1>1 DEF Init
  <1>7. /\ changes \in 0 .. MaxChanges /\ faults \in 0 .. MaxFaults /\ counter \in Nat
        /\ ticket \in [Publisher -> Nat]
        /\ answer \in [Tab -> 0 .. MaxChanges] /\ feed \in [Tab -> 0 .. MaxChanges]
    BY BoundsAssumption DEF Init
  <1>8. QED
    BY <1>3, <1>4, <1>5, <1>6, <1>7 DEF Init, TypeOK

(* RPUSH and LTRIM keep the newest events, and no more than there is room. *)
LEMMA BufferedFacts ==
  ASSUME TypeOK, NEW e \in Event
  PROVE  Buffered(e) \in Seq(Event) /\ Len(Buffered(e)) <= BufferSize
  <1> DEFINE s == Append(buffer, e)
  <1>1. s \in Seq(Event) /\ Len(s) \in Nat /\ BufferSize \in Nat \ {0}
    BY SizesAssumption DEF TypeOK
  <1> HIDE DEF s
  <1>2. CASE Len(s) > BufferSize
    <2> DEFINE m == Len(s) - BufferSize + 1
    <2>1. m \in 1 .. Len(s) /\ Len(s) - m + 1 = BufferSize
      BY <1>1, <1>2
    <2>2. SubSeq(s, m, Len(s)) \in Seq(Event) /\ Len(SubSeq(s, m, Len(s))) = Len(s) - m + 1
      BY <1>1, <2>1, SubSeqProperties
    <2>3. QED
      BY <1>2, <2>1, <2>2 DEF Buffered, Trimmed, s
  <1>3. CASE ~(Len(s) > BufferSize)
    BY <1>1, <1>3 DEF Buffered, Trimmed, s
  <1>4. QED
    BY <1>2, <1>3

(* _enqueue never holds more than the queue has room for. *)
LEMMA EnqueuedFits ==
  ASSUME NEW q \in Seq(Event), Len(q) <= QueueSize, NEW e \in Event
  PROVE  Enqueued(q, e) \in Seq(Event) /\ Len(Enqueued(q, e)) <= QueueSize
  <1>1. QueueSize \in Nat \ {0} /\ Len(q) \in Nat
    BY SizesAssumption
  <1>2. CASE Len(q) = QueueSize
    <2>1. Tail(q) \in Seq(Event) /\ Len(Tail(q)) = Len(q) - 1
      BY <1>1, <1>2
    <2>2. QED
      BY <1>1, <1>2, <2>1 DEF Enqueued
  <1>3. CASE Len(q) # QueueSize
    BY <1>1, <1>3 DEF Enqueued
  <1>4. QED
    BY <1>2, <1>3

LEMMA MissedIsEvents ==
  ASSUME TypeOK, NEW t \in Tab
  PROVE  Missed(t) \in Seq(Event)
  <1>1. buffer \in Seq(Event) /\ <<>> \in Seq(Event)
    BY DEF TypeOK
  <1>2. QED
    BY <1>1, NewerFacts DEF Missed

LEMMA FaultBound == TypeOK /\ Fault => faults' \in 0 .. MaxFaults
  BY BoundsAssumption DEF TypeOK, Fault

LEMMA PublishTypes ==
  ASSUME TypeOK, NEW p \in Publisher,
         Change(p) \/ Publishes(p) \/ PublishFailed(p)
  PROVE  TypeOK'
  <1> USE DEF TypeOK, redis, stream, hearing, dashboard
  <1>1. CASE Change(p)
    BY <1>1, BoundsAssumption DEF Change
  <1>2. CASE Number(p)
    BY <1>2 DEF Number
  <1>3. CASE PublishFailed(p)
    BY <1>3, FaultBound DEF PublishFailed
  <1>4. ASSUME NEW k \in Kind, Push(p, k) PROVE TypeOK'
    <2> DEFINE e == [id |-> ticket[p], kind |-> k]
    <2>1. e \in Event
      BY DEF Event
    <2>2. buffer' \in Seq(Event) /\ Len(buffer') <= BufferSize
      BY <1>4, <2>1, BufferedFacts DEF Push
    <2>3. channel' \in [Server -> Seq(Event)]
      <3>1. \A s \in Server : channel[s] \in Seq(Event) /\ Append(channel[s], e) \in Seq(Event)
        BY <2>1
      <3>2. channel' = [s \in Server |->
                IF dispatcher[s] = "running" THEN Append(channel[s], e) ELSE channel[s]]
        BY <1>4 DEF Push
      <3>3. QED
        BY <3>1, <3>2
    <2> HIDE DEF e
    <2>4. QED
      BY <1>4, <2>2, <2>3 DEF Push
  <1>5. QED
    BY <1>1, <1>2, <1>3, <1>4 DEF Publishes

LEMMA DispatchTypes ==
  ASSUME TypeOK, NEW s \in Server, Dispatch(s)
  PROVE  TypeOK'
  <1> DEFINE e == Head(channel[s])
  <1>1. e \in Event /\ Tail(channel[s]) \in Seq(Event)
    BY HeadTail DEF Dispatch, TypeOK
  <1> HIDE DEF e
  <1>2. \A t \in Tab : queue[t] \in Seq(Event) /\ Len(queue[t]) <= QueueSize
    BY DEF TypeOK
  <1>3. \A t \in Tab : Enqueued(queue[t], e) \in Seq(Event) /\ Len(Enqueued(queue[t], e)) <= QueueSize
    BY <1>1, <1>2, EnqueuedFits
  <1>4. queue' = [t \in Tab |-> IF link[t] \in {"greeting", "open"} /\ host[t] = s
                                THEN Enqueued(queue[t], e) ELSE queue[t]]
    BY DEF Dispatch, e
  <1>5. queue' \in [Tab -> Seq(Event)] /\ \A t \in Tab : Len(queue'[t]) <= QueueSize
    BY <1>2, <1>3, <1>4
  <1>6. channel' \in [Server -> Seq(Event)]
    BY <1>1 DEF Dispatch, TypeOK
  <1>7. QED
    BY <1>5, <1>6 DEF Dispatch, TypeOK, hearing, dashboard

(* The tabs whose connections end have no queue left. *)
LEMMA ClosedTypes ==
  ASSUME TypeOK, NEW T, Closed(T)
  PROVE  /\ link' \in [Tab -> {"closed", "reading", "read", "greeting", "open", "refused"}]
         /\ replay' \in [Tab -> Seq(Event)]
         /\ queue' \in [Tab -> Seq(Event)] /\ \A t \in Tab : Len(queue'[t]) <= QueueSize
         /\ UNCHANGED <<host, lastId>>
  <1>1. <<>> \in Seq(Event) /\ Len(<<>>) <= QueueSize
    BY SizesAssumption
  <1>2. QED
    BY <1>1 DEF TypeOK, Closed

(* What a tab hears is an event. *)
LEMMA HeardTypes ==
  ASSUME TypeOK, NEW t \in Tab, NEW e \in Event, Heard(t, e)
  PROVE  /\ lastId' \in [Tab -> Nat \cup {NoEvent}]
         /\ unheard' \in [Tab -> BOOLEAN]
         /\ timer' \in [Tab -> BOOLEAN]
         /\ fetch' \in [Tab -> {"none", "asked", "answered"}]
         /\ UNCHANGED <<changes, task, ticket, redis, dispatcher, host, deaf, answer, fresh, feed,
                        faults>>
  <1>1. e.id \in Nat
    BY DEF Event
  <1>2. QED
    BY <1>1 DEF TypeOK, Heard, Refetched

LEMMA StreamTypes ==
  ASSUME TypeOK, NEW t \in Tab, Streams(t)
  PROVE  TypeOK'
  <1>1. ASSUME NEW s \in Server, Connect(t, s) PROVE TypeOK'
    BY <1>1 DEF Connect, Started, TypeOK, redis, dashboard
  <1>2. CASE ReadBuffer(t)
    BY <1>2, MissedIsEvents DEF ReadBuffer, TypeOK, redis, hearing, dashboard
  <1>3. CASE Register(t)
    BY <1>3 DEF Register, TypeOK, redis, hearing, dashboard
  <1>4. CASE Greet(t)
    <2>1. Greeting \in Event
      BY DEF Greeting, Event, Kind
    <2>2. QED
      BY <1>4, <2>1, HeardTypes DEF Greet, TypeOK, redis
  <1>5. ASSUME NEW e \in Event, Heard(t, e), UNCHANGED link,
               replay' \in [Tab -> Seq(Event)],
               queue' \in [Tab -> Seq(Event)], \A u \in Tab : Len(queue'[u]) <= QueueSize
        PROVE  TypeOK'
    BY <1>5, HeardTypes DEF TypeOK, redis
  <1>6. CASE Receive(t)
    <2>1. replay[t] \in Seq(Event) /\ queue[t] \in Seq(Event)
      BY DEF TypeOK
    <2>2. CASE /\ replay[t] # <<>>
               /\ replay' = [replay EXCEPT ![t] = Tail(@)]
               /\ UNCHANGED <<link, queue>>
               /\ Heard(t, Head(replay[t]))
      <3>1. Head(replay[t]) \in Event /\ Tail(replay[t]) \in Seq(Event)
        BY <2>1, <2>2, HeadTail
      <3>2. replay' \in [Tab -> Seq(Event)]
        BY <2>2, <3>1 DEF TypeOK
      <3>3. queue' \in [Tab -> Seq(Event)] /\ \A u \in Tab : Len(queue'[u]) <= QueueSize
        BY <2>2 DEF TypeOK
      <3>4. QED
        BY <2>2, <3>1, <3>2, <3>3, <1>5
    <2>3. CASE /\ queue[t] # <<>>
               /\ queue' = [queue EXCEPT ![t] = Tail(@)]
               /\ UNCHANGED <<link, replay>>
               /\ Heard(t, Head(queue[t]))
      <3>1. /\ Head(queue[t]) \in Event /\ Tail(queue[t]) \in Seq(Event)
            /\ Len(Tail(queue[t])) <= Len(queue[t])
        BY <2>1, <2>3, HeadTail
      <3>2. replay' \in [Tab -> Seq(Event)]
        BY <2>3 DEF TypeOK
      <3>3. queue' \in [Tab -> Seq(Event)]
        BY <2>3, <3>1 DEF TypeOK
      <3>4. \A u \in Tab : Len(queue'[u]) <= Len(queue[u])
        BY <2>3, <3>1 DEF TypeOK
      <3>5. \A u \in Tab : Len(queue'[u]) \in Nat /\ Len(queue[u]) \in Nat /\ Len(queue[u]) <= QueueSize
        BY <3>3 DEF TypeOK
      <3>6. \A u \in Tab : Len(queue'[u]) <= QueueSize
        BY <3>4, <3>5, SizesAssumption
      <3>7. QED
        BY <2>3, <3>1, <3>2, <3>3, <3>6, <1>5
    <2>4. QED
      BY <1>6, <2>2, <2>3 DEF Receive
  <1>7. QED
    BY <1>1, <1>2, <1>3, <1>4, <1>6 DEF Streams

LEMMA FetchTypes ==
  ASSUME TypeOK, NEW t \in Tab, Refetches(t) \/ Age(t)
  PROVE  TypeOK'
  <1> USE DEF TypeOK, redis, stream, hearing
  <1>1. CASE Debounced(t)
    BY <1>1 DEF Debounced, Refetched
  <1>2. CASE Answer(t)
    BY <1>2 DEF Answer
  <1>3. CASE Show(t)
    <2>1. answer' \in [Tab -> 0 .. MaxChanges] /\ feed' \in [Tab -> 0 .. MaxChanges]
      BY <1>3, BoundsAssumption DEF Show
    <2>2. QED
      BY <1>3, <2>1 DEF Show
  <1>4. CASE Age(t)
    BY <1>4 DEF Age
  <1>5. QED
    BY <1>1, <1>2, <1>3, <1>4 DEF Refetches

LEMMA FailTypes ==
  ASSUME TypeOK, Fails
  PROVE  TypeOK'
  <1> USE FaultBound
  <1>1. ASSUME NEW p \in Publisher, PublishFailed(p) PROVE TypeOK'
    BY <1>1, PublishTypes
  <1>2. ASSUME NEW s \in Server, DispatcherFailed(s) PROVE TypeOK'
    <2>1. channel' \in [Server -> Seq(Event)]
      BY <1>2 DEF DispatcherFailed, TypeOK
    <2>2. deaf' \in [Tab -> BOOLEAN]
      BY <1>2 DEF DispatcherFailed, Live
    <2>3. QED
      BY <1>2, <2>1, <2>2 DEF DispatcherFailed, TypeOK, stream, dashboard
  <1>3. ASSUME NEW s \in Server, Restart(s) PROVE TypeOK'
    <2>1. channel' \in [Server -> Seq(Event)]
      BY <1>3 DEF Restart, TypeOK
    <2>2. QED
      BY <1>3, <2>1, ClosedTypes DEF Restart, TypeOK, hearing, dashboard
  <1>4. ASSUME NEW t \in Tab, Refused(t) PROVE TypeOK'
    BY <1>4 DEF Refused, TypeOK, redis, hearing, dashboard
  <1>5. ASSUME NEW t \in Tab, Disconnect(t) PROVE TypeOK'
    BY <1>5, ClosedTypes DEF Disconnect, TypeOK, redis, hearing, dashboard
  <1>6. ASSUME NEW t \in Tab, FetchFailed(t) PROVE TypeOK'
    BY <1>6, BoundsAssumption DEF FetchFailed, TypeOK, redis, stream, hearing
  <1>7. QED
    BY <1>1, <1>2, <1>3, <1>4, <1>5, <1>6 DEF Fails

LEMMA TypeStep == TypeOK /\ [Next]_vars => TypeOK'
  <1> SUFFICES ASSUME TypeOK, [Next]_vars PROVE TypeOK'
    OBVIOUS
  <1>1. CASE UNCHANGED vars
    BY <1>1 DEF vars, TypeOK, redis, stream, hearing, dashboard
  <1>2. QED
    BY <1>1, PublishTypes, DispatchTypes, StreamTypes, FetchTypes, FailTypes DEF Next

(* The types, and with them the bounds: LTRIM keeps the replay buffer at   *)
(* its size, _enqueue a subscriber's queue at its, and what a tab shows    *)
(* was at some time what the database held.                                *)
THEOREM TypesHold == Spec => []TypeOK
  <1>1. QED
    BY TypeInit, TypeStep, PTL DEF Spec
-----------------------------------------------------------------------------
(***************************************************************************)
(* The invariant.                                                          *)
(***************************************************************************)
LEMMA LineTypes == TypeOK => LineOK
  BY DEF TypeOK, LineOK

LEMMA InvInit == Init => Inv
  BY DEF Init, Inv, Fed, Live, NoSilentStream

LEMMA QuietStep ==
  ASSUME LineOK, Inv, UNCHANGED line
  PROVE  Inv'
  BY DEF Inv, LineOK, Fed, Live, NoSilentStream, line

(* A number is drawn, given back or handed over.                           *)
LEMMA PublishStep ==
  ASSUME LineOK, Inv, NEW p \in Publisher,
         Change(p) \/ Publishes(p) \/ PublishFailed(p)
  PROVE  Inv'
  <1>1. CASE Change(p)
    BY <1>1, QuietStep DEF Change, line, redis, stream, hearing
  <1>2. CASE Number(p)
    BY <1>2 DEF Number, Inv, LineOK, Fed, Live, NoSilentStream, stream, hearing
  <1>3. CASE PublishFailed(p)
    BY <1>3 DEF PublishFailed, Inv, LineOK, Fed, Live, NoSilentStream, redis, stream, hearing
  <1>4. ASSUME NEW k \in Kind, Push(p, k) PROVE Inv'
    <2> DEFINE e == [id |-> ticket[p], kind |-> k]
    <2>1. e \in Event
      BY DEF Inv, LineOK, Event
    <2>2. \A s \in Server : /\ channel'[s] \in Seq(Event)
                            /\ dispatcher[s] = "running" => channel'[s] # <<>>
      <3>1. \A q \in Seq(Event) : Append(q, e) \in Seq(Event) /\ Append(q, e) # <<>>
        BY <2>1
      <3>2. \A s \in Server : channel[s] \in Seq(Event)
        BY DEF Inv, LineOK
      <3>3. channel' = [s \in Server |->
                IF dispatcher[s] = "running" THEN Append(channel[s], e) ELSE channel[s]]
        BY <1>4 DEF Push
      <3>4. QED
        BY <3>1, <3>2, <3>3
    <2>3. Fed'
      BY <1>4 DEF Push, Inv, Fed, Live, stream
    <2>4. NoSilentStream'
      BY <1>4, <2>2 DEF Push, Inv, LineOK, Fed, Live, NoSilentStream, stream
    <2>5. QED
      BY <2>3, <2>4 DEF Inv
  <1>5. QED
    BY <1>1, <1>2, <1>3, <1>4 DEF Publishes

LEMMA DispatchStep ==
  ASSUME LineOK, Inv, NEW s \in Server, Dispatch(s)
  PROVE  Inv'
  <1>1. Head(channel[s]) \in Event /\ Tail(channel[s]) \in Seq(Event)
    BY HeadTail DEF Dispatch, Inv, LineOK
  <1>2. \A t \in Tab : queue[t] \in Seq(Event)
    BY DEF Inv, LineOK
  <1>3. \A t \in Tab : Enqueued(queue[t], Head(channel[s])) \in Seq(Event) \ {<<>>}
    BY <1>1, <1>2, EnqueuedFacts
  <1>4. Fed'
    BY DEF Dispatch, Inv, Fed, Live, hearing
  <1>5. NoSilentStream'
    BY <1>3 DEF Dispatch, Inv, LineOK, NoSilentStream, hearing
  <1>6. QED
    BY <1>4, <1>5 DEF Inv

(* A stream comes up: it is fed before it reads the buffer, and told        *)
(* something after it is registered.                                       *)
LEMMA StreamStep ==
  ASSUME LineOK, Inv, NEW t \in Tab, Streams(t)
  PROVE  Inv'
  <1>1. ASSUME NEW s \in Server, Connect(t, s) PROVE Inv'
    BY <1>1 DEF Connect, Started, Inv, LineOK, Fed, Live, NoSilentStream, redis
  <1>2. CASE ReadBuffer(t)
    BY <1>2 DEF ReadBuffer, Inv, LineOK, Fed, Live, NoSilentStream, redis, hearing
  <1>3. CASE Register(t)
    BY <1>3 DEF Register, Inv, LineOK, Fed, Live, NoSilentStream, redis, hearing
  <1>4. CASE Greet(t)
    BY <1>4 DEF Greet, Heard, Inv, LineOK, Fed, Live, NoSilentStream, redis
  <1>5. CASE Receive(t)
    <2>1. /\ UNCHANGED <<ticket, redis, dispatcher, link, host, deaf>>
          /\ unheard' = [unheard EXCEPT ![t] = FALSE]
          /\ \A u \in Tab \ {t} : replay'[u] = replay[u] /\ queue'[u] = queue[u]
      <3>1. CASE replay[t] # <<>> /\ replay' = [replay EXCEPT ![t] = Tail(@)] /\ UNCHANGED <<link, queue>>
                 /\ Heard(t, Head(replay[t]))
        <4>1. \A u \in Tab \ {t} : replay'[u] = replay[u]
          BY <3>1
        <4>2. QED
          BY <3>1, <4>1 DEF Heard
      <3>2. CASE queue[t] # <<>> /\ queue' = [queue EXCEPT ![t] = Tail(@)] /\ UNCHANGED <<link, replay>>
                 /\ Heard(t, Head(queue[t]))
        BY <3>2 DEF Heard
      <3>3. QED
        BY <1>5, <3>1, <3>2 DEF Receive
    <2>2. Fed'
      BY <2>1 DEF Inv, Fed, Live
    <2>3. NoSilentStream'
      BY <2>1 DEF Inv, LineOK, NoSilentStream, redis
    <2>4. QED
      BY <2>2, <2>3 DEF Inv
  <1>6. QED
    BY <1>1, <1>2, <1>3, <1>4, <1>5 DEF Streams

(* A dispatcher that fails makes its streams deaf, a server that restarts  *)
(* closes them.                                                            *)
LEMMA FailStep ==
  ASSUME LineOK, Inv, Fails
  PROVE  Inv'
  <1>1. ASSUME NEW p \in Publisher, PublishFailed(p) PROVE Inv'
    BY <1>1, PublishStep
  <1>2. ASSUME NEW s \in Server, DispatcherFailed(s) PROVE Inv'
    <2>1. \A t \in Tab : Live(t) /\ ~deaf'[t] => ~deaf[t] /\ host[t] # s
      BY <1>2 DEF DispatcherFailed
    <2>2. Fed'
      BY <1>2, <2>1 DEF DispatcherFailed, Inv, LineOK, Fed, Live, stream
    <2>3. NoSilentStream'
      BY <1>2, <2>1 DEF DispatcherFailed, Inv, LineOK, NoSilentStream, Live, stream
    <2>4. QED
      BY <2>2, <2>3 DEF Inv
  <1>3. ASSUME NEW s \in Server, Restart(s) PROVE Inv'
    BY <1>3 DEF Restart, Closed, Inv, LineOK, Fed, Live, NoSilentStream, hearing
  <1>4. ASSUME NEW t \in Tab, Refused(t) PROVE Inv'
    BY <1>4 DEF Refused, Inv, LineOK, Fed, Live, NoSilentStream, redis, hearing
  <1>5. ASSUME NEW t \in Tab, Disconnect(t) PROVE Inv'
    BY <1>5 DEF Disconnect, Closed, Inv, LineOK, Fed, Live, NoSilentStream, redis, hearing
  <1>6. ASSUME NEW t \in Tab, FetchFailed(t) PROVE Inv'
    BY <1>6, QuietStep DEF FetchFailed, line, redis, stream, hearing
  <1>7. QED
    BY <1>1, <1>2, <1>3, <1>4, <1>5, <1>6 DEF Fails

LEMMA InvStep == TypeOK /\ Inv /\ [Next]_vars => Inv'
  <1> SUFFICES ASSUME LineOK, Inv, [Next]_vars PROVE Inv'
    BY LineTypes
  <1>1. ASSUME NEW t \in Tab, Refetches(t) \/ Age(t) PROVE Inv'
    BY <1>1, QuietStep DEF Refetches, Debounced, Answer, Show, Age, line, redis, stream, hearing
  <1>2. CASE UNCHANGED vars
    BY <1>2, QuietStep DEF vars, line, redis, stream, hearing
  <1>3. QED
    BY <1>1, <1>2, PublishStep, DispatchStep, StreamStep, FailStep DEF Next

(* Whatever is lost between the LRANGE and the registration, in a full     *)
(* queue (_enqueue) or while a tab reconnects: a stream that is fed and    *)
(* has not been told since the last publish has something coming.          *)
THEOREM NoSilentStreamHolds == Spec => []NoSilentStream
  <1>1. Inv => NoSilentStream
    BY DEF Inv
  <1>2. QED
    BY <1>1, InvInit, InvStep, TypeInit, TypeStep, PTL DEF Spec
=============================================================================
