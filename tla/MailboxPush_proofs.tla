------------------------- MODULE MailboxPush_proofs -------------------------
(* Theorems about MailboxPush, for any number of messages, deliveries,     *)
(* workers, retries and faults and any sizes of the listings.              *)
EXTENDS MailboxPush, TLAPS

(* What a request read was covered when it read it, and stays so.          *)
KnownCovered == \A r \in Request, m \in Mail :
    pc[r] # "idle" /\ m <= known[r] => Covered(m)

Inv == TypeOK /\ CursorCovers /\ KnownCovered
-----------------------------------------------------------------------------
(***************************************************************************)
(* The operators.                                                          *)
(***************************************************************************)
LEMMA RequestFacts ==
  ASSUME NEW r \in Request
  PROVE  Note(r) \in Mail /\ Note(r) \in HistoryId
  BY MailAssumption DEF Request, Note, Mail, HistoryId

LEMMA TaskFacts ==
  ASSUME NEW from \in HistoryId \cup {None}, NEW upto \in HistoryId
  PROVE  [kind |-> "history", from |-> from, upto |-> upto, tries |-> 0] \in Task
  BY MailAssumption, TriesAssumption DEF Task, HistoryId, None

LEMMA ScheduledFacts == ScheduledTask \in Task
  BY MailAssumption, TriesAssumption DEF ScheduledTask, Task, HistoryId, None

(* A retry asks for what the task it repeats asked for.                    *)
LEMMA RetriedFacts ==
  ASSUME NEW t \in Task
  PROVE  /\ Claims(t) \subseteq Claims(Retried(t))
         /\ t.tries + 1 < MaxTries => Retried(t) \in Task
  BY MailAssumption, TriesAssumption DEF Retried, Claims, Task

LEMMA PagesAreMail ==
  ASSUME TypeOK, NEW n
  PROVE  /\ Newest(unread, n) \subseteq Mail
         /\ \A page \in RecentPages : page \subseteq Mail
  <1>1. 1 .. arrived \subseteq Mail /\ unread \subseteq Mail
    BY MailAssumption DEF TypeOK, Mail, HistoryId
  <1>2. \A S, k : Newest(S, k) \subseteq S
    BY DEF Newest
  <1>3. ASSUME NEW page \in RecentPages PROVE page \subseteq Mail
    <2>1. PICK old \in 0 .. arrived : page = Newest((old + 1) .. arrived, RecentListed)
      BY DEF RecentPages
    <2>2. (old + 1) .. arrived \subseteq 1 .. arrived
      BY <2>1 DEF TypeOK, HistoryId
    <2>3. QED
      BY <1>1, <1>2, <2>1, <2>2
  <1>4. QED
    BY <1>1, <1>2, <1>3

LEMMA ClaimsAreMail ==
  ASSUME NEW t
  PROVE  Claims(t) \subseteq Mail
  BY DEF Claims, Window
-----------------------------------------------------------------------------
(***************************************************************************)
(* Types.                                                                  *)
(***************************************************************************)
LEMMA TypeInit == Init => TypeOK
  <1>1. ScheduledTask \in Task
    BY ScheduledFacts
  <1>2. QED
    BY <1>1, MailAssumption, FaultsAssumption DEF Init, TypeOK, HistoryId

LEMMA FaultCounts ==
  ASSUME TypeOK, Fault
  PROVE  faults' \in 0 .. MaxFaults
  BY FaultsAssumption DEF Fault, TypeOK

LEMMA MailboxTypes ==
  ASSUME TypeOK
  PROVE  /\ Arrive => TypeOK'
         /\ \A m \in Mail : Open(m) => TypeOK'
         /\ Register => TypeOK'
         /\ \A n \in HistoryId : SaveWatch(n) \/ SaveWatchFailed(n) => TypeOK'
  <1>1. Arrive => TypeOK'
    BY MailAssumption DEF Arrive, TypeOK, Mail, HistoryId, hooks, workers
  <1>2. ASSUME NEW m \in Mail, Open(m) PROVE TypeOK'
    BY <1>2 DEF Open, TypeOK, hooks, workers
  <1>3. Register => TypeOK'
    BY DEF Register, TypeOK, mailbox, hooks, workers
  <1>4. ASSUME NEW n \in HistoryId, SaveWatch(n) PROVE TypeOK'
    BY <1>4 DEF SaveWatch, TypeOK, mailbox, hooks, workers
  <1>5. ASSUME NEW n \in HistoryId, SaveWatchFailed(n) PROVE TypeOK'
    BY <1>5, FaultCounts DEF SaveWatchFailed, TypeOK, mailbox, hooks, workers
  <1>6. QED
    BY <1>1, <1>2, <1>3, <1>4, <1>5

LEMMA RequestTypes ==
  ASSUME TypeOK, NEW r \in Request, Delivery(r)
  PROVE  TypeOK'
  <1> USE RequestFacts
  <1>1. CASE ReadCursor(r)
    BY <1>1 DEF ReadCursor, TypeOK, mailbox, workers
  <1>2. CASE MoveCursor(r)
    BY <1>2 DEF MoveCursor, TypeOK, mailbox, workers
  <1>3. CASE Ignore(r)
    BY <1>3 DEF Ignore, Acknowledge, EndRequest, TypeOK, mailbox, workers
  <1>4. CASE Dispatch(r)
    <2>1. [kind |-> "history", from |-> known[r], upto |-> Note(r), tries |-> 0] \in Task
      BY TaskFacts DEF TypeOK
    <2>2. QED
      BY <1>4, <2>1 DEF Dispatch, Acknowledge, EndRequest, TypeOK, mailbox, workers
  <1>5. CASE HookFailed(r)
    BY <1>5, FaultCounts DEF HookFailed, EndRequest, TypeOK, Window, mailbox, workers
  <1>6. QED
    BY <1>1, <1>2, <1>3, <1>4, <1>5 DEF Delivery, HookContinues

LEMMA TakeTypes ==
  ASSUME TypeOK, NEW w \in Worker, PollUnread(w) \/ Takes(w)
  PROVE  TypeOK'
  <1> USE PagesAreMail, ClaimsAreMail
  <1>1. ScheduledTask \in Task
    BY ScheduledFacts
  <1>2. CASE PollUnread(w)
    BY <1>1, <1>2 DEF PollUnread, GoThrough, TypeOK, mailbox, hooks
  <1>3. ASSUME NEW t \in tasks, PollWindow(w, t) PROVE TypeOK'
    <2>1. PageOf(t) \subseteq Mail
      BY DEF PageOf
    <2>2. QED
      BY <1>3, <2>1 DEF PollWindow, GoThrough, TypeOK, mailbox, hooks
  <1>4. ASSUME NEW t \in tasks, PollRecent(w, t) PROVE TypeOK'
    BY <1>4, FaultCounts DEF PollRecent, GoThrough, TypeOK, mailbox, hooks
  <1>5. ASSUME NEW t \in tasks, ListFailed(w, t) PROVE TypeOK'
    BY <1>5, RetriedFacts, FaultCounts DEF ListFailed, TypeOK, mailbox, hooks, workers
  <1>6. QED
    BY <1>2, <1>3, <1>4, <1>5 DEF Takes

LEMMA WorkTypes ==
  ASSUME TypeOK, NEW w \in Worker, GoesOn(w) \/ Breaks(w)
  PROVE  TypeOK'
  <1>1. ScheduledTask \in Task
    BY ScheduledFacts
  <1>2. ASSUME NEW m \in Mail, Process(w, m) PROVE TypeOK'
    BY <1>2 DEF Process, TypeOK, mailbox, hooks
  <1>3. CASE Finish(w)
    BY <1>1, <1>3 DEF Finish, EndTask, TypeOK, mailbox, hooks
  <1>4. CASE PollFailed(w)
    BY <1>1, <1>4, FaultCounts, ClaimsAreMail DEF PollFailed, EndTask, Holds, TypeOK, mailbox, hooks
  <1>5. CASE Crash(w)
    BY <1>1, <1>5, FaultCounts DEF Crash, EndTask, TypeOK, mailbox, hooks
  <1>6. ASSUME NEW m \in Mail, ProcessFailed(w, m) PROVE TypeOK'
    BY <1>6, FaultCounts DEF ProcessFailed, TypeOK, mailbox, hooks
  <1>7. QED
    BY <1>2, <1>3, <1>4, <1>5, <1>6 DEF GoesOn, Breaks

LEMMA TypeStep == TypeOK /\ [Next]_vars => TypeOK'
  <1> SUFFICES ASSUME TypeOK, [Next]_vars PROVE TypeOK'
    OBVIOUS
  <1>1. CASE Next
    BY <1>1, MailboxTypes, RequestTypes, TakeTypes, WorkTypes DEF Next
  <1>2. CASE UNCHANGED vars
    BY <1>2 DEF vars, mailbox, hooks, workers, TypeOK
  <1>3. QED
    BY <1>1, <1>2
-----------------------------------------------------------------------------
(***************************************************************************)
(* A covered message stays covered, whatever step is taken.                *)
(***************************************************************************)
(* Covered by its own fate, by a request, a task, or a worker.             *)
ByRequest(r, m) == pc[r] = "dispatch" /\ m \in Window(known[r], Note(r))

LEMMA CoveredCases ==
  ASSUME NEW m
  PROVE  Covered(m) <=> \/ m \in polled \cup missed
                        \/ \E r \in Request : ByRequest(r, m)
                        \/ \E t \in tasks : m \in Claims(t)
                        \/ \E w \in Worker : m \in Holds(w)
  BY DEF Covered, ByRequest

(* Steps that leave requests, tasks and workers alone.                     *)
LEMMA QuietKeepsCovered ==
  ASSUME NEW m \in Mail, Covered(m),
         UNCHANGED <<hooks, tasks, workers, polled>>, missed \subseteq missed'
  PROVE  Covered(m)'
  BY DEF Covered, Holds, hooks, workers

LEMMA DeliveryKeepsCovered ==
  ASSUME TypeOK, NEW r \in Request, Delivery(r), NEW m \in Mail, Covered(m)
  PROVE  Covered(m)'
  <1>1. /\ UNCHANGED <<workers, polled>>
        /\ missed \subseteq missed' /\ tasks \subseteq tasks'
        /\ \A q \in Request \ {r} : pc'[q] = pc[q] /\ known'[q] = known[q]
    BY DEF Delivery, HookContinues, ReadCursor, MoveCursor, Ignore, Dispatch, HookFailed,
           Acknowledge, EndRequest, TypeOK
  <1>2. CASE m \in polled \cup missed
    BY <1>1, <1>2 DEF Covered
  <1>3. CASE \E q \in Request \ {r} : ByRequest(q, m)
    BY <1>1, <1>3 DEF Covered, ByRequest
  <1>4. CASE ByRequest(r, m)
    <2>1. m \in Window(known[r], Note(r)) /\ pc[r] = "dispatch"
      BY <1>4 DEF ByRequest
    <2>2. CASE Dispatch(r)
      <3>1. m \in Claims([kind |-> "history", from |-> known[r], upto |-> Note(r), tries |-> 0])
        BY <2>1 DEF Claims
      <3>2. QED
        BY <2>2, <3>1 DEF Dispatch, Covered
    <2>3. CASE HookFailed(r)
      BY <2>1, <2>3 DEF HookFailed, Covered
    <2>4. QED
      BY <2>1, <2>2, <2>3 DEF Delivery, HookContinues, ReadCursor, MoveCursor, Ignore
  <1>5. CASE \E t \in tasks : m \in Claims(t)
    BY <1>1, <1>5 DEF Covered
  <1>6. CASE \E w \in Worker : m \in Holds(w)
    BY <1>1, <1>6 DEF Covered, Holds, workers
  <1>7. QED
    BY <1>2, <1>3, <1>4, <1>5, <1>6, CoveredCases

(* Steps of a worker that has no task, or keeps or ends the one it has.    *)
LEMMA WorkerKeepsCovered ==
  ASSUME TypeOK, NEW w \in Worker, NEW m \in Mail, Covered(m),
         PollUnread(w) \/ Takes(w) \/ GoesOn(w) \/ Breaks(w)
  PROVE  Covered(m)'
  <1>1. /\ UNCHANGED hooks
        /\ polled \subseteq polled' /\ missed \subseteq missed' \cup polled'
        /\ \A v \in Worker \ {w} : at'[v] = at[v] /\ job'[v] = job[v] /\ left'[v] = left[v]
    BY DEF PollUnread, Takes, PollWindow, PollRecent, ListFailed, GoesOn, Process, Finish, Breaks,
           PollFailed, Crash, ProcessFailed, GoThrough, EndTask, workers, TypeOK
  <1>2. CASE m \in polled \cup missed
    BY <1>1, <1>2 DEF Covered
  <1>3. CASE \E r \in Request : ByRequest(r, m)
    BY <1>1, <1>3 DEF Covered, ByRequest, hooks
  <1>4. CASE \E v \in Worker \ {w} : m \in Holds(v)
    BY <1>1, <1>4 DEF Covered, Holds
  <1>5. CASE \E t \in tasks : m \in Claims(t)
    <2>1. PICK t \in tasks : m \in Claims(t)
      BY <1>5
    <2>2. CASE t \in tasks'
      BY <2>1, <2>2 DEF Covered
    <2>3. CASE t \notin tasks'
      <3>1. Takes(w)
        BY <2>3, <2>1 DEF PollUnread, GoesOn, Process, Finish, Breaks, PollFailed, Crash, ProcessFailed
      <3>2. CASE PollWindow(w, t)
        BY <2>1, <3>2 DEF PollWindow, GoThrough, Covered, Holds, TypeOK
      <3>3. CASE PollRecent(w, t)
        BY <2>1, <3>3 DEF PollRecent, GoThrough, Covered, Holds, TypeOK
      <3>4. CASE ListFailed(w, t)
        <4>1. m \in Claims(Retried(t))
          BY <2>1, RetriedFacts DEF TypeOK
        <4>2. QED
          BY <2>1, <3>4, <4>1 DEF ListFailed, Covered
      <3>5. QED
        BY <2>1, <2>3, <3>1, <3>2, <3>3, <3>4 DEF Takes, PollWindow, PollRecent, ListFailed
    <2>4. QED
      BY <2>2, <2>3
  <1>6. CASE m \in Holds(w)
    <2>1. at[w] = "poll" /\ m \in Claims(job[w]) /\ m \in left[w]
      BY <1>6 DEF Holds
    <2>2. job[w].kind = "history"
      BY <2>1 DEF Claims
    <2>3. CASE Crash(w)
      BY <2>1, <2>2, <2>3 DEF Crash, Covered
    <2>4. CASE PollFailed(w)
      BY <1>6, <2>4 DEF PollFailed, Covered
    <2>5. ASSUME NEW k \in Mail, Process(w, k) \/ ProcessFailed(w, k) PROVE Covered(m)'
      <3>1. CASE k = m
        BY <2>5, <3>1 DEF Process, ProcessFailed, Covered
      <3>2. CASE k # m
        <4>1. at' = at /\ job' = job /\ left'[w] = left[w] \ {k}
          BY <2>5 DEF Process, ProcessFailed, TypeOK
        <4>2. m \in Holds(w)'
          BY <2>1, <3>2, <4>1 DEF Holds
        <4>3. QED
          BY <4>2 DEF Covered
      <3>3. QED
        BY <3>1, <3>2
    <2>6. ~PollUnread(w) /\ ~Takes(w) /\ ~Finish(w)
      BY <2>1 DEF PollUnread, Takes, PollWindow, PollRecent, ListFailed, Finish
    <2>7. QED
      BY <2>3, <2>4, <2>5, <2>6 DEF GoesOn, Breaks
  <1>7. QED
    BY <1>2, <1>3, <1>4, <1>5, <1>6, CoveredCases

LEMMA CoveredStays ==
  ASSUME TypeOK, [Next]_vars, NEW m \in Mail, Covered(m)
  PROVE  Covered(m)'
  <1>1. CASE Arrive \/ Register \/ (\E k \in Mail : Open(k))
             \/ \E n \in HistoryId : SaveWatch(n) \/ SaveWatchFailed(n)
    <2>1. UNCHANGED <<hooks, tasks, workers, polled>> /\ missed \subseteq missed'
      BY <1>1 DEF Arrive, Register, Open, SaveWatch, SaveWatchFailed
    <2>2. QED
      BY <2>1, QuietKeepsCovered
  <1>2. CASE UNCHANGED vars
    <2>1. UNCHANGED <<hooks, tasks, workers, polled>> /\ missed \subseteq missed'
      BY <1>2 DEF vars
    <2>2. QED
      BY <2>1, QuietKeepsCovered
  <1>3. QED
    BY <1>1, <1>2, DeliveryKeepsCovered, WorkerKeepsCovered DEF Next
-----------------------------------------------------------------------------
(***************************************************************************)
(* The invariant.                                                          *)
(***************************************************************************)
(* The cursor stays below, is moved by a registration, or by a request to  *)
(* where its window ends.                                                  *)
LEMMA CursorStep == Inv /\ [Next]_vars => CursorCovers'
  <1> SUFFICES ASSUME Inv, [Next]_vars, NEW m \in Mail, m <= cursor' PROVE Covered(m)'
    BY DEF CursorCovers
  <1>1. TypeOK /\ CursorCovers /\ KnownCovered
    BY DEF Inv
  <1>2. Covered(m) => Covered(m)'
    BY <1>1, CoveredStays
  <1>3. CASE cursor' = cursor
    BY <1>1, <1>2, <1>3 DEF CursorCovers
  <1>4. ASSUME NEW n \in HistoryId, SaveWatch(n) PROVE Covered(m)'
    <2>1. CASE Covered(m)
      BY <1>2, <2>1
    <2>2. CASE ~Covered(m)
      BY <1>4, <2>2 DEF SaveWatch, Covered
    <2>3. QED
      BY <2>1, <2>2
  <1>5. ASSUME NEW r \in Request, MoveCursor(r) PROVE Covered(m)'
    <2>1. pc[r] = "record" /\ pc'[r] = "dispatch" /\ known'[r] = known[r] /\ m <= Note(r)
      BY <1>1, <1>5 DEF MoveCursor, TypeOK
    <2>2. CASE m <= known[r]
      BY <1>1, <1>2, <2>1, <2>2 DEF KnownCovered
    <2>3. CASE known[r] < m
      BY <2>1, <2>3 DEF Covered, Window
    <2>4. known[r] \in Int /\ m \in Int
      BY <1>1, MailAssumption DEF TypeOK, HistoryId, None, Mail
    <2>5. QED
      BY <2>2, <2>3, <2>4
  <1>6. ASSUME NEW r \in Request, Ignore(r) PROVE Covered(m)'
    <2>1. pc[r] = "record" /\ Note(r) <= known[r]
      BY <1>1, <1>6, RequestFacts, MailAssumption
      DEF Ignore, ShouldTrigger, TypeOK, HistoryId, None
    <2>2. CASE cursor' = Note(r)
      <3>1. m <= known[r]
        BY <1>1, <2>1, <2>2, RequestFacts, MailAssumption DEF TypeOK, HistoryId, None, Mail
      <3>2. QED
        BY <1>1, <1>2, <2>1, <3>1 DEF KnownCovered
    <2>3. QED
      BY <1>3, <1>6, <2>2 DEF Ignore
  <1>7. QED
    BY <1>3, <1>4, <1>5, <1>6
    DEF Next, vars, Arrive, Open, Register, SaveWatchFailed, Delivery, HookContinues, ReadCursor,
        Dispatch, HookFailed, PollUnread, Takes, PollWindow, PollRecent, ListFailed, GoesOn,
        Process, Finish, Breaks, PollFailed, Crash, ProcessFailed

(* A request reads the cursor, and what it read only goes when it ends.    *)
LEMMA KnownStep == Inv /\ [Next]_vars => KnownCovered'
  <1> SUFFICES ASSUME Inv, [Next]_vars, NEW r \in Request, NEW m \in Mail,
                      pc'[r] # "idle", m <= known'[r]
               PROVE  Covered(m)'
    BY DEF KnownCovered
  <1>1. TypeOK /\ CursorCovers /\ KnownCovered
    BY DEF Inv
  <1>2. Covered(m) => Covered(m)'
    BY <1>1, CoveredStays
  <1>3. CASE pc[r] # "idle" /\ known'[r] = known[r]
    BY <1>1, <1>2, <1>3 DEF KnownCovered
  <1>4. CASE ReadCursor(r)
    BY <1>1, <1>2, <1>4 DEF ReadCursor, CursorCovers, TypeOK
  <1>5. ASSUME NEW q \in Request, Delivery(q)
        PROVE  ReadCursor(r) \/ (pc[r] # "idle" /\ known'[r] = known[r])
    BY <1>1, <1>5 DEF Delivery, HookContinues, ReadCursor, MoveCursor, Ignore, Dispatch, HookFailed,
                      Acknowledge, EndRequest, TypeOK
  <1>6. CASE UNCHANGED hooks
    BY <1>3, <1>6 DEF hooks
  <1>7. QED
    BY <1>3, <1>4, <1>5, <1>6
    DEF Next, vars, Arrive, Open, Register, SaveWatch, SaveWatchFailed, PollUnread, Takes,
        PollWindow, PollRecent, ListFailed, GoesOn, Process, Finish, Breaks, PollFailed, Crash,
        ProcessFailed

LEMMA InvInit == Init => Inv
  <1> SUFFICES ASSUME Init PROVE Inv
    OBVIOUS
  <1>1. CursorCovers
    BY MailAssumption DEF Init, CursorCovers, Mail, None
  <1>2. KnownCovered
    BY DEF Init, KnownCovered
  <1>3. QED
    BY <1>1, <1>2, TypeInit DEF Inv

LEMMA InvStep == Inv /\ [Next]_vars => Inv'
  BY TypeStep, CursorStep, KnownStep DEF Inv

LEMMA InvHolds == Spec => []Inv
  BY InvInit, InvStep, PTL DEF Spec

(* The mailbox, the cursor, the requests and the tasks keep their types;   *)
(* above all, no task is tried more than max_retries allows.               *)
THEOREM TypeCorrect == Spec => []TypeOK
  <1>1. Inv => TypeOK
    BY DEF Inv
  <1>2. QED
    BY <1>1, InvHolds, PTL

(* The cursor is read and written without a lock (gmail_push.py:278-329),  *)
(* by any number of requests and registrations; still, no mail at or below *)
(* it is without a window, but for those that were missed.                 *)
THEOREM CursorCoversHolds == Spec => []CursorCovers
  <1>1. Inv => CursorCovers
    BY DEF Inv
  <1>2. QED
    BY <1>1, InvHolds, PTL

LEMMA AcknowledgeStep ==
  Inv /\ [Next]_vars => \A m \in pushes : m \in pushes' \/ Covered(m)'
  <1> SUFFICES ASSUME Inv, [Next]_vars, NEW m \in pushes, m \notin pushes' PROVE Covered(m)'
    OBVIOUS
  <1>1. TypeOK /\ KnownCovered /\ m \in Mail
    BY DEF Inv, TypeOK
  <1>2. Covered(m) => Covered(m)'
    BY <1>1, CoveredStays
  <1>3. PICK r \in Request : (Ignore(r) \/ Dispatch(r)) /\ m = Note(r)
    BY DEF Next, vars, Arrive, Open, Register, SaveWatch, SaveWatchFailed, Delivery, HookContinues,
           ReadCursor, MoveCursor, Ignore, Dispatch, Acknowledge, HookFailed, PollUnread, Takes,
           PollWindow, PollRecent, ListFailed, GoesOn, Process, Finish, Breaks, PollFailed, Crash,
           ProcessFailed
  <1>4. known[r] \in Int /\ m \in Int
    BY <1>1, MailAssumption DEF TypeOK, HistoryId, None, Mail
  <1>5. CASE m <= known[r]
    BY <1>1, <1>2, <1>3, <1>5 DEF KnownCovered, Ignore, Dispatch
  <1>6. CASE known[r] < m
    <2>1. pc[r] = "dispatch"
      BY <1>3, <1>6 DEF Ignore, Dispatch, ShouldTrigger
    <2>2. m \in Window(known[r], Note(r))
      BY <1>1, <1>3, <1>4, <1>6 DEF Window
    <2>3. QED
      BY <1>2, <2>1, <2>2 DEF Covered
  <1>7. QED
    BY <1>4, <1>5, <1>6

(* Pub/Sub delivers at least once and in any order: whatever notification  *)
(* the webhook answers as a duplicate or stale one (gmail_push.py:300-316) *)
(* is about mail that a window has.                                        *)
THEOREM AcknowledgedIsCoveredHolds == Spec => AcknowledgedIsCovered
  <1>1. Inv /\ Inv' /\ [Next]_vars => [\A m \in pushes : m \in pushes' \/ Covered(m)']_vars
    BY AcknowledgeStep
  <1>2. QED
    BY <1>1, InvHolds, PTL DEF Spec, AcknowledgedIsCovered
-----------------------------------------------------------------------------
(***************************************************************************)
(* Every step is one of MailDelivery's, or none.                           *)
(***************************************************************************)
LEMMA StandingAt ==
  ASSUME NEW m \in Mail
  PROVE  Standing[m] = IF m \in polled THEN "polled"
                       ELSE IF m \in missed THEN "missed"
                       ELSE IF Covered(m) THEN "owed" ELSE "none"
  BY DEF Standing

(* Standings that change as Become says make the step Become.              *)
LEMMA BecomeAt ==
  ASSUME NEW S, NEW to,
         \A m \in Mail : Standing[m]' = IF m \in S THEN to ELSE Standing[m]
  PROVE  Delivered!Become(S, to)
  BY DEF Standing, Delivered!Become

LEMMA DeliveryInit == Init => Delivered!Init
  BY MailAssumption DEF Init, Delivered!Init, Standing, Covered, Holds

(* Nothing is settled: what comes to be covered is owed.                   *)
LEMMA OweStep ==
  ASSUME TypeOK, [Next]_vars, UNCHANGED <<pushes, polled, missed>>
  PROVE  Delivered!Next
  <1> DEFINE S == {m \in Mail : ~Covered(m) /\ Covered(m)'}
  <1>1. \A m \in S : Standing[m] = "none"
    BY StandingAt DEF Covered
  <1>2. ASSUME NEW m \in Mail PROVE Standing[m]' = IF m \in S THEN "owed" ELSE Standing[m]
    <2>1. Covered(m) => Covered(m)'
      BY CoveredStays
    <2>2. m \in S => m \notin polled /\ m \notin missed
      BY DEF Covered
    <2>3. QED
      BY <2>1, <2>2 DEF Standing
  <1>3. Delivered!Owe(S)
    <2>1. Delivered!Become(S, "owed")
      BY <1>2, BecomeAt
    <2>2. QED
      BY <1>1, <2>1 DEF Delivered!Owe
  <1>4. QED
    BY <1>3 DEF Delivered!Next

(* Some mails are given up, and nothing else comes to be covered.          *)
LEMMA MissStep ==
  ASSUME TypeOK, [Next]_vars, UNCHANGED <<pushes, polled>>, missed \subseteq missed',
         \A m \in Mail : Covered(m)' => Covered(m) \/ m \in missed'
  PROVE  Delivered!Next
  <1> DEFINE S == {m \in Mail : m \in missed' /\ m \notin missed \cup polled}
  <1>1. \A m \in S : Standing[m] \in {"none", "owed"}
    BY StandingAt
  <1>2. ASSUME NEW m \in Mail PROVE Standing[m]' = IF m \in S THEN "missed" ELSE Standing[m]
    <2>1. Covered(m) => Covered(m)'
      BY CoveredStays
    <2>2. QED
      BY <2>1 DEF Standing
  <1>3. Delivered!Miss(S)
    <2>1. Delivered!Become(S, "missed")
      BY <1>2, BecomeAt
    <2>2. QED
      BY <1>1, <2>1 DEF Delivered!Miss
  <1>4. QED
    BY <1>3 DEF Delivered!Next

(* An announcement is acknowledged, if it still was there to be.           *)
LEMMA DischargeStep ==
  ASSUME Inv, [Next]_vars, UNCHANGED <<polled, missed>>,
         NEW k \in Mail, pushes' = pushes \ {k},
         \A m \in Mail : Covered(m)' => Covered(m)
  PROVE  Delivered!Next \/ UNCHANGED Delivered!delivery
  <1>1. Standing' = Standing
    <2>1. \A m \in Mail : Covered(m) <=> Covered(m)'
      BY CoveredStays DEF Inv
    <2>2. QED
      BY <2>1 DEF Standing
  <1>2. CASE k \in pushes
    <2>1. Covered(k)
      BY <1>2, AcknowledgeStep
    <2>2. Standing[k] # "none"
      BY <2>1, StandingAt
    <2>3. Delivered!Acknowledge(k)
      BY <1>1, <1>2, <2>2 DEF Delivered!Acknowledge
    <2>4. QED
      BY <2>3 DEF Delivered!Next
  <1>3. CASE k \notin pushes
    BY <1>1, <1>3 DEF Delivered!delivery
  <1>4. QED
    BY <1>2, <1>3

(* A webhook request that ends takes no window from elsewhere: what is     *)
(* covered then was covered before, or is given up.                        *)
LEMMA EndedRequestCovers ==
  ASSUME TypeOK, NEW r \in Request, Ignore(r) \/ Dispatch(r) \/ HookFailed(r),
         NEW m \in Mail, Covered(m)'
  PROVE  Covered(m) \/ m \in missed'
  <1>1. /\ UNCHANGED <<workers, polled>> /\ pc'[r] = "idle"
        /\ \A q \in Request \ {r} : pc'[q] = pc[q] /\ known'[q] = known[q]
    BY DEF Ignore, Dispatch, HookFailed, Acknowledge, EndRequest, TypeOK
  <1>2. ASSUME NEW q \in Request, ByRequest(q, m)' PROVE Covered(m)
    BY <1>1, <1>2 DEF Covered, ByRequest, Window, Note
  <1>3. ASSUME NEW t \in tasks', m \in Claims(t) PROVE Covered(m)
    <2>1. CASE t \in tasks
      BY <1>3, <2>1 DEF Covered
    <2>2. CASE t \notin tasks
      <3>1. Dispatch(r) /\ m \in Window(known[r], Note(r))
        BY <1>3, <2>2 DEF Ignore, Dispatch, HookFailed, Claims
      <3>2. QED
        BY <3>1 DEF Dispatch, Covered
    <2>3. QED
      BY <2>1, <2>2
  <1>4. (\E w \in Worker : m \in Holds(w)') => Covered(m)
    BY <1>1 DEF Covered, Holds, workers
  <1>5. QED
    BY <1>1, <1>2, <1>3, <1>4 DEF Covered, ByRequest

(* The same of a worker that takes a task, goes through it or gives it up. *)
LEMMA WorkerCovers ==
  ASSUME TypeOK, NEW w \in Worker, NEW m \in Mail, Covered(m)',
         \/ Takes(w) \/ PollFailed(w)
         \/ \E k \in Mail : ProcessFailed(w, k)
         \/ \E k \in Mail : k # m /\ Process(w, k)
  PROVE  Covered(m) \/ m \in missed'
  <1>1. /\ UNCHANGED hooks
        /\ \A v \in Worker \ {w} : at'[v] = at[v] /\ job'[v] = job[v] /\ left'[v] = left[v]
    BY DEF Takes, PollWindow, PollRecent, ListFailed, Process, PollFailed, ProcessFailed,
           GoThrough, EndTask, workers, TypeOK
  <1>2. m \in polled' => Covered(m)
    BY DEF Takes, PollWindow, PollRecent, ListFailed, Process, PollFailed, ProcessFailed, Covered
  <1>3. (\E r \in Request : ByRequest(r, m)') => Covered(m)
    BY <1>1 DEF Covered, ByRequest, hooks
  <1>4. ASSUME NEW t \in tasks', m \in Claims(t) PROVE Covered(m)
    <2>1. CASE t \in tasks
      BY <1>4, <2>1 DEF Covered
    <2>2. CASE t \notin tasks
      <3>1. PICK u \in tasks : t = Retried(u)
        BY <2>2 DEF Takes, PollWindow, PollRecent, ListFailed, Process, PollFailed, ProcessFailed
      <3>2. m \in Claims(u)
        BY <1>4, <3>1 DEF Claims, Retried
      <3>3. QED
        BY <3>2 DEF Covered
    <2>3. QED
      BY <2>1, <2>2
  <1>5. ASSUME NEW v \in Worker \ {w}, m \in Holds(v)' PROVE Covered(m)
    BY <1>1, <1>5 DEF Covered, Holds
  <1>6. ASSUME m \in Holds(w)' PROVE Covered(m)
    <2>1. at'[w] = "poll" /\ m \in Claims(job'[w]) /\ m \in left'[w]
      BY <1>6 DEF Holds, Claims
    <2>2. ASSUME NEW t \in tasks, PollWindow(w, t) \/ PollRecent(w, t) PROVE Covered(m)
      <3>1. job'[w] = t
        BY <2>2 DEF PollWindow, PollRecent, GoThrough, TypeOK
      <3>2. QED
        BY <2>1, <3>1 DEF Covered
    <2>3. ASSUME NEW t \in tasks, ListFailed(w, t) PROVE Covered(m)
      BY <2>1, <2>3 DEF ListFailed, workers
    <2>4. ASSUME NEW k \in Mail, ProcessFailed(w, k) \/ Process(w, k) PROVE Covered(m)
      <3>1. at' = at /\ job' = job /\ left'[w] \subseteq left[w]
        BY <2>4 DEF Process, ProcessFailed, TypeOK
      <3>2. m \in Holds(w)
        BY <2>1, <3>1 DEF Holds
      <3>3. QED
        BY <3>2 DEF Covered
    <2>5. ~PollFailed(w)
      BY <2>1 DEF PollFailed, EndTask, TypeOK
    <2>6. QED
      BY <2>2, <2>3, <2>4, <2>5 DEF Takes
  <1>7. QED
    BY <1>1, <1>2, <1>3, <1>4, <1>5, <1>6 DEF Covered, ByRequest

(* A registration jumps over what no window has.                           *)
LEMMA SaveWatchDelivers ==
  ASSUME Inv, [Next]_vars, NEW n \in HistoryId, SaveWatch(n)
  PROVE  Delivered!Next
  <1>1. UNCHANGED <<pushes, polled, hooks, tasks, workers>> /\ missed \subseteq missed'
    BY DEF SaveWatch
  <1>2. \A m \in Mail : Covered(m)' => Covered(m) \/ m \in missed'
    BY <1>1 DEF Covered, Holds, hooks, workers
  <1>3. QED
    BY <1>1, <1>2, MissStep DEF Inv

LEMMA RequestDelivers ==
  ASSUME Inv, [Next]_vars, NEW r \in Request, Delivery(r)
  PROVE  Delivered!Next \/ UNCHANGED Delivered!delivery
  <1>1. TypeOK
    BY DEF Inv
  <1>2. CASE ReadCursor(r) \/ MoveCursor(r)
    <2>1. UNCHANGED <<pushes, polled, missed>>
      BY <1>2 DEF ReadCursor, MoveCursor
    <2>2. QED
      BY <1>1, <2>1, OweStep
  <1>3. CASE Ignore(r) \/ Dispatch(r)
    <2>1. UNCHANGED <<polled, missed>> /\ pushes' = pushes \ {Note(r)}
      BY <1>3 DEF Ignore, Dispatch, Acknowledge
    <2>2. \A m \in Mail : Covered(m)' => Covered(m)
      BY <1>1, <1>3, <2>1, EndedRequestCovers DEF Covered
    <2>3. QED
      BY <2>1, <2>2, RequestFacts, DischargeStep
  <1>4. CASE HookFailed(r)
    <2>1. UNCHANGED <<pushes, polled>> /\ missed \subseteq missed'
      BY <1>4 DEF HookFailed
    <2>2. \A m \in Mail : Covered(m)' => Covered(m) \/ m \in missed'
      BY <1>1, <1>4, EndedRequestCovers
    <2>3. QED
      BY <1>1, <2>1, <2>2, MissStep
  <1>5. QED
    BY <1>2, <1>3, <1>4 DEF Delivery, HookContinues

(* What is polled is polled, whatever it was before.                       *)
LEMMA ProcessDelivers ==
  ASSUME Inv, [Next]_vars, NEW w \in Worker, NEW k \in Mail, Process(w, k)
  PROVE  Delivered!Next
  <1>1. TypeOK
    BY DEF Inv
  <1>2. polled' = polled \cup {k} /\ missed' = missed \ {k} /\ pushes' = pushes
    BY DEF Process
  <1>3. ASSUME NEW m \in Mail PROVE Standing[m]' = IF m \in {k} THEN "polled" ELSE Standing[m]
    <2>1. CASE m = k
      BY <1>2, <2>1 DEF Standing
    <2>2. CASE m # k
      <3>1. Covered(m) => Covered(m)'
        BY <1>1, CoveredStays
      <3>2. Covered(m)' => Covered(m) \/ m \in missed'
        BY <1>1, <2>2, WorkerCovers
      <3>3. QED
        BY <1>2, <2>2, <3>1, <3>2 DEF Standing
    <2>3. QED
      BY <2>1, <2>2
  <1>4. Delivered!Poll(k)
    <2>1. Delivered!Become({k}, "polled")
      BY <1>3, BecomeAt
    <2>2. QED
      BY <1>2, <2>1 DEF Delivered!Poll
  <1>5. QED
    BY <1>4 DEF Delivered!Next

LEMMA WorkerDelivers ==
  ASSUME Inv, [Next]_vars, NEW w \in Worker,
         PollUnread(w) \/ Takes(w) \/ GoesOn(w) \/ Breaks(w)
  PROVE  Delivered!Next
  <1>1. TypeOK
    BY DEF Inv
  <1>2. CASE PollUnread(w) \/ Finish(w) \/ Crash(w)
    <2>1. UNCHANGED <<pushes, polled, missed>>
      BY <1>2 DEF PollUnread, Finish, Crash
    <2>2. QED
      BY <1>1, <2>1, OweStep
  <1>3. CASE Takes(w) \/ PollFailed(w) \/ \E k \in Mail : ProcessFailed(w, k)
    <2>1. UNCHANGED <<pushes, polled>> /\ missed \subseteq missed'
      BY <1>3 DEF Takes, PollWindow, PollRecent, ListFailed, PollFailed, ProcessFailed
    <2>2. ASSUME NEW m \in Mail, Covered(m)' PROVE Covered(m) \/ m \in missed'
      <3>1. CASE Takes(w) \/ PollFailed(w)
        BY <1>1, <2>2, <3>1, WorkerCovers
      <3>2. CASE \E k \in Mail : ProcessFailed(w, k)
        BY <1>1, <2>2, <3>2, WorkerCovers
      <3>3. QED
        BY <1>3, <3>1, <3>2
    <2>3. QED
      BY <1>1, <2>1, <2>2, MissStep
  <1>4. QED
    BY <1>2, <1>3, ProcessDelivers DEF GoesOn, Breaks

LEMMA DeliveryStep == Inv /\ [Next]_vars => [Delivered!Next]_(Delivered!delivery)
  <1> SUFFICES ASSUME Inv, [Next]_vars
               PROVE  Delivered!Next \/ UNCHANGED Delivered!delivery
    OBVIOUS
  <1>1. TypeOK
    BY DEF Inv
  <1>2. CASE Arrive
    <2>1. UNCHANGED Standing
      BY <1>2 DEF Arrive, Standing, Covered, Holds, hooks, workers
    <2>2. arrived + 1 \in Mail
      BY <1>1, <1>2, MailAssumption DEF Arrive, TypeOK, Mail, HistoryId
    <2>3. Delivered!Announce(arrived + 1) \/ UNCHANGED Delivered!delivery
      BY <1>2, <2>1 DEF Arrive, Delivered!Announce, Delivered!delivery
    <2>4. QED
      BY <2>2, <2>3 DEF Delivered!Next
  <1>3. CASE Register \/ (\E m \in Mail : Open(m)) \/ (\E n \in HistoryId : SaveWatchFailed(n))
             \/ UNCHANGED vars
    <2>1. UNCHANGED <<pushes, polled, missed>>
      BY <1>3 DEF Register, Open, SaveWatchFailed, vars
    <2>2. QED
      BY <1>1, <2>1, OweStep
  <1>4. QED
    BY <1>2, <1>3, SaveWatchDelivers, RequestDelivers, WorkerDelivers DEF Next

(* The webhook, the registrations and the poll tasks (gmail_push.py,       *)
(* messaging_webhooks.py:180-245, tasks.py:1028-1295), step by step and    *)
(* whatever fails, do to each mail only what MailDelivery allows: a mail   *)
(* owed a poll is not let go but by a poll or by giving it up.             *)
THEOREM ImplementsDeliveryHolds == Spec => ImplementsDelivery
  BY DeliveryInit, DeliveryStep, InvHolds, PTL DEF Spec, ImplementsDelivery, Delivered!Spec
=============================================================================
