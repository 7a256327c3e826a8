----------------------- MODULE PreBookingReview_proofs -----------------------
(* Theorems about PreBookingReview, for any number of drafts, requests and *)
(* texts.                                                                  *)
EXTENDS PreBookingReview, FiniteSetTheorems, TLAPS

Replies == {"approve", "edit"}
Deciding == Replies \cup {"reject"}

LEMMA TypeInit == Init => TypeOK
  <1> SUFFICES ASSUME Init PROVE TypeOK
    OBVIOUS
  <1>1. inquiry \in [Draft -> Inquiry] /\ refresh \in [Draft -> Inquiry \cup {NoRow}]
    BY DEF Init
  <1>2. kind \in [Request -> Kind]
    BY HandlersAssumption DEF Init, HandlersAssumption
  <1>3. QED
    BY <1>1, <1>2 DEF Init, TypeOK, Decided, Place, Response

LEMMA OutcomeRowType ==
  ASSUME NEW r \in Request, TypeOK, reply[r] \in Text \/ kind[r] = "reject",
         NEW i \in Inquiry
  PROVE  /\ OutcomeRow(r, i) \in Inquiry
         /\ OutcomeRow(r, i).status = IF kind[r] = "reject" THEN "rejected" ELSE "replied"
         /\ OutcomeRow(r, i).final = IF kind[r] = "reject" THEN i.final ELSE reply[r]
         /\ OutcomeRow(r, i).property = i.property
  <1>1. CASE kind[r] = "reject"
    BY <1>1 DEF OutcomeRow, Inquiry, Status, Decided
  <1>2. CASE kind[r] = "approve"
    BY <1>2 DEF OutcomeRow, Inquiry, Status, Decided
  <1>3. CASE kind[r] \notin {"reject", "approve"}
    BY <1>3 DEF OutcomeRow, Inquiry, Status, Decided
  <1>4. QED  BY <1>1, <1>2, <1>3

LEMMA RewrittenType ==
  ASSUME NEW i \in Inquiry, NEW t \in Text, NEW q \in Property \cup {NoProperty}
  PROVE  /\ Rewritten(i, t, q) \in Inquiry
         /\ Rewritten(i, t, q).status = "pending_review"
         /\ Rewritten(i, t, q).final = i.final
  BY DEF Rewritten, Inquiry, Status

(* A row that tells no more of an inquiry's history than the inquiry does: *)
(* its final reply, and its status or that it is pending.                  *)
TellsNoMore(j, i) ==
    /\ j \in Inquiry
    /\ j.final = i.final
    /\ j.status \in {i.status, "pending_review"}

LEMMA LiveRow ==
  ASSUME NEW i \in Inquiry, NEW j \in Live(i)
  PROVE  TellsNoMore(j, i)
  <1>1. CASE j = i
    BY <1>1 DEF TellsNoMore
  <1>2. ASSUME NEW q \in Property, j = [i EXCEPT !.property = q] PROVE TellsNoMore(j, i)
    BY <1>2 DEF TellsNoMore, Inquiry
  <1>3. QED  BY <1>1, <1>2 DEF Live

LEMMA RewrittenRow ==
  ASSUME NEW i \in Inquiry, NEW t \in Text, NEW q \in Property \cup {NoProperty},
         NEW j \in Live(Rewritten(i, t, q))
  PROVE  TellsNoMore(j, i)
  <1>1. /\ Rewritten(i, t, q) \in Inquiry
        /\ Rewritten(i, t, q).status = "pending_review"
        /\ Rewritten(i, t, q).final = i.final
    BY RewrittenType
  <1>2. QED
    BY <1>1, LiveRow DEF TellsNoMore
-----------------------------------------------------------------------------
(***************************************************************************)
(* Where a handler can stand, by the call it serves, and what it holds     *)
(* there.                                                                  *)
(***************************************************************************)
PlaceOK ==
    \A r \in Request :
        /\ pc[r] \in {"send", "resolve"} => kind[r] \in Replies
        /\ pc[r] \in {"persist", "learn"} => kind[r] \in Deciding
        /\ pc[r] = "publish" => kind[r] \in Deciding \cup {"bind", "regenerate"}
        /\ pc[r] \in {"sync", "sync_write"} => kind[r] \in Deciding \cup {"assign"}
        /\ pc[r] = "assign" => kind[r] = "assign"
        /\ pc[r] = "bind" => kind[r] = "bind"
        /\ pc[r] = "reread" => kind[r] \in {"bind", "kb_retry"}
        /\ pc[r] = "rewrite" => kind[r] \in Retries

HoldsOK ==
    \A r \in Request :
        /\ pc[r] = "send" => reply[r] \in Text
        /\ pc[r] = "persist" /\ kind[r] \in Replies => reply[r] \in Text
        /\ pc[r] = "sync_write" => view[r] \in Inquiry
        /\ pc[r] = "rewrite" => row[r] \in Inquiry /\ row[r].status = "pending_review"

Typed == TypeOK /\ PlaceOK /\ HoldsOK

LEMMA TypedInit == Init => Typed
  BY TypeInit DEF Init, Typed, PlaceOK, HoldsOK

(* The part of Typed that is about the handlers and not about the tables. *)
HandlersOK ==
    /\ pc \in [Request -> Place]
    /\ kind \in [Request -> Kind]
    /\ target \in [Request -> Draft]
    /\ row \in [Request -> Inquiry \cup {NoRow}]
    /\ view \in [Request -> Inquiry \cup {NoRow}]
    /\ reply \in [Request -> Text \cup {NoText}]
    /\ gapWrite \in [Request -> BOOLEAN]
    /\ response \in [Request -> Response]
    /\ PlaceOK
    /\ HoldsOK

LEMMA LeaveTyped ==
  ASSUME HandlersOK, NEW r \in Request, NEW p \in {"done", "crashed"}, Leave(r, p),
         UNCHANGED calls,
         UNCHANGED response \/ \E a \in Response : response' = [response EXCEPT ![r] = a]
  PROVE  HandlersOK'
  <1>1. PlaceOK' /\ HoldsOK'
    BY DEF HandlersOK, Leave, Goto, calls, PlaceOK, HoldsOK
  <1>2. response' \in [Request -> Response]
    BY DEF HandlersOK
  <1>3. QED
    BY <1>1, <1>2 DEF HandlersOK, Leave, Goto, calls, Place

LEMMA AnswerTyped ==
  ASSUME HandlersOK, NEW r \in Request, NEW a \in Response, Answer(r, a), UNCHANGED calls
  PROVE  HandlersOK'
  BY LeaveTyped DEF Answer

LEMMA StepTyped ==
  ASSUME HandlersOK, NEW r \in Request, NEW p \in Place, Step(r, p), UNCHANGED calls,
         p \notin {"send", "sync_write", "rewrite"},
         p = "persist" => kind[r] = "reject" \/ reply[r] \in Text,
         p = "resolve" => kind[r] \in Replies,
         p \in {"persist", "learn"} => kind[r] \in Deciding,
         p = "publish" => kind[r] \in Deciding \cup {"bind", "regenerate"},
         p = "sync" => kind[r] \in Deciding \cup {"assign"},
         p = "assign" => kind[r] = "assign",
         p = "bind" => kind[r] = "bind",
         p = "reread" => kind[r] \in {"bind", "kb_retry"}
  PROVE  HandlersOK'
  BY DEF HandlersOK, Step, Goto, calls, locals, PlaceOK, HoldsOK, Deciding, Replies

LEMMA TypedFromParts ==
  ASSUME HandlersOK', inquiry' \in [Draft -> Inquiry],
         queue' \in [Draft -> Inquiry \cup {NoRow}],
         assignee' \in [Draft -> Operator \cup {NoOperator}],
         gapResolved' \in [Draft -> BOOLEAN], learned' \subseteq Event, mails' \subseteq Mail,
         decision' \in [Request -> Decided \cup {"none"}],
         page' \subseteq Draft, refresh' \in [Draft -> Inquiry \cup {NoRow}]
  PROVE  Typed'
  BY DEF HandlersOK, Typed, TypeOK

LEMMA TypedStep == Typed /\ [Next]_vars => Typed'
  <1> SUFFICES ASSUME Typed, [Next]_vars PROVE Typed'
    OBVIOUS
  <1> USE NullAssumption DEF Typed, Deciding, Replies, Retries, dashboard
  <1>0. HandlersOK
    BY DEF HandlersOK, TypeOK
  <1>1. ASSUME NEW r \in Request, ReadActioned(r) PROVE Typed'
    BY <1>1 DEF ReadActioned, Called, Answer, Leave, Goto, calls, shared, TypeOK, PlaceOK, HoldsOK,
       Place, Response
  <1>2. ASSUME NEW r \in Request, NEW t \in Text, ReadForReply(r, t) PROVE Typed'
    BY <1>2 DEF ReadForReply, Called, Goto, calls, shared, TypeOK, PlaceOK, HoldsOK, Place
  <1>3. ASSUME NEW r \in Request, ReadUnguarded(r) PROVE Typed'
    BY <1>3 DEF ReadUnguarded, Called, Step, Goto, calls, shared, locals, TypeOK, PlaceOK, HoldsOK, Place
  <1>4. ASSUME NEW r \in Request, ReadForRewrite(r) PROVE Typed'
    BY <1>4 DEF ReadForRewrite, Called, Actioned, Goto, calls, shared, TypeOK, PlaceOK, HoldsOK, Place,
       Inquiry, Status, Decided
  <1>5. ASSUME NEW r \in Request, ScheduleRetry(r) PROVE Typed'
    BY <1>5 DEF ScheduleRetry, Called, Step, Goto, calls, shared, locals, TypeOK, PlaceOK, HoldsOK, Place
  <1>6. ASSUME NEW r \in Request, SendDelivered(r) \/ SendFailed(r) PROVE Typed'
    <2>1. MailOf(r) \in Mail
      BY <1>6 DEF SendDelivered, SendFailed, MailOf, Mail, TypeOK, HoldsOK
    <2>2. mails' \subseteq Mail
      BY <1>6, <2>1 DEF SendDelivered, SendFailed, TypeOK
    <2>3. HandlersOK'
      <3>1. CASE SendDelivered(r)
        BY <1>0, <3>1, StepTyped DEF SendDelivered, HoldsOK, PlaceOK, Place
      <3>2. CASE SendFailed(r)
        BY <1>0, <3>2, AnswerTyped DEF SendFailed, Response
      <3>3. QED  BY <1>6, <3>1, <3>2
    <2>4. QED
      BY <1>6, <2>2, <2>3, TypedFromParts DEF SendDelivered, SendFailed, TypeOK
  <1>7. ASSUME NEW r \in Request, Persist(r) PROVE Typed'
    <2>1. /\ OutcomeRow(r, inquiry[target[r]]) \in Inquiry
          /\ OutcomeRow(r, inquiry[target[r]]).status \in Decided
      BY <1>7, OutcomeRowType DEF Persist, TypeOK, PlaceOK, HoldsOK, Decided
    <2>2. inquiry' \in [Draft -> Inquiry]
      BY <1>7, <2>1 DEF Persist, TypeOK
    <2>3. QED
      BY <1>7, <2>1, <2>2 DEF Persist, Step, Goto, calls, locals, TypeOK, PlaceOK, HoldsOK, Place
  <1>8. ASSUME NEW r \in Request, PersistConflict(r) PROVE Typed'
    BY <1>8 DEF PersistConflict, Answer, Leave, Goto, calls, shared, TypeOK, PlaceOK, HoldsOK, Place,
       Response
  <1>9. ASSUME NEW r \in Request, Publish(r) \/ Raise(r) PROVE Typed'
    <2>1. CASE Publish(r)
      <3>1. CASE kind[r] \in {"bind", "regenerate"}
        BY <1>0, <2>1, <3>1, AnswerTyped, TypedFromParts DEF Publish, Response, shared, TypeOK
      <3>2. CASE kind[r] \notin {"bind", "regenerate"}
        <4>1. HandlersOK'
          BY <1>0, <2>1, <3>2, StepTyped DEF Publish, Place, PlaceOK
        <4>2. QED  BY <2>1, <4>1, TypedFromParts DEF Publish, shared, TypeOK
      <3>3. QED  BY <3>1, <3>2
    <2>2. CASE Raise(r)
      BY <1>0, <2>2, AnswerTyped, TypedFromParts DEF Raise, Response, shared, TypeOK
    <2>3. QED  BY <1>9, <2>1, <2>2
  <1>10. ASSUME NEW r \in Request, SyncCompute(r) PROVE Typed'
    <2>1. PICK i \in Live(inquiry[target[r]]) : view' = [view EXCEPT ![r] = i]
      BY <1>10 DEF SyncCompute
    <2>2. i \in Inquiry
      BY LiveRow DEF TypeOK, TellsNoMore
    <2>3. QED
      BY <1>10, <2>1, <2>2 DEF SyncCompute, Goto, calls, shared, TypeOK, PlaceOK, HoldsOK, Place
  <1>11. ASSUME NEW r \in Request, SyncWrite(r) \/ SyncSkipped(r) PROVE Typed'
    <2>1. queue' \in [Draft -> Inquiry \cup {NoRow}]
      BY <1>11 DEF SyncWrite, SyncSkipped, shared, TypeOK, HoldsOK
    <2>2. HandlersOK'
      <3>1. ASSUME NEW a \in Response, Answer(r, a) PROVE HandlersOK'
        BY <1>0, <1>11, <3>1, AnswerTyped DEF SyncWrite, SyncSkipped
      <3>2. ASSUME AfterSync(r) PROVE HandlersOK'
        <4>1. CASE kind[r] \in {"approve", "edit"}
          BY <1>0, <1>11, <3>2, <4>1, StepTyped DEF AfterSync, SyncWrite, SyncSkipped, Place
        <4>2. CASE kind[r] = "reject"
          BY <3>1, <3>2, <4>2 DEF AfterSync, Response
        <4>3. CASE kind[r] = "assign"
          BY <1>0, <1>11, <3>2, <4>3, StepTyped DEF AfterSync, SyncWrite, SyncSkipped, Place
        <4>4. QED  BY <1>11, <4>1, <4>2, <4>3 DEF SyncWrite, SyncSkipped, PlaceOK
      <3>3. QED  BY <1>11, <3>1, <3>2 DEF SyncWrite, SyncSkipped, Response
    <2>3. QED
      BY <1>11, <2>1, <2>2, TypedFromParts DEF SyncWrite, SyncSkipped, shared, TypeOK
  <1>12. ASSUME NEW r \in Request, NEW o \in Operator \cup {NoOperator}, Assign(r, o) PROVE Typed'
    BY <1>12 DEF Assign, Answer, Leave, Goto, calls, TypeOK, PlaceOK, HoldsOK, Place, Response
  <1>13. ASSUME NEW r \in Request, AssignFailed(r) PROVE Typed'
    BY <1>13 DEF AssignFailed, Answer, Leave, Goto, calls, shared, TypeOK, PlaceOK, HoldsOK, Place,
       Response
  <1>14. ASSUME NEW r \in Request, NEW b \in BOOLEAN, ResolveGaps(r, b) PROVE Typed'
    BY <1>14 DEF ResolveGaps, Goto, calls, shared, TypeOK, PlaceOK, HoldsOK, Place
  <1>15. ASSUME NEW r \in Request, Learn(r) \/ LearnFailed(r) PROVE Typed'
    <2>1. learned' \subseteq Event
      BY <1>15 DEF Learn, LearnFailed, EventOf, Event, shared, TypeOK
    <2>2. gapResolved' \in [Draft -> BOOLEAN]
      BY <1>15 DEF Learn, LearnFailed, shared, TypeOK
    <2>3. HandlersOK'
      <3>1. CASE kind[r] = "reject"
        BY <1>0, <1>15, <3>1, StepTyped DEF Learn, LearnFailed, AfterLearning, Place
      <3>2. CASE kind[r] # "reject"
        BY <1>0, <1>15, <3>2, AnswerTyped DEF Learn, LearnFailed, AfterLearning, Response
      <3>3. QED  BY <3>1, <3>2
    <2>4. QED
      BY <1>15, <2>1, <2>2, <2>3, TypedFromParts DEF Learn, LearnFailed, shared, TypeOK
  <1>16. ASSUME NEW r \in Request, NEW p \in Property, Bind(r, p) PROVE Typed'
    <2>0. inquiry \in [Draft -> Inquiry] /\ target[r] \in Draft
      BY DEF TypeOK
    <2>b. [inquiry[target[r]] EXCEPT !.property = p] \in Inquiry
      BY <2>0 DEF Inquiry
    <2>1. inquiry' \in [Draft -> Inquiry]
      BY <1>16, <2>0, <2>b DEF Bind
    <2>2. QED
      BY <1>16, <2>1 DEF Bind, Step, Goto, calls, locals, TypeOK, PlaceOK, HoldsOK, Place
  <1>17. ASSUME NEW r \in Request, BindUnknownProperty(r) PROVE Typed'
    BY <1>17 DEF BindUnknownProperty, Answer, Leave, Goto, calls, shared, TypeOK, PlaceOK, HoldsOK,
       Place, Response
  <1>18. ASSUME NEW r \in Request, Reread(r) PROVE Typed'
    BY <1>18 DEF Reread, Actioned, Goto, calls, shared, TypeOK, PlaceOK, HoldsOK, Place, Inquiry,
       Status, Decided
  <1>19. ASSUME NEW r \in Request, RereadActioned(r) \/ RewriteRaised(r) PROVE Typed'
    <2>1. HandlersOK'
      <3>1. CASE kind[r] = "bind"
        BY <1>0, <1>19, <3>1, StepTyped DEF RereadActioned, RewriteRaised, AfterFailedRetry, Place
      <3>2. CASE kind[r] # "bind"
        BY <1>0, <1>19, <3>2, AnswerTyped DEF RereadActioned, RewriteRaised, AfterFailedRetry, Response
      <3>3. QED  BY <3>1, <3>2
    <2>2. QED
      BY <1>19, <2>1, TypedFromParts DEF RereadActioned, RewriteRaised, shared, TypeOK
  <1>20. ASSUME NEW r \in Request, AfterRewrite(r), pc[r] = "rewrite", UNCHANGED calls
         PROVE  HandlersOK'
    <2>1. CASE kind[r] = "kb_retry"
      BY <1>0, <1>20, <2>1, AnswerTyped DEF AfterRewrite, Response
    <2>2. CASE kind[r] # "kb_retry"
      BY <1>0, <1>20, <2>2, StepTyped DEF AfterRewrite, Place, PlaceOK
    <2>3. QED  BY <2>1, <2>2
  <1>21. ASSUME NEW r \in Request, NEW t \in Text, NEW p \in Property \cup {NoProperty}, Rewrite(r, t, p)
         PROVE  Typed'
    <2>1. inquiry' \in [Draft -> Inquiry] /\ inquiry'[target[r]] \in Inquiry
      BY <1>21, RewrittenType DEF Rewrite, TypeOK
    <2>2. queue' \in [Draft -> Inquiry \cup {NoRow}]
      <3>1. PICK i \in Live(inquiry'[target[r]]) : queue' = [queue EXCEPT ![target[r]] = i]
        BY <1>21 DEF Rewrite
      <3>2. QED  BY <2>1, <3>1, LiveRow DEF TypeOK, TellsNoMore
    <2>3. QED
      BY <1>20, <1>21, <2>1, <2>2, TypedFromParts DEF Rewrite, TypeOK
  <1>22. ASSUME NEW r \in Request, NEW t \in Text, NEW p \in Property \cup {NoProperty},
                RewriteLost(r, t, p)
         PROVE  Typed'
    <2>1. \A i \in Live(inquiry[target[r]]) \cup Live(Rewritten(inquiry[target[r]], t, p)) :
             i \in Inquiry
      BY LiveRow, RewrittenRow DEF TypeOK, TellsNoMore
    <2>2. queue' \in [Draft -> Inquiry \cup {NoRow}]
      BY <1>22, <2>1 DEF RewriteLost, TypeOK
    <2>3. QED
      BY <1>20, <1>22, <2>2, TypedFromParts DEF RewriteLost, TypeOK
  <1>23. ASSUME NEW r \in Request, Crash(r) PROVE Typed'
    BY <1>0, <1>23, LeaveTyped, TypedFromParts DEF Crash, shared, TypeOK
  <1>24. ASSUME Poll PROVE Typed'
    BY <1>24 DEF Poll, PageMoves, RefreshCompute, RefreshWrite, RefreshFailed, calls, shared, locals,
       TypeOK, PlaceOK, HoldsOK
  <1>25. ASSUME UNCHANGED vars PROVE Typed'
    BY <1>25 DEF vars, calls, shared, locals, TypeOK, PlaceOK, HoldsOK
  <1>26. QED
    BY <1>1, <1>2, <1>3, <1>4, <1>5, <1>6, <1>7, <1>8, <1>9, <1>10, <1>11, <1>12, <1>13, <1>14,
       <1>15, <1>16, <1>17, <1>18, <1>19, <1>20, <1>21, <1>22, <1>23, <1>24, <1>25
       DEF Next, Reads, Continues

(* Every handler and every table keeps its type, and a handler only ever   *)
(* stands where the call it serves can take it.                            *)
THEOREM TypeCorrect == Spec => []TypeOK
  <1>1. Spec => []Typed
    BY TypedInit, TypedStep, PTL DEF Spec
  <1>2. Typed => TypeOK
    BY DEF Typed
  <1>3. QED
    BY <1>1, <1>2, PTL
-----------------------------------------------------------------------------
(***************************************************************************)
(* What a step of the system can do to the tables and to one handler.  The *)
(* history invariants only need these facts.                               *)
(***************************************************************************)
Outcome(r) == IF kind[r] = "reject" THEN "rejected" ELSE "replied"
Undecided == {"new", "send", "persist"}
PastOutcome == {"publish", "sync", "sync_write", "resolve", "learn"}

Commits(r) == pc[r] = "persist" /\ pc'[r] \in PastOutcome

(* The tables. *)
TableEffects ==
    /\ mails \subseteq mails'
    /\ \A d \in Draft :
          \/ inquiry'[d].status = inquiry[d].status /\ inquiry'[d].final = inquiry[d].final
          \/ /\ inquiry'[d].status = "pending_review" /\ inquiry'[d].final = inquiry[d].final
             /\ \E r \in Request : target[r] = d /\ pc[r] = "rewrite" /\ pc'[r] # "rewrite"
          \/ \E r \in Request : /\ target[r] = d /\ Commits(r) /\ ~Actioned(d)
                                /\ inquiry'[d] = OutcomeRow(r, inquiry[d])
    /\ \A d \in Draft :
          \/ queue'[d] \in {queue[d], refresh[d]}
          \/ TellsNoMore(queue'[d], inquiry[d])
          \/ \E r \in Request : target[r] = d /\ queue'[d] = view[r]
    /\ \A d \in Draft : \/ refresh'[d] \in {refresh[d], NoRow}
                       \/ TellsNoMore(refresh'[d], inquiry[d])
    /\ \A d \in Draft : gapResolved'[d] =>
          \/ gapResolved[d]
          \/ \E r \in Request : target[r] = d /\ gapWrite[r] /\ EventOf(r) \in learned'
    /\ learned \subseteq learned'
    /\ \A e \in learned' : e \in learned \/ \E r \in Request : e = EventOf(r) /\ pc[r] = "learn"

(* One handler. *)
HandlerEffects(q) ==
    /\ decision'[q] = IF Commits(q) THEN Outcome(q) ELSE decision[q]
    /\ Commits(q) => ~Actioned(target[q]) /\ inquiry'[target[q]].status = Outcome(q)
    /\ pc'[q] \in Undecided => pc[q] \in Undecided
    /\ pc'[q] \in PastOutcome /\ kind[q] \in Deciding => pc[q] \in PastOutcome \/ Commits(q)
    /\ pc'[q] = "persist" /\ kind[q] \in Replies =>
          [req |-> q, draft |-> target[q], text |-> reply'[q]] \in mails' \/ (pc[q] = "persist" /\ reply'[q] = reply[q])
    /\ view'[q] \in {view[q], NoRow} \/ TellsNoMore(view'[q], inquiry[target[q]])
    /\ gapWrite'[q] => gapWrite[q] \/ kind[q] \in Replies
    /\ response'[q] = "ok" /\ kind[q] \in Deciding => response[q] = "ok" \/ pc[q] \in PastOutcome
    /\ response'[q] = "conflict" \/ (kind[q] = "reject" /\ response'[q] = "not_found") =>
          \/ response[q] = response'[q]
          \/ pc[q] \in Undecided /\ pc'[q] = "done" /\ Actioned(target[q])

Effects == UNCHANGED calls /\ TableEffects /\ \A q \in Request : HandlerEffects(q)

LEMMA Untouched ==
  ASSUME NEW q \in Request, pc'[q] = pc[q], view'[q] = view[q], reply'[q] = reply[q],
         gapWrite'[q] = gapWrite[q], response'[q] = response[q], decision'[q] = decision[q]
  PROVE  HandlerEffects(q)
  BY DEF HandlerEffects, Commits, PastOutcome

LEMMA StepEffects == Typed /\ [Next]_vars => Effects
  <1> SUFFICES ASSUME Typed, [Next]_vars PROVE Effects
    OBVIOUS
  <1> USE NullAssumption DEF Typed, Deciding, Replies, Retries, dashboard
  <1>1. ASSUME NEW r \in Request, ReadActioned(r) \/ PersistConflict(r) PROVE Effects
    <2>1. UNCHANGED calls /\ TableEffects
      BY <1>1 DEF TableEffects, TypeOK, PlaceOK, HoldsOK, ReadActioned, PersistConflict,
         Called, Answer, Leave, Goto, calls, shared
    <2>2. ASSUME NEW q \in Request \ {r} PROVE HandlerEffects(q)
      BY <1>1, Untouched DEF TypeOK, ReadActioned, PersistConflict, Called, Answer, Leave, Goto, calls,
         shared
    <2>3. HandlerEffects(r)
      BY <1>1 DEF HandlerEffects, Commits, TypeOK, PlaceOK, Place, Undecided, PastOutcome,
           MailOf, ReadActioned, PersistConflict, Called, Answer, Leave, Goto, calls,
           shared
    <2>4. QED  BY <2>1, <2>2, <2>3 DEF Effects
  <1>2. ASSUME NEW r \in Request, NEW t \in Text, ReadForReply(r, t) PROVE Effects
    <2>1. UNCHANGED calls /\ TableEffects
      BY <1>2 DEF TableEffects, TypeOK, PlaceOK, HoldsOK, ReadForReply, Called, Goto, calls,
         shared
    <2>2. ASSUME NEW q \in Request \ {r} PROVE HandlerEffects(q)
      BY <1>2, Untouched DEF TypeOK, ReadForReply, Called, Goto, calls, shared
    <2>3. HandlerEffects(r)
      BY <1>2 DEF HandlerEffects, Commits, TypeOK, PlaceOK, Place, Undecided, PastOutcome,
           MailOf, ReadForReply, Called, Goto, calls, shared
    <2>4. QED  BY <2>1, <2>2, <2>3 DEF Effects
  <1>3. ASSUME NEW r \in Request, ReadUnguarded(r) PROVE Effects
    <2>1. UNCHANGED calls /\ TableEffects
      BY <1>3 DEF TableEffects, TypeOK, PlaceOK, HoldsOK, ReadUnguarded, Called, Step, Goto,
         calls, shared, locals
    <2>2. ASSUME NEW q \in Request \ {r} PROVE HandlerEffects(q)
      BY <1>3, Untouched DEF TypeOK, ReadUnguarded, Called, Step, Goto, calls, shared, locals
    <2>3. HandlerEffects(r)
      BY <1>3 DEF HandlerEffects, Commits, TypeOK, PlaceOK, Place, Undecided, PastOutcome,
           MailOf, ReadUnguarded, Called, Step, Goto, calls, shared, locals
    <2>4. QED  BY <2>1, <2>2, <2>3 DEF Effects
  <1>4. ASSUME NEW r \in Request, ReadForRewrite(r) PROVE Effects
    <2>1. UNCHANGED calls /\ TableEffects
      BY <1>4 DEF TableEffects, TypeOK, PlaceOK, HoldsOK, ReadForRewrite, Called, Goto, calls,
         shared
    <2>2. ASSUME NEW q \in Request \ {r} PROVE HandlerEffects(q)
      BY <1>4, Untouched DEF TypeOK, ReadForRewrite, Called, Goto, calls, shared
    <2>3. HandlerEffects(r)
      BY <1>4 DEF HandlerEffects, Commits, TypeOK, PlaceOK, Place, Undecided, PastOutcome,
           MailOf, ReadForRewrite, Called, Goto, calls, shared
    <2>4. QED  BY <2>1, <2>2, <2>3 DEF Effects
  <1>5. ASSUME NEW r \in Request, ScheduleRetry(r) PROVE Effects
    <2>1. UNCHANGED calls /\ TableEffects
      BY <1>5 DEF TableEffects, TypeOK, PlaceOK, HoldsOK, ScheduleRetry, Called, Step, Goto,
         calls, shared, locals
    <2>2. ASSUME NEW q \in Request \ {r} PROVE HandlerEffects(q)
      BY <1>5, Untouched DEF TypeOK, ScheduleRetry, Called, Step, Goto, calls, shared, locals
    <2>3. HandlerEffects(r)
      BY <1>5 DEF HandlerEffects, Commits, TypeOK, PlaceOK, Place, Undecided, PastOutcome,
           MailOf, ScheduleRetry, Called, Step, Goto, calls, shared, locals
    <2>4. QED  BY <2>1, <2>2, <2>3 DEF Effects
  <1>6. ASSUME NEW r \in Request, SendDelivered(r) PROVE Effects
    <2>1. UNCHANGED calls /\ TableEffects
      BY <1>6 DEF TableEffects, TypeOK, PlaceOK, HoldsOK, SendDelivered, Step, Goto, calls,
         locals
    <2>2. ASSUME NEW q \in Request \ {r} PROVE HandlerEffects(q)
      BY <1>6, Untouched DEF TypeOK, SendDelivered, Step, Goto, calls, locals
    <2>3. HandlerEffects(r)
      BY <1>6 DEF HandlerEffects, Commits, TypeOK, PlaceOK, Place, Undecided, PastOutcome,
           MailOf, SendDelivered, Step, Goto, calls, locals
    <2>4. QED  BY <2>1, <2>2, <2>3 DEF Effects
  <1>7. ASSUME NEW r \in Request, SendFailed(r) PROVE Effects
    <2>1. UNCHANGED calls /\ TableEffects
      BY <1>7 DEF TableEffects, TypeOK, PlaceOK, HoldsOK, SendFailed, Answer, Leave, Goto,
         calls
    <2>2. ASSUME NEW q \in Request \ {r} PROVE HandlerEffects(q)
      BY <1>7, Untouched DEF TypeOK, SendFailed, Answer, Leave, Goto, calls
    <2>3. HandlerEffects(r)
      BY <1>7 DEF HandlerEffects, Commits, TypeOK, PlaceOK, Place, Undecided, PastOutcome,
           MailOf, SendFailed, Answer, Leave, Goto, calls
    <2>4. QED  BY <2>1, <2>2, <2>3 DEF Effects
  <1>8. ASSUME NEW r \in Request, Persist(r) PROVE Effects
    <2>1. UNCHANGED calls /\ TableEffects
      BY <1>8 DEF TableEffects, Commits, PastOutcome, TypeOK, PlaceOK, HoldsOK, Persist, Step,
         Goto, calls, locals
    <2>2. ASSUME NEW q \in Request \ {r} PROVE HandlerEffects(q)
      BY <1>8, Untouched DEF TypeOK, Persist, Step, Goto, calls, locals
    <2>3. HandlerEffects(r)
      BY <1>8 DEF HandlerEffects, Commits, TypeOK, PlaceOK, Place, Undecided, PastOutcome,
           MailOf, OutcomeRow, Outcome, Inquiry, Actioned, Persist, Step, Goto,
           calls, locals
    <2>4. QED  BY <2>1, <2>2, <2>3 DEF Effects
  <1>9. ASSUME NEW r \in Request, Publish(r) PROVE Effects
    <2>1. UNCHANGED calls /\ TableEffects
      BY <1>9 DEF TableEffects, TypeOK, PlaceOK, HoldsOK, Publish, Answer, Leave, Step, Goto,
         calls, shared, locals
    <2>2. ASSUME NEW q \in Request \ {r} PROVE HandlerEffects(q)
      BY <1>9, Untouched DEF TypeOK, Publish, Answer, Leave, Step, Goto, calls, shared, locals
    <2>3. HandlerEffects(r)
      BY <1>9 DEF HandlerEffects, Commits, TypeOK, PlaceOK, Place, Undecided, PastOutcome,
           MailOf, Publish, Answer, Leave, Step, Goto, calls, shared, locals
    <2>4. QED  BY <2>1, <2>2, <2>3 DEF Effects
  <1>10. ASSUME NEW r \in Request, Raise(r) PROVE Effects
    <2>1. UNCHANGED calls /\ TableEffects
      BY <1>10 DEF TableEffects, TypeOK, PlaceOK, HoldsOK, Raise, Answer, Leave, Goto, calls,
         shared
    <2>2. ASSUME NEW q \in Request \ {r} PROVE HandlerEffects(q)
      BY <1>10, Untouched DEF TypeOK, Raise, Answer, Leave, Goto, calls, shared
    <2>3. HandlerEffects(r)
      BY <1>10 DEF HandlerEffects, Commits, TypeOK, PlaceOK, Place, Undecided, PastOutcome,
           MailOf, Raise, Answer, Leave, Goto, calls, shared
    <2>4. QED  BY <2>1, <2>2, <2>3 DEF Effects
  <1>11. ASSUME NEW r \in Request, SyncCompute(r) PROVE Effects
    <2>1. UNCHANGED calls /\ TableEffects
      BY <1>11 DEF TableEffects, TypeOK, PlaceOK, HoldsOK, SyncCompute, Goto, calls, shared
    <2>2. ASSUME NEW q \in Request \ {r} PROVE HandlerEffects(q)
      BY <1>11, Untouched DEF TypeOK, SyncCompute, Goto, calls, shared
    <2>a. TellsNoMore(view'[r], inquiry[target[r]])
      BY <1>11, LiveRow DEF SyncCompute, TypeOK
    <2>3. HandlerEffects(r)
      BY <1>11, <2>a DEF HandlerEffects, Commits, TypeOK, PlaceOK, Place, Undecided, PastOutcome,
           MailOf, SyncCompute, Goto, calls, shared
    <2>4. QED  BY <2>1, <2>2, <2>3 DEF Effects
  <1>12. ASSUME NEW r \in Request, SyncWrite(r) PROVE Effects
    <2>1. UNCHANGED calls /\ TableEffects
      BY <1>12 DEF TableEffects, TypeOK, PlaceOK, HoldsOK, SyncWrite, AfterSync, Answer, Leave,
         Step, Goto, calls, locals
    <2>2. ASSUME NEW q \in Request \ {r} PROVE HandlerEffects(q)
      BY <1>12, Untouched DEF TypeOK, SyncWrite, AfterSync, Answer, Leave, Step, Goto, calls, locals
    <2>3. HandlerEffects(r)
      BY <1>12 DEF HandlerEffects, Commits, TypeOK, PlaceOK, Place, Undecided, PastOutcome,
           MailOf, SyncWrite, AfterSync, Answer, Leave, Step, Goto, calls, locals
    <2>4. QED  BY <2>1, <2>2, <2>3 DEF Effects
  <1>13. ASSUME NEW r \in Request, SyncSkipped(r) PROVE Effects
    <2>1. UNCHANGED calls /\ TableEffects
      BY <1>13 DEF TableEffects, TypeOK, PlaceOK, HoldsOK, SyncSkipped, AfterSync, Answer,
         Leave, Step, Goto, calls, shared, locals
    <2>2. ASSUME NEW q \in Request \ {r} PROVE HandlerEffects(q)
      BY <1>13, Untouched DEF TypeOK, SyncSkipped, AfterSync, Answer, Leave, Step, Goto, calls, shared,
         locals
    <2>3. HandlerEffects(r)
      BY <1>13 DEF HandlerEffects, Commits, TypeOK, PlaceOK, Place, Undecided, PastOutcome,
           MailOf, SyncSkipped, AfterSync, Answer, Leave, Step, Goto, calls, shared,
           locals
    <2>4. QED  BY <2>1, <2>2, <2>3 DEF Effects
  <1>14. ASSUME NEW r \in Request, NEW o \in Operator \cup {NoOperator}, Assign(r, o) PROVE Effects
    <2>1. UNCHANGED calls /\ TableEffects
      BY <1>14 DEF TableEffects, TypeOK, PlaceOK, HoldsOK, Assign, Answer, Leave, Goto, calls
    <2>2. ASSUME NEW q \in Request \ {r} PROVE HandlerEffects(q)
      BY <1>14, Untouched DEF TypeOK, Assign, Answer, Leave, Goto, calls
    <2>3. HandlerEffects(r)
      BY <1>14 DEF HandlerEffects, Commits, TypeOK, PlaceOK, Place, Undecided, PastOutcome,
           MailOf, Assign, Answer, Leave, Goto, calls
    <2>4. QED  BY <2>1, <2>2, <2>3 DEF Effects
  <1>15. ASSUME NEW r \in Request, AssignFailed(r) PROVE Effects
    <2>1. UNCHANGED calls /\ TableEffects
      BY <1>15 DEF TableEffects, TypeOK, PlaceOK, HoldsOK, AssignFailed, Answer, Leave, Goto,
         calls, shared
    <2>2. ASSUME NEW q \in Request \ {r} PROVE HandlerEffects(q)
      BY <1>15, Untouched DEF TypeOK, AssignFailed, Answer, Leave, Goto, calls, shared
    <2>3. HandlerEffects(r)
      BY <1>15 DEF HandlerEffects, Commits, TypeOK, PlaceOK, Place, Undecided, PastOutcome,
           MailOf, AssignFailed, Answer, Leave, Goto, calls, shared
    <2>4. QED  BY <2>1, <2>2, <2>3 DEF Effects
  <1>16. ASSUME NEW r \in Request, NEW b \in BOOLEAN, ResolveGaps(r, b) PROVE Effects
    <2>1. UNCHANGED calls /\ TableEffects
      BY <1>16 DEF TableEffects, TypeOK, PlaceOK, HoldsOK, ResolveGaps, Goto, calls, shared
    <2>2. ASSUME NEW q \in Request \ {r} PROVE HandlerEffects(q)
      BY <1>16, Untouched DEF TypeOK, ResolveGaps, Goto, calls, shared
    <2>3. HandlerEffects(r)
      BY <1>16 DEF HandlerEffects, Commits, TypeOK, PlaceOK, Place, Undecided, PastOutcome,
           MailOf, ResolveGaps, Goto, calls, shared
    <2>4. QED  BY <2>1, <2>2, <2>3 DEF Effects
  <1>17. ASSUME NEW r \in Request, Learn(r) PROVE Effects
    <2>1. UNCHANGED calls /\ TableEffects
      BY <1>17 DEF TableEffects, TypeOK, PlaceOK, HoldsOK, Learn, AfterLearning, Answer, Leave,
         Step, Goto, calls, locals
    <2>2. ASSUME NEW q \in Request \ {r} PROVE HandlerEffects(q)
      BY <1>17, Untouched DEF TypeOK, Learn, AfterLearning, Answer, Leave, Step, Goto, calls, locals
    <2>3. HandlerEffects(r)
      BY <1>17 DEF HandlerEffects, Commits, TypeOK, PlaceOK, Place, Undecided, PastOutcome,
           MailOf, Learn, AfterLearning, Answer, Leave, Step, Goto, calls, locals
    <2>4. QED  BY <2>1, <2>2, <2>3 DEF Effects
  <1>18. ASSUME NEW r \in Request, LearnFailed(r) PROVE Effects
    <2>1. UNCHANGED calls /\ TableEffects
      BY <1>18 DEF TableEffects, TypeOK, PlaceOK, HoldsOK, LearnFailed, AfterLearning, Answer,
         Leave, Step, Goto, calls, shared, locals
    <2>2. ASSUME NEW q \in Request \ {r} PROVE HandlerEffects(q)
      BY <1>18, Untouched DEF TypeOK, LearnFailed, AfterLearning, Answer, Leave, Step, Goto, calls,
         shared, locals
    <2>3. HandlerEffects(r)
      BY <1>18 DEF HandlerEffects, Commits, TypeOK, PlaceOK, Place, Undecided, PastOutcome,
           MailOf, LearnFailed, AfterLearning, Answer, Leave, Step, Goto, calls,
           shared, locals
    <2>4. QED  BY <2>1, <2>2, <2>3 DEF Effects
  <1>19. ASSUME NEW r \in Request, NEW p \in Property, Bind(r, p) PROVE Effects
    <2>1. UNCHANGED calls /\ TableEffects
      BY <1>19 DEF TableEffects, TypeOK, PlaceOK, HoldsOK, Bind, Step, Goto, calls, locals,
         Inquiry
    <2>2. ASSUME NEW q \in Request \ {r} PROVE HandlerEffects(q)
      BY <1>19, Untouched DEF TypeOK, Bind, Step, Goto, calls, locals, Inquiry
    <2>3. HandlerEffects(r)
      BY <1>19 DEF HandlerEffects, Commits, TypeOK, PlaceOK, Place, Undecided, PastOutcome,
           MailOf, Bind, Step, Goto, calls, locals, Inquiry
    <2>4. QED  BY <2>1, <2>2, <2>3 DEF Effects
  <1>20. ASSUME NEW r \in Request, BindUnknownProperty(r) PROVE Effects
    <2>1. UNCHANGED calls /\ TableEffects
      BY <1>20 DEF TableEffects, TypeOK, PlaceOK, HoldsOK, BindUnknownProperty, Answer, Leave,
         Goto, calls, shared
    <2>2. ASSUME NEW q \in Request \ {r} PROVE HandlerEffects(q)
      BY <1>20, Untouched DEF TypeOK, BindUnknownProperty, Answer, Leave, Goto, calls, shared
    <2>3. HandlerEffects(r)
      BY <1>20 DEF HandlerEffects, Commits, TypeOK, PlaceOK, Place, Undecided, PastOutcome,
           MailOf, BindUnknownProperty, Answer, Leave, Goto, calls, shared
    <2>4. QED  BY <2>1, <2>2, <2>3 DEF Effects
  <1>21. ASSUME NEW r \in Request, Reread(r) PROVE Effects
    <2>1. UNCHANGED calls /\ TableEffects
      BY <1>21 DEF TableEffects, TypeOK, PlaceOK, HoldsOK, Reread, Goto, calls, shared
    <2>2. ASSUME NEW q \in Request \ {r} PROVE HandlerEffects(q)
      BY <1>21, Untouched DEF TypeOK, Reread, Goto, calls, shared
    <2>3. HandlerEffects(r)
      BY <1>21 DEF HandlerEffects, Commits, TypeOK, PlaceOK, Place, Undecided, PastOutcome,
           MailOf, Reread, Goto, calls, shared
    <2>4. QED  BY <2>1, <2>2, <2>3 DEF Effects
  <1>22. ASSUME NEW r \in Request, RereadActioned(r) \/ RewriteRaised(r) PROVE Effects
    <2>1. UNCHANGED calls /\ TableEffects
      BY <1>22 DEF TableEffects, TypeOK, PlaceOK, HoldsOK, RereadActioned, RewriteRaised,
         AfterFailedRetry, Answer, Leave, Step, Goto, calls, shared, locals
    <2>2. ASSUME NEW q \in Request \ {r} PROVE HandlerEffects(q)
      BY <1>22, Untouched DEF TypeOK, RereadActioned, RewriteRaised, AfterFailedRetry, Answer, Leave,
         Step, Goto, calls, shared, locals
    <2>3. HandlerEffects(r)
      BY <1>22 DEF HandlerEffects, Commits, TypeOK, PlaceOK, Place, Undecided, PastOutcome,
           MailOf, RereadActioned, RewriteRaised, AfterFailedRetry, Answer, Leave,
           Step, Goto, calls, shared, locals
    <2>4. QED  BY <2>1, <2>2, <2>3 DEF Effects
  <1>23. ASSUME NEW r \in Request, NEW t \in Text, NEW p \in Property \cup {NoProperty}, Rewrite(r, t, p) PROVE Effects
    <2>a. \A i \in Live(inquiry'[target[r]]) : TellsNoMore(i, inquiry[target[r]])
      BY <1>23, RewrittenRow DEF Rewrite, TypeOK
    <2>1. UNCHANGED calls /\ TableEffects
      BY <1>23, <2>a, RewrittenType DEF TableEffects, TypeOK, PlaceOK, HoldsOK, Rewrite, AfterRewrite, Answer,
         Leave, Step, Goto, calls, locals
    <2>2. ASSUME NEW q \in Request \ {r} PROVE HandlerEffects(q)
      BY <1>23, Untouched DEF TypeOK, Rewrite, AfterRewrite, Answer, Leave, Step, Goto, calls, locals
    <2>3. HandlerEffects(r)
      BY <1>23 DEF HandlerEffects, Commits, TypeOK, PlaceOK, Place, Undecided, PastOutcome,
           MailOf, Rewrite, AfterRewrite, Answer, Leave, Step, Goto, calls, locals
    <2>4. QED  BY <2>1, <2>2, <2>3 DEF Effects
  <1>24. ASSUME NEW r \in Request, NEW t \in Text, NEW p \in Property \cup {NoProperty},
                RewriteLost(r, t, p)
         PROVE  Effects
    <2>a. \A i \in Live(inquiry[target[r]]) \cup Live(Rewritten(inquiry[target[r]], t, p)) :
             TellsNoMore(i, inquiry[target[r]])
      BY LiveRow, RewrittenRow DEF TypeOK
    <2>1. UNCHANGED calls /\ TableEffects
      BY <1>24, <2>a DEF TableEffects, TypeOK, PlaceOK, HoldsOK, RewriteLost, AfterRewrite, Answer,
         Leave, Step, Goto, calls, locals
    <2>2. ASSUME NEW q \in Request \ {r} PROVE HandlerEffects(q)
      BY <1>24, Untouched DEF TypeOK, RewriteLost, AfterRewrite, Answer, Leave, Step, Goto, calls, locals
    <2>3. HandlerEffects(r)
      BY <1>24 DEF HandlerEffects, Commits, TypeOK, PlaceOK, Place, Undecided, PastOutcome,
           MailOf, RewriteLost, AfterRewrite, Answer, Leave, Step, Goto, calls,
           locals
    <2>4. QED  BY <2>1, <2>2, <2>3 DEF Effects
  <1>25. ASSUME NEW r \in Request, Crash(r) PROVE Effects
    <2>1. UNCHANGED calls /\ TableEffects
      BY <1>25 DEF TableEffects, TypeOK, PlaceOK, HoldsOK, Crash, Leave, Goto, calls, shared,
         NotRunning
    <2>2. ASSUME NEW q \in Request \ {r} PROVE HandlerEffects(q)
      BY <1>25, Untouched DEF TypeOK, Crash, Leave, Goto, calls, shared, NotRunning
    <2>3. HandlerEffects(r)
      BY <1>25 DEF HandlerEffects, Commits, TypeOK, PlaceOK, Place, Undecided, PastOutcome,
           MailOf, Crash, Leave, Goto, calls, shared, NotRunning
    <2>4. QED  BY <2>1, <2>2, <2>3 DEF Effects
  <1>26. ASSUME Poll PROVE Effects
    <2>a. \A d \in Draft : \A i \in Live(inquiry[d]) : TellsNoMore(i, inquiry[d])
      BY LiveRow DEF TypeOK
    <2>1. UNCHANGED calls /\ TableEffects
      BY <1>26, <2>a DEF TableEffects, TypeOK, PlaceOK, HoldsOK, Poll, PageMoves, RefreshCompute,
         RefreshWrite, RefreshFailed, calls, shared, locals
    <2>2. ASSUME NEW q \in Request PROVE HandlerEffects(q)
      BY <1>26, Untouched DEF Poll, PageMoves, RefreshCompute, RefreshWrite, RefreshFailed, calls,
         shared, locals
    <2>3. QED  BY <2>1, <2>2 DEF Effects
  <1>27. ASSUME UNCHANGED vars PROVE Effects
    <2>1. UNCHANGED calls /\ TableEffects
      BY <1>27 DEF TableEffects, TypeOK, PlaceOK, HoldsOK, vars, calls, shared, locals
    <2>2. ASSUME NEW q \in Request PROVE HandlerEffects(q)
      BY <1>27, Untouched DEF vars, calls, shared, locals
    <2>3. QED  BY <2>1, <2>2 DEF Effects
  <1>28. QED
    BY <1>1, <1>2, <1>3, <1>4, <1>5, <1>6, <1>7, <1>8, <1>9, <1>10, <1>11, <1>12,
       <1>13, <1>14, <1>15, <1>16, <1>17, <1>18, <1>19, <1>20, <1>21, <1>22, <1>23,
       <1>24, <1>25, <1>26, <1>27
       DEF Next, Reads, Continues
-----------------------------------------------------------------------------
(***************************************************************************)
(* The inductive invariant of the safety properties.                       *)
(***************************************************************************)
(* A handler that has decided has committed its outcome; one that has not  *)
(* has committed none.                                                     *)
DecisionOK ==
    \A r \in Request :
        /\ decision[r] \in {"none", Outcome(r)}
        /\ pc[r] \in Undecided => decision[r] = "none"
        /\ kind[r] \in Deciding /\ pc[r] \in PastOutcome => decision[r] = Outcome(r)

(* What is to be persisted as a reply, and what was, has been delivered. *)
MailOK ==
    \A r \in Request :
        /\ pc[r] = "persist" /\ kind[r] \in Replies => MailOf(r) \in mails
        /\ decision[r] = "replied" => \E m \in mails : m.req = r

GapWriteOK == \A r \in Request : gapWrite[r] => kind[r] \in Replies

(* Every copy of an inquiry, wherever it lies, shows only history. *)
CopiesOK ==
    /\ \A d \in Draft : ShowsOnlyHistory(d, inquiry[d])
    /\ \A d \in Draft : queue[d] # NoRow => ShowsOnlyHistory(d, queue[d])
    /\ \A d \in Draft : refresh[d] # NoRow => ShowsOnlyHistory(d, refresh[d])
    /\ \A r \in Request : view[r] # NoRow => ShowsOnlyHistory(target[r], view[r])

Inv ==
    /\ Typed
    /\ DecisionOK
    /\ MailOK
    /\ GapWriteOK
    /\ CopiesOK
    /\ RepliedWasDelivered
    /\ LearnedFromDecisions
    /\ GapsResolvedByReply
    /\ ConflictHasWinner
    /\ OkIsOnRecord

LEMMA InvInit == Init => Inv
  <1> SUFFICES ASSUME Init PROVE Inv
    OBVIOUS
  <1>1. Typed
    BY TypedInit
  <1>2. \A d \in Draft : inquiry[d].status = "pending_review" /\ inquiry[d].final = NoText
    BY DEF Init
  <1>3. CopiesOK /\ RepliedWasDelivered
    BY <1>2 DEF Init, CopiesOK, ShowsOnlyHistory, RepliedWasDelivered, Decided
  <1>4. DecisionOK /\ MailOK /\ GapWriteOK
    BY DEF Init, DecisionOK, MailOK, GapWriteOK, PastOutcome
  <1>5. LearnedFromDecisions /\ GapsResolvedByReply /\ ConflictHasWinner /\ OkIsOnRecord
    BY DEF Init, LearnedFromDecisions, GapsResolvedByReply, ConflictHasWinner, OkIsOnRecord
  <1>6. QED
    BY <1>1, <1>3, <1>4, <1>5 DEF Inv

LEMMA InvStep == Inv /\ [Next]_vars => Inv'
  <1> SUFFICES ASSUME Inv, [Next]_vars PROVE Inv'
    OBVIOUS
  <1>1. Typed /\ Typed'
    BY TypedStep DEF Inv
  <1>2. kind' = kind /\ target' = target
    BY StepEffects, <1>1 DEF Effects, calls
  <1>3. TableEffects /\ \A q \in Request : HandlerEffects(q)
    BY StepEffects, <1>1 DEF Effects
  <1>4. \A r \in Request : Commits(r) => kind[r] \in Deciding
    BY <1>1 DEF Commits, Typed, PlaceOK
  <1>5. \A r \in Request : Outcome(r)' = Outcome(r) /\ Outcome(r) \in Decided
    BY <1>2 DEF Outcome, Decided
  <1>6. DecisionOK'
    <2> SUFFICES ASSUME NEW r \in Request
                 PROVE  /\ decision'[r] \in {"none", Outcome(r)}
                        /\ pc'[r] \in Undecided => decision'[r] = "none"
                        /\ kind[r] \in Deciding /\ pc'[r] \in PastOutcome => decision'[r] = Outcome(r)
      BY <1>2, <1>5 DEF DecisionOK
    <2>1. QED
      BY <1>3 DEF Inv, DecisionOK, HandlerEffects, Commits, Undecided, PastOutcome
  (* No decision is taken back, and none is taken but by a commit. *)
  <1>7. \A r \in Request : decision[r] # "none" => decision'[r] = decision[r]
    BY <1>3 DEF Inv, DecisionOK, HandlerEffects, Commits, Undecided
  <1>8. MailOK'
    <2>1. ASSUME NEW r \in Request, pc'[r] = "persist", kind[r] \in Replies
          PROVE  [req |-> r, draft |-> target[r], text |-> reply'[r]] \in mails'
      BY <1>3, <2>1 DEF Inv, MailOK, MailOf, HandlerEffects, TableEffects
    <2>2. ASSUME NEW r \in Request, decision'[r] = "replied"
          PROVE  \E m \in mails' : m.req = r
      <3>1. CASE Commits(r)
        <4>1. MailOf(r) \in mails /\ MailOf(r).req = r
          BY <1>3, <1>4, <2>2, <3>1 DEF Inv, MailOK, MailOf, HandlerEffects, Commits, Outcome, Deciding
        <4>2. QED  BY <1>3, <4>1 DEF TableEffects
      <3>2. CASE ~Commits(r)
        <4>1. decision[r] = "replied"
          BY <1>3, <2>2, <3>2 DEF HandlerEffects
        <4>2. \E m \in mails : m.req = r
          BY <4>1 DEF Inv, MailOK
        <4>3. QED  BY <1>3, <4>2 DEF TableEffects
      <3>3. QED  BY <3>1, <3>2
    <2>3. QED
      BY <1>2, <2>1, <2>2 DEF MailOK, MailOf
  <1>9. GapWriteOK'
    BY <1>2, <1>3 DEF Inv, GapWriteOK, HandlerEffects
  <1> DEFINE Shown(d, i) ==
        /\ i.status \in Decided =>
              \E r \in Request : target[r] = d /\ decision'[r] = i.status
        /\ i.final # NoText => \E m \in mails' : m.draft = d /\ m.text = i.final
  <1>10. \A d \in Draft, i \in Inquiry : ShowsOnlyHistory(d, i) => Shown(d, i)
    BY <1>3, <1>7 DEF ShowsOnlyHistory, TableEffects, Decided
  (* What the row of an inquiry becomes when r commits its outcome. *)
  <1>11. ASSUME NEW d \in Draft, NEW r \in Request, target[r] = d, Commits(r),
                inquiry'[d] = OutcomeRow(r, inquiry[d])
         PROVE  /\ inquiry'[d].status = Outcome(r) /\ decision'[r] = Outcome(r)
                /\ \/ kind[r] = "reject" /\ inquiry'[d].final = inquiry[d].final
                   \/ /\ MailOf(r) \in mails /\ MailOf(r).draft = d
                      /\ MailOf(r).text = inquiry'[d].final /\ inquiry'[d].final \in Text
    <2>1. pc[r] = "persist" /\ kind[r] \in Deciding /\ (kind[r] # "reject" => reply[r] \in Text)
      BY <1>1, <1>4, <1>11 DEF Commits, Typed, HoldsOK, Deciding
    <2>2. inquiry[d] \in Inquiry /\ TypeOK
      BY <1>1 DEF Typed, TypeOK
    <2>3. /\ inquiry'[d].status = Outcome(r)
          /\ inquiry'[d].final = IF kind[r] = "reject" THEN inquiry[d].final ELSE reply[r]
      BY <1>11, <2>1, <2>2, OutcomeRowType DEF Outcome
    <2>4. kind[r] # "reject" => MailOf(r) \in mails
      BY <2>1 DEF Inv, MailOK, Deciding
    <2>5. MailOf(r).draft = d /\ MailOf(r).text = reply[r]
      BY <1>11 DEF MailOf
    <2>6. decision'[r] = Outcome(r)
      BY <1>3, <1>11 DEF HandlerEffects
    <2>7. QED  BY <2>1, <2>3, <2>4, <2>5, <2>6
  <1>12. \A d \in Draft : Shown(d, inquiry'[d])
    <2> SUFFICES ASSUME NEW d \in Draft PROVE Shown(d, inquiry'[d])
      OBVIOUS
    <2>1. Shown(d, inquiry[d])
      BY <1>1, <1>10 DEF Inv, CopiesOK, Typed, TypeOK
    <2>2. CASE inquiry'[d].status \in {inquiry[d].status, "pending_review"} /\ inquiry'[d].final = inquiry[d].final
      BY <2>1, <2>2 DEF Decided
    <2>3. CASE \E r \in Request : target[r] = d /\ Commits(r) /\ inquiry'[d] = OutcomeRow(r, inquiry[d])
      BY <1>3, <1>11, <2>1, <2>3 DEF TableEffects
    <2>4. QED  BY <1>3, <2>2, <2>3 DEF TableEffects
  <1>13. CopiesOK'
    <2> HIDE DEF Shown
    <2>0. /\ \A d \in Draft : inquiry[d] # NoRow => Shown(d, inquiry[d])
          /\ \A d \in Draft : queue[d] # NoRow => Shown(d, queue[d])
          /\ \A d \in Draft : refresh[d] # NoRow => Shown(d, refresh[d])
          /\ \A r \in Request : view[r] # NoRow => Shown(target[r], view[r])
      BY <1>1, <1>10 DEF Inv, CopiesOK, Typed, TypeOK
    <2>a. \A d \in Draft : \A j : TellsNoMore(j, inquiry[d]) => Shown(d, j)
      BY <2>0, <1>1, NullAssumption DEF TellsNoMore, Shown, Decided, Typed, TypeOK
    <2>1. \A d \in Draft : queue'[d] # NoRow => Shown(d, queue'[d])
      BY <1>3, <2>0, <2>a DEF TableEffects
    <2>2. \A d \in Draft : refresh'[d] # NoRow => Shown(d, refresh'[d])
      BY <1>3, <2>0, <2>a DEF TableEffects
    <2>3. \A r \in Request : view'[r] # NoRow => Shown(target[r], view'[r])
      BY <1>1, <1>3, <2>0, <2>a DEF HandlerEffects, Typed, TypeOK
    <2>4. QED
      BY <1>2, <1>12, <2>1, <2>2, <2>3 DEF CopiesOK, ShowsOnlyHistory, Shown
  <1>14. RepliedWasDelivered'
    <2>1. ASSUME NEW d \in Draft, inquiry'[d].status = "replied" PROVE inquiry'[d].final # NoText
      BY <1>1, <1>3, <1>11, <2>1, NullAssumption DEF Inv, RepliedWasDelivered, TableEffects, Outcome
    <2>2. QED
      BY <1>12, <2>1 DEF RepliedWasDelivered
  <1>15. LearnedFromDecisions'
    <2> SUFFICES ASSUME NEW e \in learned'
                 PROVE  /\ target[e.req] = e.draft
                        /\ decision'[e.req] = IF e.event = "rejected" THEN "rejected" ELSE "replied"
      BY <1>2 DEF LearnedFromDecisions
    <2>1. CASE e \in learned
      BY <1>1, <1>7, <2>1 DEF Inv, LearnedFromDecisions, Typed, TypeOK, Event
    <2>2. CASE \E r \in Request : e = EventOf(r) /\ pc[r] = "learn"
      <3>1. PICK r \in Request : e = EventOf(r) /\ pc[r] = "learn"
        BY <2>2
      <3>2. decision[r] = Outcome(r) /\ kind[r] \in Deciding
        BY <1>1, <3>1 DEF Inv, DecisionOK, PastOutcome, Typed, PlaceOK
      <3>3. e.req = r /\ e.draft = target[r] /\ (e.event = "rejected" <=> kind[r] = "reject")
        BY <3>1 DEF EventOf
      <3>4. QED  BY <1>5, <1>7, <3>2, <3>3 DEF Outcome, Decided
    <2>3. QED  BY <1>3, <2>1, <2>2 DEF TableEffects
  <1>16. GapsResolvedByReply'
    <2> SUFFICES ASSUME NEW d \in Draft, gapResolved'[d]
                 PROVE  \E e \in learned' : e.draft = d /\ e.event \in {"approved_unchanged", "edited"}
      BY DEF GapsResolvedByReply
    <2>1. CASE gapResolved[d]
      BY <1>3, <2>1 DEF Inv, GapsResolvedByReply, TableEffects
    <2>2. ASSUME NEW r \in Request, target[r] = d, gapWrite[r], EventOf(r) \in learned'
          PROVE  EventOf(r).draft = d /\ EventOf(r).event \in {"approved_unchanged", "edited"}
      BY <2>2 DEF Inv, GapWriteOK, EventOf, Replies
    <2>3. QED  BY <1>3, <2>1, <2>2 DEF TableEffects
  <1>17. ConflictHasWinner'
    <2> SUFFICES ASSUME NEW r \in Request,
                        response'[r] = "conflict" \/ (kind[r] = "reject" /\ response'[r] = "not_found")
                 PROVE  \E q \in Request \ {r} : target[q] = target[r] /\ decision'[q] # "none"
      BY <1>2 DEF ConflictHasWinner
    <2>1. CASE response[r] = response'[r]
      <3>1. PICK q \in Request \ {r} : target[q] = target[r] /\ decision[q] # "none"
        BY <2>1 DEF Inv, ConflictHasWinner
      <3>2. QED  BY <1>7, <3>1
    <2>2. CASE pc[r] \in Undecided /\ Actioned(target[r])
      <3>1. decision[r] = "none" /\ ShowsOnlyHistory(target[r], inquiry[target[r]])
        BY <1>1, <2>2 DEF Inv, DecisionOK, CopiesOK, Typed, TypeOK
      <3>2. PICK q \in Request : target[q] = target[r] /\ decision[q] = inquiry[target[r]].status
        BY <2>2, <3>1 DEF ShowsOnlyHistory, Actioned
      <3>3. decision[q] # "none"
        BY <2>2, <3>2 DEF Actioned, Decided
      <3>4. QED  BY <1>7, <3>1, <3>2, <3>3
    <2>3. QED  BY <1>3, <2>1, <2>2 DEF HandlerEffects
  <1>18. OkIsOnRecord'
    <2> SUFFICES ASSUME NEW r \in Request, response'[r] = "ok", kind[r] \in Deciding
                 PROVE  decision'[r] = Outcome(r) /\ (kind[r] # "reject" => \E m \in mails' : m.req = r)
      BY <1>2 DEF OkIsOnRecord, Outcome, Deciding, Replies
    <2>1. decision[r] = Outcome(r)
      BY <1>3 DEF Inv, OkIsOnRecord, DecisionOK, HandlerEffects, Outcome, Deciding, Replies
    <2>2. decision'[r] = Outcome(r)
      BY <1>5, <1>7, <2>1 DEF Decided
    <2>3. QED
      BY <1>2, <1>8, <2>2 DEF MailOK, Outcome
  <1>19. QED
    BY <1>1, <1>6, <1>8, <1>9, <1>13, <1>14, <1>15, <1>16, <1>17, <1>18 DEF Inv
-----------------------------------------------------------------------------
(***************************************************************************)
(* The theorems.                                                           *)
(***************************************************************************)
LEMMA Invariance == Spec => []Inv
  BY InvInit, InvStep, PTL DEF Spec

(* What an inquiry is marked as replied with was delivered to its guest.   *)
THEOREM RepliedWasDeliveredHolds == Spec => []RepliedWasDelivered
  BY Invariance, PTL DEF Inv

(* Learning events only tell of committed decisions. *)
THEOREM LearnedFromDecisionsHolds == Spec => []LearnedFromDecisions
  BY Invariance, PTL DEF Inv

(* Gaps are resolved together with an approval or edit event. *)
THEOREM GapsResolvedByReplyHolds == Spec => []GapsResolvedByReply
  BY Invariance, PTL DEF Inv

(* However stale, a queue row shows nothing that did not happen. *)
THEOREM QueueInventsNothingHolds == Spec => []QueueInventsNothing
  <1>1. Inv => QueueInventsNothing
    BY DEF Inv, CopiesOK, QueueInventsNothing
  <1>2. QED
    BY Invariance, <1>1, PTL

(* A conflict always has a winner. *)
THEOREM ConflictHasWinnerHolds == Spec => []ConflictHasWinner
  BY Invariance, PTL DEF Inv

(* A success is on record before it is answered. *)
THEOREM OkIsOnRecordHolds == Spec => []OkIsOnRecord
  BY Invariance, PTL DEF Inv

(* Decisions are only ever undone by a re-evaluation that had read the     *)
(* inquiry while it was pending.                                           *)
THEOREM DecisionsStandHolds == Spec => DecisionsStand
  <1> DEFINE Kept(d) ==
        \/ inquiry'[d].status = inquiry[d].status /\ inquiry'[d].final = inquiry[d].final
        \/ /\ inquiry'[d].status = "pending_review"
           /\ \E r \in Request : /\ target[r] = d
                                 /\ kind[r] \in Retries
                                 /\ pc[r] = "rewrite" /\ pc'[r] # "rewrite"
                                 /\ row[r].status = "pending_review"
  <1>1. ASSUME Inv, [Next]_vars, NEW d \in Draft, Actioned(d) PROVE Kept(d)
    <2>1. Typed /\ TableEffects
      BY <1>1, StepEffects DEF Inv, Effects
    <2>2. \A r \in Request : pc[r] = "rewrite" => kind[r] \in Retries /\ row[r].status = "pending_review"
      BY <2>1 DEF Typed, PlaceOK, HoldsOK
    <2>3. QED
      BY <1>1, <2>1, <2>2 DEF TableEffects
  <1>2. Inv /\ [Next]_vars => [\A d \in Draft : Actioned(d) => Kept(d)]_vars
    BY <1>1
  <1>3. QED
    BY Invariance, <1>2, PTL DEF Spec, DecisionsStand

(* The queue row of a draft is upserted by every call and by every refresh *)
(* of the dashboard, from reads that may be stale; its assignment is only  *)
(* changed by an assign call (assign_draft).                               *)
THEOREM AssignmentKeptHolds == Spec => AssignmentKept
  <1> DEFINE Assigned(d) ==
        \E r \in Request : /\ kind[r] = "assign" /\ target[r] = d
                           /\ pc[r] = "assign" /\ pc'[r] = "done"
  <1>1. ASSUME Typed, [Next]_vars, NEW d \in Draft, assignee'[d] # assignee[d] PROVE Assigned(d)
    <2>1. PICK r \in Request, o \in Operator \cup {NoOperator} : Assign(r, o)
      <3>1. ASSUME NEW r \in Request, Reads(r) \/ Crash(r) PROVE assignee' = assignee
        BY <3>1 DEF Reads, ReadActioned, ReadForReply, ReadUnguarded, ReadForRewrite, ScheduleRetry,
           Crash, shared
      <3>2. ASSUME NEW r \in Request, Continues(r), \A o \in Operator \cup {NoOperator} : ~Assign(r, o)
            PROVE  assignee' = assignee
        BY <3>2 DEF Continues, SendDelivered, SendFailed, Persist, PersistConflict, Publish, Raise,
           SyncCompute, SyncWrite, SyncSkipped, AssignFailed, ResolveGaps, Learn, LearnFailed, Bind,
           BindUnknownProperty, Reread, RereadActioned, Rewrite, RewriteLost, RewriteRaised, shared
      <3>3. Poll \/ UNCHANGED vars => assignee' = assignee
        BY DEF Poll, PageMoves, RefreshCompute, RefreshWrite, RefreshFailed, vars, shared
      <3>4. QED
        BY <1>1, <3>1, <3>2, <3>3 DEF Next
    <2>2. kind[r] = "assign"
      BY <1>1, <2>1 DEF Assign, Typed, PlaceOK
    <2>3. target[r] = d
      BY <1>1, <2>1 DEF Assign, Typed, TypeOK
    <2>4. pc'[r] = "done"
      BY <1>1, <2>1 DEF Assign, Answer, Leave, Goto, Typed, TypeOK
    <2>5. QED
      BY <2>1, <2>2, <2>3, <2>4 DEF Assign
  <1>2. Inv /\ [Next]_vars => [\A d \in Draft : assignee'[d] # assignee[d] => Assigned(d)]_vars
    BY <1>1 DEF Inv
  <1>3. QED
    BY Invariance, <1>2, PTL DEF Spec, AssignmentKept
-----------------------------------------------------------------------------
(***************************************************************************)
(* Without retries a draft is decided at most once.                        *)
(***************************************************************************)
LEMMA OneMoves ==
  ASSUME Typed, [Next]_vars, NEW q1 \in Request, NEW q2 \in Request,
         pc'[q1] # pc[q1], pc'[q2] # pc[q2]
  PROVE  q1 = q2
  <1>1. ASSUME NEW r \in Request, NEW p, Goto(r, p) PROVE q1 = q2
    BY <1>1 DEF Goto, Typed, TypeOK
  <1>2. ASSUME NEW r \in Request, Reads(r) PROVE \E p : Goto(r, p)
    BY <1>2 DEF Reads, ReadActioned, ReadForReply, ReadUnguarded, ReadForRewrite, ScheduleRetry,
       Answer, Leave, Step
  <1>3. ASSUME NEW r \in Request, Continues(r) PROVE \E p : Goto(r, p)
    BY <1>3 DEF Continues, SendDelivered, SendFailed, Persist, PersistConflict, Publish, Raise,
       SyncCompute, SyncWrite, SyncSkipped, AfterSync, Assign, AssignFailed, ResolveGaps, Learn,
       LearnFailed, AfterLearning, Bind, BindUnknownProperty, Reread, RereadActioned,
       AfterFailedRetry, Rewrite, RewriteLost, AfterRewrite, RewriteRaised, Answer, Leave, Step
  <1>4. ASSUME NEW r \in Request, Crash(r) PROVE \E p : Goto(r, p)
    BY <1>4 DEF Crash, Leave
  <1>5. Poll \/ UNCHANGED vars => pc' = pc
    BY DEF Poll, PageMoves, RefreshCompute, RefreshWrite, RefreshFailed, vars
  <1>6. QED
    BY <1>1, <1>2, <1>3, <1>4, <1>5 DEF Next

(* A decided draft of which no retry is made stays decided. *)
Unreopened(d) == \A r \in Request : target[r] = d => kind[r] \notin Retries
Decider(r, d) == target[r] = d /\ decision[r] # "none"

SoleDecider ==
    \A d \in Draft : Unreopened(d) =>
        /\ \A r \in Request : Decider(r, d) => Actioned(d)
        /\ \A q, r \in Request : Decider(q, d) /\ Decider(r, d) => q = r

LEMMA SoleDeciderInit == Init => SoleDecider
  BY DEF Init, SoleDecider, Decider

LEMMA SoleDeciderStep == Inv /\ SoleDecider /\ [Next]_vars => SoleDecider'
  <1> SUFFICES ASSUME Inv, SoleDecider, [Next]_vars, NEW d \in Draft, Unreopened(d)
               PROVE  /\ \A r \in Request : Decider(r, d)' => Actioned(d)'
                      /\ \A q, r \in Request : Decider(q, d)' /\ Decider(r, d)' => q = r
    BY StepEffects DEF SoleDecider, Unreopened, Inv, Effects, calls
  <1>1. Typed /\ TableEffects /\ \A q \in Request : HandlerEffects(q)
    BY StepEffects DEF Inv, Effects
  <1>2. kind' = kind /\ target' = target
    BY StepEffects DEF Inv, Effects, calls
  <1>3. ASSUME NEW r \in Request, Decider(r, d)'
        PROVE  Decider(r, d) \/ (target[r] = d /\ Commits(r))
    BY <1>1, <1>2, <1>3 DEF Decider, HandlerEffects
  <1>4. Actioned(d) => Actioned(d)'
    <2>1. \A r \in Request : target[r] = d => pc[r] # "rewrite"
      BY <1>1 DEF Unreopened, Typed, PlaceOK
    <2>2. QED
      BY <1>1, <2>1 DEF TableEffects, Actioned
  <1>5. ASSUME NEW r \in Request, target[r] = d, Commits(r)
        PROVE  ~Actioned(d) /\ Actioned(d)' /\ \A q \in Request : ~Decider(q, d)
    BY <1>1, <1>5 DEF HandlerEffects, Actioned, Outcome, Decided, SoleDecider
  <1>6. ASSUME NEW q \in Request, NEW r \in Request, Commits(q), Commits(r) PROVE q = r
    BY <1>1, <1>6, OneMoves DEF Commits, PastOutcome
  <1>7. QED
    BY <1>3, <1>4, <1>5, <1>6 DEF SoleDecider

(* At most one of the requests that race for a draft decides it. *)
THEOREM OneDecisionHolds == Spec => []OneDecisionUnlessReopened
  <1>1. ASSUME SoleDecider, NEW d \in Draft, Unreopened(d)
        PROVE  Cardinality({r \in Request : Decider(r, d)}) <= 1
    <2>1. CASE {r \in Request : Decider(r, d)} = {}
      BY <2>1, FS_EmptySet
    <2>2. CASE \E r \in Request : Decider(r, d)
      <3>1. PICK q \in Request : Decider(q, d)
        BY <2>2
      <3>2. {r \in Request : Decider(r, d)} = {q}
        BY <1>1, <3>1 DEF SoleDecider
      <3>3. QED  BY <3>2, FS_Singleton
    <2>3. QED  BY <2>1, <2>2
  <1>2. SoleDecider => OneDecisionUnlessReopened
    BY <1>1 DEF OneDecisionUnlessReopened, Unreopened, Decider
  <1>3. QED
    BY SoleDeciderInit, SoleDeciderStep, Invariance, <1>2, PTL DEF Spec
-----------------------------------------------------------------------------
(***************************************************************************)
(* The review implements the life of an inquiry: every step is one of the  *)
(* abstract steps, or none of them.                                        *)
(***************************************************************************)
(* A handler moves to another place, and answers exactly when it is done.  *)
LEMMA HandlerStep ==
  ASSUME NEW r \in Request, Reads(r) \/ Continues(r) \/ Crash(r)
  PROVE  /\ pc[r] \notin {"done", "crashed"}
         /\ UNCHANGED calls
         /\ \/ \E a \in Response : Answer(r, a)
            \/ \E p \in Place \ {"done"} : Goto(r, p) /\ UNCHANGED response
  <1>1. CASE Reads(r)
    BY <1>1 DEF Reads, ReadActioned, ReadForReply, ReadUnguarded, ReadForRewrite, ScheduleRetry,
       Called, Step, Response, Place
  <1>2. ASSUME SendDelivered(r) \/ SendFailed(r) \/ Persist(r) \/ PersistConflict(r) \/ Publish(r)
               \/ Raise(r) \/ SyncCompute(r) \/ SyncWrite(r) \/ SyncSkipped(r)
        PROVE  /\ pc[r] \notin {"done", "crashed"}
               /\ UNCHANGED calls
               /\ \/ \E a \in Response : Answer(r, a)
                  \/ \E p \in Place \ {"done"} : Goto(r, p) /\ UNCHANGED response
    BY <1>2 DEF SendDelivered, SendFailed, Persist, PersistConflict, Publish, Raise, SyncCompute,
       SyncWrite, SyncSkipped, AfterSync, Step, Response, Place
  <1>3. ASSUME (\E o \in Operator \cup {NoOperator} : Assign(r, o)) \/ AssignFailed(r)
               \/ (\E b \in BOOLEAN : ResolveGaps(r, b)) \/ Learn(r) \/ LearnFailed(r)
        PROVE  /\ pc[r] \notin {"done", "crashed"}
               /\ UNCHANGED calls
               /\ \/ \E a \in Response : Answer(r, a)
                  \/ \E p \in Place \ {"done"} : Goto(r, p) /\ UNCHANGED response
    BY <1>3 DEF Assign, AssignFailed, ResolveGaps, Learn, LearnFailed, AfterLearning, Step, Response,
       Place
  <1>4. ASSUME (\E p \in Property : Bind(r, p)) \/ BindUnknownProperty(r)
               \/ Reread(r) \/ RereadActioned(r)
               \/ (\E t \in Text, p \in Property \cup {NoProperty} : Rewrite(r, t, p))
               \/ (\E t \in Text, p \in Property \cup {NoProperty} : RewriteLost(r, t, p))
               \/ RewriteRaised(r)
        PROVE  /\ pc[r] \notin {"done", "crashed"}
               /\ UNCHANGED calls
               /\ \/ \E a \in Response : Answer(r, a)
                  \/ \E p \in Place \ {"done"} : Goto(r, p) /\ UNCHANGED response
    BY <1>4 DEF Bind, BindUnknownProperty, Reread, RereadActioned, Rewrite, RewriteLost,
       RewriteRaised, AfterRewrite, AfterFailedRetry, Step, Response, Place
  <1>5. CASE Crash(r)
    BY <1>5 DEF Crash, Leave, NotRunning, Place
  <1>6. QED
    BY <1>1, <1>2, <1>3, <1>4, <1>5 DEF Continues

Unanswered == \A r \in Request : pc[r] # "done" => response[r] = "none"

LEMMA UnansweredStep == Typed /\ Unanswered /\ [Next]_vars => Unanswered'
  <1> SUFFICES ASSUME Typed, Unanswered, [Next]_vars PROVE Unanswered'
    OBVIOUS
  <1>1. ASSUME NEW r \in Request, Reads(r) \/ Continues(r) \/ Crash(r) PROVE Unanswered'
    BY <1>1, HandlerStep DEF Typed, TypeOK, Unanswered, Answer, Leave, Goto
  <1>2. ASSUME Poll \/ UNCHANGED vars PROVE Unanswered'
    BY <1>2 DEF Poll, PageMoves, RefreshCompute, RefreshWrite, RefreshFailed, vars, Unanswered
  <1>3. QED
    BY <1>1, <1>2 DEF Next

(* What a handler's step does to the sets of callers. *)
LEMMA MovedTo ==
  ASSUME Typed, NEW r \in Request, NEW p \in Place, Goto(r, p)
  PROVE  Composing' = IF p = "rewrite" THEN Composing \cup {r} ELSE Composing \ {r}
  BY DEF Typed, TypeOK, Goto, Composing

LEMMA Silent ==
  ASSUME UNCHANGED calls, UNCHANGED response
  PROVE  UNCHANGED <<Confirmed, Beaten>>
  BY DEF calls, Confirmed, Beaten, TurnedAway

LEMMA Answered ==
  ASSUME Typed, Unanswered, NEW r \in Request, pc[r] \notin {"done", "crashed"},
         NEW a \in Response, Answer(r, a), UNCHANGED calls
  PROVE  /\ Confirmed' = IF a = "ok" /\ kind[r] \in Deciding THEN Confirmed \cup {r} ELSE Confirmed
         /\ Beaten' = IF a = "conflict" \/ (kind[r] = "reject" /\ a = "not_found")
                      THEN Beaten \cup {r} ELSE Beaten
         /\ Composing' = Composing \ {r}
  <1>1. response' = [response EXCEPT ![r] = a] /\ response[r] = "none" /\ kind' = kind
    BY DEF Answer, calls, Unanswered
  <1>2. r \notin Confirmed /\ r \notin Beaten
    BY <1>1 DEF Confirmed, Beaten, TurnedAway
  <1>3. QED
    BY <1>1, <1>2, MovedTo DEF Typed, TypeOK, Place, Answer, Leave, Confirmed, Beaten, TurnedAway,
       Deciding, Replies

LEMMA LifeInit == Init => Life!Init
  BY NullAssumption DEF Init, Life!Init, Statuses, Finals, Sent, Composing, Confirmed, Beaten, TurnedAway

(* Steps that change no table, and neither compose nor confirm nor turn    *)
(* away.                                                                   *)
LEMMA Quiet ==
  ASSUME Typed, Unanswered, NEW r \in Request, UNCHANGED <<inquiry, mails, decision>>, UNCHANGED calls,
         pc[r] \notin {"rewrite", "done", "crashed"},
         \/ \E p \in Place \ {"rewrite"} : Goto(r, p) /\ UNCHANGED response
         \/ \E a \in Response : /\ Answer(r, a)
                              /\ ~(a = "ok" /\ kind[r] \in Deciding)
                              /\ ~(a = "conflict" \/ (kind[r] = "reject" /\ a = "not_found"))
  PROVE  UNCHANGED Life!life
  <1>1. r \notin Composing
    BY DEF Composing
  <1>2. UNCHANGED <<Statuses, Finals, Sent>>
    BY DEF Statuses, Finals, Sent
  <1>3. UNCHANGED <<Composing, Confirmed, Beaten>>
    <2>1. ASSUME NEW p \in Place \ {"rewrite"}, Goto(r, p), UNCHANGED response
          PROVE  UNCHANGED <<Composing, Confirmed, Beaten>>
      BY <1>1, <2>1, MovedTo, Silent
    <2>2. ASSUME NEW a \in Response, Answer(r, a), ~(a = "ok" /\ kind[r] \in Deciding),
                 ~(a = "conflict" \/ (kind[r] = "reject" /\ a = "not_found"))
          PROVE  UNCHANGED <<Composing, Confirmed, Beaten>>
      BY <1>1, <2>2, Answered
    <2>3. QED  BY <2>1, <2>2
  <1>4. QED
    BY <1>2, <1>3 DEF calls, Life!life

LEMMA LifeTurnAway ==
  ASSUME Inv, Unanswered, NEW r \in Request, pc[r] \in Undecided, Actioned(target[r]),
         NEW a \in Response, Answer(r, a), a = "conflict" \/ (kind[r] = "reject" /\ a = "not_found"),
         UNCHANGED <<calls, inquiry, mails, decision>>
  PROVE  Life!TurnAway(r)
  <1>1. PICK w \in Request : target[w] = target[r] /\ decision[w] = inquiry[target[r]].status
    BY DEF Inv, Typed, TypeOK, CopiesOK, ShowsOnlyHistory, Actioned
  <1>2. decision[w] # "none" /\ decision[r] = "none"
    BY <1>1 DEF Actioned, Decided, Inv, DecisionOK
  <1>3. /\ Confirmed' = Confirmed /\ Beaten' = Beaten \cup {r} /\ Composing' = Composing
    BY Answered DEF Inv, Undecided, Composing
  <1>4. UNCHANGED <<Statuses, Finals, Sent, target, decision>>
    BY DEF Statuses, Finals, Sent, calls
  <1>5. QED
    BY <1>1, <1>2, <1>3, <1>4 DEF Life!TurnAway

LEMMA LifeConfirm ==
  ASSUME Inv, Unanswered, NEW r \in Request, pc[r] \in PastOutcome, kind[r] \in Deciding,
         Answer(r, "ok"), UNCHANGED <<calls, inquiry, mails, decision>>
  PROVE  Life!Confirm(r)
  <1>1. decision[r] # "none"
    BY DEF Inv, DecisionOK, Decided, Outcome
  <1>2. /\ Confirmed' = Confirmed \cup {r} /\ Beaten' = Beaten /\ Composing' = Composing
    BY Answered DEF Inv, PastOutcome, Composing, Response
  <1>3. UNCHANGED <<Statuses, Finals, Sent, target>>
    BY DEF Statuses, Finals, Sent, calls
  <1>4. QED
    BY <1>1, <1>2, <1>3 DEF Life!Confirm

LEMMA LifeCompose ==
  ASSUME Typed, NEW r \in Request, ~Actioned(target[r]), Goto(r, "rewrite"), UNCHANGED response,
         UNCHANGED <<calls, inquiry, mails, decision>>
  PROVE  Life!Compose(r)
  <1>1. Statuses[target[r]] = "pending_review"
    BY DEF Statuses, Typed, TypeOK, Actioned, Inquiry, Status
  <1>2. /\ Confirmed' = Confirmed /\ Beaten' = Beaten /\ Composing' = Composing \cup {r}
    BY MovedTo, Silent DEF Place
  <1>3. UNCHANGED <<Statuses, Finals, Sent, target>>
    BY DEF Statuses, Finals, Sent, calls
  <1>4. QED
    BY <1>1, <1>2, <1>3 DEF Life!Compose, Life!Pending

LEMMA LifeSend ==
  ASSUME Typed, Unanswered, NEW r \in Request, pc[r] = "send",
         mails' = mails \cup {MailOf(r)}, UNCHANGED <<calls, inquiry, decision>>,
         Answer(r, "failed") \/ Step(r, "persist")
  PROVE  Life!Send(r, reply[r])
  <1>1. Sent' = Sent \cup {<<target[r], reply[r]>>}
    <2>1. MailOf(r).draft = target[r] /\ MailOf(r).text = reply[r]
      BY DEF MailOf
    <2>2. Sent' = {<<m.draft, m.text>> : m \in mails \cup {MailOf(r)}}
      BY DEF Sent
    <2>3. QED
      BY <2>1, <2>2 DEF Sent
  <1>2. UNCHANGED <<Composing, Confirmed, Beaten>>
    <2>1. CASE Answer(r, "failed")
      BY <2>1, Answered DEF Response, Composing
    <2>2. CASE Step(r, "persist")
      BY <2>2, MovedTo, Silent DEF Step, Place, Composing
    <2>3. QED  BY <2>1, <2>2
  <1>3. UNCHANGED <<Statuses, Finals, target>>
    BY DEF Statuses, Finals, calls
  <1>4. QED
    BY <1>1, <1>2, <1>3 DEF Life!Send

LEMMA LifeDecide ==
  ASSUME Inv, NEW r \in Request, Persist(r)
  PROVE  Life!Rejects(r) \/ \E t \in Text : Life!Replies(r, t)
  <1> DEFINE d == target[r]
             i == OutcomeRow(r, inquiry[d])
  <1>1. /\ pc[r] = "persist" /\ kind[r] \in Deciding /\ d \in Draft /\ inquiry[d] \in Inquiry
        /\ kind[r] # "reject" => reply[r] \in Text /\ MailOf(r) \in mails
    BY DEF Inv, Typed, TypeOK, PlaceOK, HoldsOK, MailOK, Persist, Deciding, Replies
  <1>2. i.status = Outcome(r) /\ i.final = IF kind[r] = "reject" THEN inquiry[d].final ELSE reply[r]
    BY <1>1, OutcomeRowType DEF Inv, Typed, Outcome
  <1>3. inquiry' = [inquiry EXCEPT ![d] = i] /\ decision' = [decision EXCEPT ![r] = Outcome(r)]
    BY <1>2 DEF Persist
  <1>4. /\ Statuses' = [Statuses EXCEPT ![d] = Outcome(r)]
        /\ Finals' = [Finals EXCEPT ![d] = i.final]
    BY <1>1, <1>2, <1>3 DEF Statuses, Finals, Inv, Typed, TypeOK
  <1>5. Statuses[d] = "pending_review" /\ decision[r] = "none"
    BY <1>1 DEF Statuses, Persist, Actioned, Inquiry, Status, Inv, DecisionOK, Undecided
  <1>6. UNCHANGED <<Sent, Composing, Confirmed, Beaten, target>>
    <2>1. ASSUME NEW p \in {"learn", "publish"}, Step(r, p)
          PROVE  UNCHANGED <<Composing, Confirmed, Beaten>>
      BY <1>1, <2>1, MovedTo, Silent DEF Step, Place, Composing, Inv, Persist
    <2>2. QED
      BY <2>1 DEF Persist, Sent, calls
  <1>7. Life!Decide(r, Outcome(r))
    BY <1>3, <1>4, <1>5, <1>6 DEF Life!Decide, Life!Pending
  <1>8. CASE kind[r] = "reject"
    <2>1. Finals' = Finals
      BY <1>1, <1>2, <1>4, <1>8 DEF Finals
    <2>2. QED
      BY <1>7, <1>8, <2>1 DEF Life!Rejects, Outcome
  <1>9. CASE kind[r] # "reject"
    <2>1. <<d, reply[r]>> \in Sent
      <3>1. MailOf(r).draft = d /\ MailOf(r).text = reply[r]
        BY DEF MailOf
      <3>2. QED
        BY <1>1, <1>9, <3>1 DEF Sent
    <2>2. QED
      BY <1>1, <1>2, <1>4, <1>7, <1>9, <2>1 DEF Life!Replies, Outcome
  <1>10. QED
    BY <1>8, <1>9

LEMMA LifeAfterRewrite ==
  ASSUME Typed, Unanswered, NEW r \in Request, pc[r] = "rewrite", UNCHANGED calls,
         \/ AfterRewrite(r) \/ AfterFailedRetry(r)
         \/ Leave(r, "crashed") /\ UNCHANGED response
  PROVE  Composing' = Composing \ {r} /\ UNCHANGED <<Confirmed, Beaten>>
  <1>1. kind[r] \notin Deciding
    BY DEF Typed, PlaceOK, Retries, Deciding, Replies
  <1>2. ASSUME NEW p \in {"publish", "crashed"}, Goto(r, p), UNCHANGED response
        PROVE  Composing' = Composing \ {r} /\ UNCHANGED <<Confirmed, Beaten>>
    BY <1>2, MovedTo, Silent DEF Place
  <1>3. ASSUME NEW a \in {"ok", "failed"}, Answer(r, a)
        PROVE  Composing' = Composing \ {r} /\ UNCHANGED <<Confirmed, Beaten>>
    BY <1>1, <1>3, Answered DEF Response, Deciding
  <1>4. QED
    BY <1>2, <1>3 DEF AfterRewrite, AfterFailedRetry, Step, Leave

LEMMA LifeSubmit ==
  ASSUME Typed, Unanswered, NEW r \in Request, NEW t \in Text, NEW p \in Property \cup {NoProperty},
         Rewrite(r, t, p)
  PROVE  Life!Submit(r)
  <1>1. r \in Composing /\ target[r] \in Draft /\ inquiry[target[r]] \in Inquiry
    BY DEF Rewrite, Composing, Typed, TypeOK
  <1>2. /\ Statuses' = [Statuses EXCEPT ![target[r]] = "pending_review"]
        /\ Finals' = Finals
    <2>1. inquiry' = [inquiry EXCEPT ![target[r]] = Rewritten(inquiry[target[r]], t, p)]
      BY DEF Rewrite
    <2>2. /\ Rewritten(inquiry[target[r]], t, p).status = "pending_review"
          /\ Rewritten(inquiry[target[r]], t, p).final = inquiry[target[r]].final
      BY <1>1, RewrittenType
    <2>3. inquiry \in [Draft -> Inquiry]
      BY DEF Typed, TypeOK
    <2>4. QED
      BY <1>1, <2>1, <2>2, <2>3 DEF Statuses, Finals
  <1>3. Composing' = Composing \ {r} /\ UNCHANGED <<Confirmed, Beaten, Sent, target, decision>>
    BY LifeAfterRewrite DEF Rewrite, Sent, calls
  <1>4. QED
    BY <1>1, <1>2, <1>3 DEF Life!Submit

LEMMA LifeGiveUp ==
  ASSUME Typed, Unanswered, NEW r \in Request, pc[r] = "rewrite",
         \/ \E t \in Text, p \in Property \cup {NoProperty} : RewriteLost(r, t, p)
         \/ RewriteRaised(r) \/ Crash(r)
  PROVE  Life!GiveUp(r)
  <1>1. r \in Composing /\ UNCHANGED <<calls, inquiry, mails, decision>>
    BY DEF Composing, RewriteLost, RewriteRaised, Crash, shared
  <1>2. Composing' = Composing \ {r} /\ UNCHANGED <<Confirmed, Beaten>>
    BY <1>1, LifeAfterRewrite DEF RewriteLost, RewriteRaised, Crash
  <1>3. UNCHANGED <<Statuses, Finals, Sent, target>>
    BY <1>1 DEF Statuses, Finals, Sent, calls
  <1>4. QED
    BY <1>1, <1>2, <1>3 DEF Life!GiveUp

LEMMA LifeStep == Inv /\ Unanswered /\ [Next]_vars => [Life!Next]_(Life!life)
  <1> SUFFICES ASSUME Inv, Unanswered, [Next]_vars
               PROVE  Life!Next \/ UNCHANGED Life!life
    OBVIOUS
  <1> USE DEF Inv
  <1>1. ASSUME NEW r \in Request, Reads(r) PROVE Life!Next \/ UNCHANGED Life!life
    <2>1. CASE ReadActioned(r)
      <3>1. CASE kind[r] = "regenerate"
        <4>1. Answer(r, "failed") /\ pc[r] = "new" /\ UNCHANGED <<calls, inquiry, mails, decision>>
          BY <2>1, <3>1 DEF ReadActioned, Called, shared
        <4>2. QED  BY <3>1, <4>1, Quiet DEF Response, Deciding, Replies
      <3>2. CASE kind[r] # "regenerate"
        <4>1. /\ Answer(r, "conflict") /\ pc[r] = "new" /\ Actioned(target[r])
              /\ UNCHANGED <<calls, inquiry, mails, decision>>
          BY <2>1, <3>2 DEF ReadActioned, Called, shared
        <4>2. Life!TurnAway(r)
          BY <4>1, LifeTurnAway DEF Undecided, Response
        <4>3. QED  BY <4>2 DEF Life!Next
      <3>3. QED  BY <3>1, <3>2
    <2>2. ASSUME NEW p \in Place \ {"rewrite"}, Goto(r, p), UNCHANGED response, pc[r] = "new",
                 UNCHANGED <<calls, inquiry, mails, decision>>
          PROVE  UNCHANGED Life!life
      BY <2>2, Quiet
    <2>3. ASSUME NEW t \in Text, ReadForReply(r, t) PROVE UNCHANGED Life!life
      BY <2>2, <2>3 DEF ReadForReply, Called, shared, Place
    <2>4. CASE ReadUnguarded(r) \/ ScheduleRetry(r)
      BY <2>2, <2>4 DEF ReadUnguarded, ScheduleRetry, Called, Step, shared, Place
    <2>5. CASE ReadForRewrite(r)
      <3>1. CASE kind[r] = "bind"
        BY <2>2, <2>5, <3>1 DEF ReadForRewrite, Called, shared, Place
      <3>2. CASE kind[r] # "bind"
        <4>1. Life!Compose(r)
          BY <2>5, <3>2, LifeCompose DEF ReadForRewrite, shared
        <4>2. QED  BY <4>1 DEF Life!Next
      <3>3. QED  BY <3>1, <3>2
    <2>6. QED  BY <1>1, <2>1, <2>3, <2>4, <2>5 DEF Reads
  <1>2. ASSUME NEW r \in Request, NEW p \in Place \ {"rewrite"}, Goto(r, p), UNCHANGED response,
               pc[r] \notin {"rewrite", "done", "crashed"}, UNCHANGED <<calls, inquiry, mails, decision>>
        PROVE  UNCHANGED Life!life
    BY <1>2, Quiet
  <1>3. ASSUME NEW r \in Request, NEW a \in Response, Answer(r, a), kind[r] \notin Deciding, a # "conflict",
               pc[r] \notin {"rewrite", "done", "crashed"}, UNCHANGED <<calls, inquiry, mails, decision>>
        PROVE  UNCHANGED Life!life
    BY <1>3, Quiet DEF Deciding
  <1>4. ASSUME NEW r \in Request, Answer(r, "failed"),
               pc[r] \notin {"rewrite", "done", "crashed"}, UNCHANGED <<calls, inquiry, mails, decision>>
        PROVE  UNCHANGED Life!life
    BY <1>4, Quiet DEF Response
  <1>5. ASSUME NEW r \in Request, SendDelivered(r) \/ SendFailed(r)
        PROVE  Life!Next \/ UNCHANGED Life!life
    <2>1. reply[r] \in Text /\ pc[r] = "send" /\ UNCHANGED <<calls, inquiry, decision>>
      BY <1>5 DEF SendDelivered, SendFailed, Typed, HoldsOK
    <2>2. CASE mails' = mails \cup {MailOf(r)}
      <3>1. Life!Send(r, reply[r])
        BY <1>5, <2>1, <2>2, LifeSend DEF SendDelivered, SendFailed
      <3>2. QED  BY <2>1, <3>1 DEF Life!Next
    <2>3. CASE SendFailed(r) /\ mails' = mails
      BY <1>4, <2>1, <2>3 DEF SendFailed
    <2>4. QED  BY <1>5, <2>2, <2>3 DEF SendDelivered, SendFailed
  <1>6. ASSUME NEW r \in Request, Persist(r) PROVE Life!Next
    BY <1>6, LifeDecide DEF Life!Next
  <1>7. ASSUME NEW r \in Request, PersistConflict(r) PROVE Life!Next
    <2>1. Life!TurnAway(r)
      BY <1>7, LifeTurnAway DEF PersistConflict, Undecided, Response, shared
    <2>2. QED  BY <2>1 DEF Life!Next
  <1>8. ASSUME NEW r \in Request, Publish(r) \/ Raise(r) PROVE UNCHANGED Life!life
    <2>1. CASE Publish(r) /\ kind[r] \in {"bind", "regenerate"}
      BY <1>3, <2>1 DEF Publish, shared, Response, Deciding, Replies
    <2>2. CASE Publish(r) /\ kind[r] \notin {"bind", "regenerate"}
      BY <1>2, <2>2 DEF Publish, Step, shared, Place
    <2>3. CASE Raise(r)
      BY <1>4, <2>3 DEF Raise, shared
    <2>4. QED  BY <1>8, <2>1, <2>2, <2>3
  <1>9. ASSUME NEW r \in Request, SyncCompute(r) \/ (\E b \in BOOLEAN : ResolveGaps(r, b))
        PROVE  UNCHANGED Life!life
    BY <1>2, <1>9 DEF SyncCompute, ResolveGaps, shared, Place
  <1>10. ASSUME NEW r \in Request, AfterSync(r), pc[r] \in {"sync", "sync_write"},
                UNCHANGED <<calls, inquiry, mails, decision>>
         PROVE  Life!Next \/ UNCHANGED Life!life
    <2>1. CASE kind[r] = "reject"
      <3>1. Life!Confirm(r)
        BY <1>10, <2>1, LifeConfirm DEF AfterSync, PastOutcome, Deciding
      <3>2. QED  BY <3>1 DEF Life!Next
    <2>2. CASE kind[r] # "reject"
      BY <1>2, <1>10, <2>2 DEF AfterSync, Step, Place
    <2>3. QED  BY <2>1, <2>2
  <1>11. ASSUME NEW r \in Request, SyncWrite(r) \/ SyncSkipped(r)
         PROVE  Life!Next \/ UNCHANGED Life!life
    <2>1. CASE SyncWrite(r)
      BY <1>10, <2>1 DEF SyncWrite
    <2>2. CASE SyncSkipped(r) /\ pc[r] = "sync" /\ kind[r] = "assign"
      BY <1>3, <2>2 DEF SyncSkipped, shared, Response, Deciding, Replies
    <2>3. CASE SyncSkipped(r) /\ ~(pc[r] = "sync" /\ kind[r] = "assign")
      BY <1>10, <2>3 DEF SyncSkipped, shared
    <2>4. QED  BY <1>11, <2>1, <2>2, <2>3
  <1>12. ASSUME NEW r \in Request, (\E o \in Operator \cup {NoOperator} : Assign(r, o)) \/ AssignFailed(r)
         PROVE  UNCHANGED Life!life
    <2>1. kind[r] \notin Deciding
      BY <1>12 DEF Assign, AssignFailed, Typed, PlaceOK, Deciding, Replies
    <2>2. QED
      BY <1>3, <1>12, <2>1 DEF Assign, AssignFailed, shared, Response
  <1>13. ASSUME NEW r \in Request, Learn(r) \/ LearnFailed(r)
         PROVE  Life!Next \/ UNCHANGED Life!life
    <2>1. /\ pc[r] = "learn" /\ kind[r] \in Deciding /\ AfterLearning(r)
          /\ UNCHANGED <<calls, inquiry, mails, decision>>
      BY <1>13 DEF Learn, LearnFailed, shared, Typed, PlaceOK
    <2>2. CASE kind[r] = "reject"
      BY <1>2, <2>1, <2>2 DEF AfterLearning, Step, Place
    <2>3. CASE kind[r] # "reject"
      <3>1. Life!Confirm(r)
        BY <2>1, <2>3, LifeConfirm DEF AfterLearning, PastOutcome
      <3>2. QED  BY <3>1 DEF Life!Next
    <2>4. QED  BY <2>2, <2>3
  <1>14. ASSUME NEW r \in Request, NEW p \in Property, Bind(r, p) PROVE UNCHANGED Life!life
    <2>1. UNCHANGED <<Statuses, Finals, Sent, target, decision>>
      <3>1. inquiry' = [inquiry EXCEPT ![target[r]].property = p] /\ inquiry \in [Draft -> Inquiry]
        BY <1>14 DEF Bind, Typed, TypeOK
      <3>2. \A d \in Draft : inquiry'[d].status = inquiry[d].status /\ inquiry'[d].final = inquiry[d].final
        BY <3>1 DEF Inquiry
      <3>3. QED  BY <1>14, <3>2 DEF Bind, Statuses, Finals, Sent, calls
    <2>2. UNCHANGED <<Composing, Confirmed, Beaten>>
      BY <1>14, MovedTo, Silent DEF Bind, Step, Place, Composing
    <2>3. QED  BY <2>1, <2>2 DEF Life!life
  <1>15. ASSUME NEW r \in Request, BindUnknownProperty(r) PROVE UNCHANGED Life!life
    BY <1>3, <1>15 DEF BindUnknownProperty, shared, Response, Typed, PlaceOK, Deciding, Replies
  <1>16. ASSUME NEW r \in Request, Reread(r) PROVE Life!Next
    <2>1. Life!Compose(r)
      BY <1>16, LifeCompose DEF Reread, shared
    <2>2. QED  BY <2>1 DEF Life!Next
  <1>17. ASSUME NEW r \in Request, RereadActioned(r) PROVE UNCHANGED Life!life
    <2>1. CASE kind[r] = "bind"
      BY <1>2, <1>17, <2>1 DEF RereadActioned, AfterFailedRetry, Step, shared, Place
    <2>2. CASE kind[r] # "bind"
      BY <1>4, <1>17, <2>2 DEF RereadActioned, AfterFailedRetry, shared
    <2>3. QED  BY <2>1, <2>2
  <1>18. ASSUME NEW r \in Request, NEW t \in Text, NEW p \in Property \cup {NoProperty}, Rewrite(r, t, p)
         PROVE  Life!Next
    BY <1>18, LifeSubmit DEF Life!Next
  <1>19. ASSUME NEW r \in Request,
                \/ \E t \in Text, p \in Property \cup {NoProperty} : RewriteLost(r, t, p)
                \/ RewriteRaised(r) \/ (Crash(r) /\ pc[r] = "rewrite")
         PROVE  Life!Next
    <2>1. Life!GiveUp(r)
      BY <1>19, LifeGiveUp DEF RewriteLost, RewriteRaised
    <2>2. QED  BY <2>1 DEF Life!Next
  <1>20. ASSUME NEW r \in Request, Crash(r), pc[r] # "rewrite" PROVE UNCHANGED Life!life
    BY <1>2, <1>20 DEF Crash, Leave, NotRunning, shared, Place
  <1>21. ASSUME Poll \/ UNCHANGED vars PROVE UNCHANGED Life!life
    <2>1. UNCHANGED <<inquiry, mails, pc, kind, target, response, decision>>
      BY <1>21 DEF Poll, PageMoves, RefreshCompute, RefreshWrite, RefreshFailed, vars, calls, shared
    <2>2. QED
      BY <2>1 DEF Statuses, Finals, Sent, Composing, Confirmed, Beaten, TurnedAway, Life!life
  <1>22. QED
    BY <1>1, <1>5, <1>6, <1>7, <1>8, <1>9, <1>11, <1>12, <1>13, <1>14, <1>15, <1>16, <1>17, <1>18,
       <1>19, <1>20, <1>21 DEF Next, Continues

(* The review implements InquiryLife: an inquiry is decided as if in one   *)
(* step, after its mail and before its answer, by one of any number of     *)
(* overlapping calls.                                                      *)
THEOREM ImplementsLifeHolds == Spec => ImplementsLife
  <1>1. Init => Unanswered
    BY DEF Init, Unanswered
  <1>2. Inv /\ Unanswered /\ [Next]_vars => Unanswered'
    BY UnansweredStep DEF Inv
  <1>3. QED
    BY LifeInit, LifeStep, Invariance, <1>1, <1>2, PTL DEF Spec, ImplementsLife, Life!Spec
=============================================================================
