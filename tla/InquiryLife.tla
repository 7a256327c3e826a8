----------------------------- MODULE InquiryLife -----------------------------
(***************************************************************************)
(* What the operator review of a pre-booking inquiry promises, with one    *)
(* step per promise: nothing of handlers, transactions, read models or     *)
(* retries.  PreBookingReview is shown to implement it.                    *)
(*                                                                         *)
(* An inquiry is pending until one caller decides it.  It is decided in    *)
(* one step, a reply only with a text that its guest has been sent.  A     *)
(* decision stands, except against a caller that began to compose a new    *)
(* draft before it was made.  A caller is told that its decision is on     *)
(* record, or that somebody else's is, only when that is so.               *)
(***************************************************************************)
CONSTANTS Draft, Caller, Reply, NoReply

VARIABLES
    status,         \* of an inquiry: pending_review, replied or rejected
    reply,          \* the text it is marked with
    sent,           \* what reached a guest, as pairs of a draft and a text
    about,          \* the draft a caller is concerned with
    outcome,        \* the decision a caller made
    composing,      \* callers composing a new draft
    confirmed,      \* callers told that their decision is on record
    beaten          \* callers told that another decision is

life == <<status, reply, sent, about, outcome, composing, confirmed, beaten>>
-----------------------------------------------------------------------------
Pending(d) == status[d] = "pending_review"

Init ==
    /\ status = [d \in Draft |-> "pending_review"]
    /\ reply = [d \in Draft |-> NoReply]
    /\ sent = {}
    /\ about \in [Caller -> Draft]
    /\ outcome = [c \in Caller |-> "none"]
    /\ composing = {}
    /\ confirmed = {}
    /\ beaten = {}

(* A text reaches a guest; whoever sent it may never learn that it did. *)
Send(c, t) ==
    /\ sent' = sent \cup {<<about[c], t>>}
    /\ UNCHANGED <<status, reply, about, outcome, composing, confirmed, beaten>>

(* A caller decides a pending inquiry, and only once. *)
Decide(c, o) ==
    /\ Pending(about[c])
    /\ outcome[c] = "none"
    /\ outcome' = [outcome EXCEPT ![c] = o]
    /\ status' = [status EXCEPT ![about[c]] = o]
    /\ UNCHANGED <<sent, about, composing, confirmed, beaten>>

Replies(c, t) ==
    /\ <<about[c], t>> \in sent
    /\ Decide(c, "replied")
    /\ reply' = [reply EXCEPT ![about[c]] = t]

Rejects(c) ==
    /\ Decide(c, "rejected")
    /\ UNCHANGED reply

(* A caller turns to composing a new draft of a pending inquiry, *)
Compose(c) ==
    /\ Pending(about[c])
    /\ composing' = composing \cup {c}
    /\ UNCHANGED <<status, reply, sent, about, outcome, confirmed, beaten>>

(* and submits it: the inquiry is pending again, whatever was decided in   *)
(* the meantime,                                                           *)
Submit(c) ==
    /\ c \in composing
    /\ composing' = composing \ {c}
    /\ status' = [status EXCEPT ![about[c]] = "pending_review"]
    /\ UNCHANGED <<reply, sent, about, outcome, confirmed, beaten>>

(* or gives it up. *)
GiveUp(c) ==
    /\ c \in composing
    /\ composing' = composing \ {c}
    /\ UNCHANGED <<status, reply, sent, about, outcome, confirmed, beaten>>

(* The caller's own decision is on record. *)
Confirm(c) ==
    /\ outcome[c] # "none"
    /\ confirmed' = confirmed \cup {c}
    /\ UNCHANGED <<status, reply, sent, about, outcome, composing, beaten>>

(* The caller made none, and another decided the same inquiry. *)
TurnAway(c) ==
    /\ outcome[c] = "none"
    /\ \E w \in Caller \ {c} : about[w] = about[c] /\ outcome[w] # "none"
    /\ beaten' = beaten \cup {c}
    /\ UNCHANGED <<status, reply, sent, about, outcome, composing, confirmed>>

Next ==
    \E c \in Caller :
        \/ \E t \in Reply : Send(c, t) \/ Replies(c, t)
        \/ Rejects(c)
        \/ Compose(c) \/ Submit(c) \/ GiveUp(c)
        \/ Confirm(c) \/ TurnAway(c)

Spec == Init /\ [][Next]_life
=============================================================================
