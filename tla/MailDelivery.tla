---------------------------- MODULE MailDelivery ----------------------------
(***************************************************************************)
(* What the push path promises about each mail of a watched mailbox, with  *)
(* nothing of cursors, requests, windows, tasks or workers.  MailboxPush   *)
(* is shown to implement it.                                               *)
(*                                                                         *)
(* A mail is owed a poll once a window with it is on its way.  It stays so *)
(* until it is polled or given up, and a mail that was given up can still  *)
(* be polled by another listing.  An announcement is only discharged       *)
(* against a mail that is owed a poll, was given up, or was polled.        *)
(***************************************************************************)
CONSTANT Mail

VARIABLES
    announced,      \* mails that are announced and not acknowledged
    standing        \* of a mail: none, owed, missed or polled

delivery == <<announced, standing>>
-----------------------------------------------------------------------------
Init ==
    /\ announced = {}
    /\ standing = [m \in Mail |-> "none"]

Become(S, to) == standing' = [m \in Mail |-> IF m \in S THEN to ELSE standing[m]]

Announce(m) ==
    /\ announced' = announced \cup {m}
    /\ UNCHANGED standing

Acknowledge(m) ==
    /\ m \in announced
    /\ standing[m] # "none"
    /\ announced' = announced \ {m}
    /\ UNCHANGED standing

Owe(S) ==
    /\ \A m \in S : standing[m] = "none"
    /\ Become(S, "owed")
    /\ UNCHANGED announced

(* Given up, or never in any window. *)
Miss(S) ==
    /\ \A m \in S : standing[m] \in {"none", "owed"}
    /\ Become(S, "missed")
    /\ UNCHANGED announced

Poll(m) ==
    /\ Become({m}, "polled")
    /\ UNCHANGED announced

Next ==
    \/ \E m \in Mail : Announce(m) \/ Acknowledge(m) \/ Poll(m)
    \/ \E S \in SUBSET Mail : Owe(S) \/ Miss(S)

Spec == Init /\ [][Next]_delivery
=============================================================================
