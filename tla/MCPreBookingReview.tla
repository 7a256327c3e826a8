------------------------- MODULE MCPreBookingReview -------------------------
(* Instances of PreBookingReview with two requests.                        *)
EXTENDS PreBookingReview, TLC

CONSTANTS r1, r2

(* Any two handlers.  The requests are alike, so a pair is taken in one of *)
(* its two orders.                                                         *)
InOrder == <<"approve", "edit", "reject", "bind", "regenerate", "kb_retry", "assign">>
AnyTwo == UNION {{(r1 :> InOrder[i]) @@ (r2 :> InOrder[j]) : j \in i .. 7} : i \in 1 .. 7}

RejectAndRetry == {(r1 :> "reject") @@ (r2 :> "kb_retry")}
=============================================================================
