-------------------------- MODULE MCScopedKnowledge -------------------------
(* Instances of ScopedKnowledge with two questions.                        *)
EXTENDS ScopedKnowledge

CONSTANTS q1, q2

(* One that the base has already, one held twice, and both.                *)
OneTwiceOrBoth ==
    {[slots |-> {q1}, twice |-> {}], [slots |-> {q2}, twice |-> {q2}],
     [slots |-> {q1, q2}, twice |-> {}]}
=============================================================================
