--------------------------- MODULE MCStayActions ---------------------------
(* An instance of StayActions with two calls.  They are interchangeable,   *)
(* so fixing what one of them is loses only the pairs without an execution.*)
EXTENDS StayActions, TLC

CONSTANTS c1, c2

(* An execution, which ends with a synchronisation, and any other call.    *)
ExecuteAndAny == c1 :> {"execute"} @@ c2 :> {"view", "execute", "touch", "mail"}

(* Everything, nothing, or what a departure calls for.                     *)
Departure == {{}, Action, {"proactive_outreach", "turnover_coordination"}}
=============================================================================
