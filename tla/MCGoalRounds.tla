---------------------------- MODULE MCGoalRounds ----------------------------
(***************************************************************************)
(* The instance of GoalRounds that TLC checks: one human message, goals of *)
(* one or two rounds, and two mutations by users or tools.                 *)
(***************************************************************************)
EXTENDS GoalRounds
=============================================================================
