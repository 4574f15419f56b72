-------------------------- MODULE MCGoalScheduler --------------------------
(* Small instances of GoalScheduler. *)
EXTENDS GoalScheduler, TLC
CONSTANTS s1, s2
=============================================================================
