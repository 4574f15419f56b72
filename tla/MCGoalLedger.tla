---------------------------- MODULE MCGoalLedger ----------------------------
(* A session that appends before it reads the index: one that starts with  *)
(* no goal in focus.                                                        *)
EXTENDS GoalLedger

CONSTANTS g1

Created == [type |-> "goal_created", goal |-> g1, audit |-> 0, size |-> 1]
Failed == [type |-> "oracle_failed", goal |-> g1, audit |-> 0, size |-> 1]
Unread1 == {[blocks |-> {<<Created>>, <<Failed>>}, lines |-> 3, readsFirst |-> FALSE]}
=============================================================================
