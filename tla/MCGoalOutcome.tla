---------------------------- MODULE MCGoalOutcome ----------------------------
(* A goal whose agent asks the oracle, and a user who does nothing.        *)
EXTENDS GoalOutcome

Asking == {[oracle |-> TRUE, failures |-> 1, disabled |-> FALSE, appends |-> {TRUE}, audits |-> 0,
            acts |-> 0]}
=============================================================================
