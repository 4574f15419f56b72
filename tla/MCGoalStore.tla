---------------------------- MODULE MCGoalStore ----------------------------
(* Two sessions on one goal, whose turns, tools and commands change it.     *)
EXTENDS GoalStore

CONSTANTS s1, s2, g1, e1, e2

Shared == {[handlers |-> {"turn", "tool", "command", "toolEnd"}, edits |-> {e1, e2},
            focus |-> [s \in {s1, s2} |-> g1], tokens |-> 1, crashes |-> 0, revs |-> 4]}
=============================================================================
