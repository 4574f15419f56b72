-------------------------- MODULE MCAdvisorConfig ---------------------------
(* The smallest instance of the Advisor's settings: two processes with one  *)
(* file, of which one activates the flow with models that may lack a key.   *)
EXTENDS AdvisorConfig

CONSTANTS one, other, m1, m2

Two == {one, other}
Pair == {m1, m2}
WithoutKey == {m2}
SmallValues == Pair \cup {None} \cup BOOLEAN
NoSettings ==
  [executor |-> None, advisor |-> None, effort |-> None, other |-> None, jev |-> FALSE,
   tools |-> TRUE, alwaysOn |-> FALSE, logging |-> FALSE]
WithModels == [NoSettings EXCEPT !.executor = m1, !.advisor = m1]
Activations ==
  {[uses |-> {"activate", "select", "off"}, file |-> f, choices |-> {}, edits |-> {},
    breaks |-> 0, failures |-> 1, commands |-> 2] : f \in {NoSettings, WithModels}}
=============================================================================
