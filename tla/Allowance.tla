------------------------------ MODULE Allowance ------------------------------
(***************************************************************************)
(* What the goal scheduler promises the user who sets maxAutonomousRuns:   *)
(* between two explicit renewals at most Limit autonomous runs start, each *)
(* paid for before it starts, and a run that was paid for under an earlier *)
(* allowance does not start under the next one.                            *)
(***************************************************************************)
EXTENDS Naturals

CONSTANT Limit      \* maxAutonomousRuns

VARIABLES
    paid,           \* runs charged since the last renewal
    started         \* autonomous runs started since the last renewal

vars == <<paid, started>>

Init == paid = 0 /\ started = 0

\* A checkpoint is authorised; its run may still never start.
Pay == paid < Limit /\ paid' = paid + 1 /\ UNCHANGED started

\* A checkpoint that was paid for starts its run.
Start == started < paid /\ started' = started + 1 /\ UNCHANGED paid

\* The user resumes the goal.
Renew == paid' = 0 /\ started' = 0

Next == Pay \/ Start \/ Renew

Spec == Init /\ [][Next]_vars
=============================================================================
