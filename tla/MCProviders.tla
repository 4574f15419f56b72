----------------------------- MODULE MCProviders -----------------------------
(* What may never happen in the two providers that share what outlives a     *)
(* request: the Claude CLI processes of a session, in every scenario, and the *)
(* account file of the Codex pool, between two processes.  A behaviour is one *)
(* of one of them, chosen at the start; the other stays as it began.          *)
EXTENDS MCCliProcess, CodexPool, TLC

CONSTANTS i1, p1, p2, s1, s2, r1, r2, a1

VARIABLE which

\* The pool: a request in each of two processes and a command beside the second;
\* one account, linked or not, and two credentials of it.
TwoProcs == [c \in Clients |-> IF c = r1 THEN p1 ELSE p2]
OwnSession == [r \in Requests |-> IF r = r1 THEN s1 ELSE s2]
Linked1 ==
  [acct |-> i1 :> [tok |-> 1, rank |-> 1, cooldown |-> 0, needsLogin |-> FALSE],
   preferred |-> i1]
Fresh1 == INSTANCE CodexPool WITH InitStore <- NoStore

ProvidersInit ==
  \/ which = "turn" /\ InitCli /\ Init
  \/ which = "pool" /\ InitCli /\ conf = Handoff /\ (Init \/ Fresh1!Init)

ProvidersNext ==
  \/ which = "turn" /\ NextCli /\ UNCHANGED <<which, vars>>
  \/ which = "pool" /\ Next /\ UNCHANGED <<which, cliVars>>

ProvidersSpec == ProvidersInit /\ [][ProvidersNext]_<<which, vars, cliVars>>
=============================================================================
