----------------------------- MODULE MCRequests -----------------------------
(* What every request and every call must come to, under the fairness of    *)
(* the event loop: the fail-over of the Codex pool, and the turns of a CLI  *)
(* process.  A behaviour is one of one of them, chosen at the start; the    *)
(* variables of the pool stay as they were in one of the other, and those   *)
(* of the other None in one of the pool.                                    *)
EXTENDS CodexPool, TLC

CONSTANTS i1, i2, p1, s1, r1, a1, MaxProcs, MaxTools, MaxCalls

VARIABLES which, conf, cli, os, tool, call, parked, map, stray, wants

turnVars == <<conf, cli, os, tool, call, parked, map, stray, wants>>
allVars == <<which, vars, turnVars>>

(* One request over two accounts, beside a command: the first is            *)
(* preferred.                                                               *)
Link(rank) == [tok |-> 1, rank |-> rank, cooldown |-> 0, needsLogin |-> FALSE]
Linked12 == [acct |-> i1 :> Link(1) @@ i2 :> Link(2), preferred |-> i1]

OneProc == [c \in {r1, a1} |-> p1]
OneSession == [r \in {r1} |-> s1]

(* Proxied handoffs whose process may be retired, change its thinking, and  *)
(* be aborted in every phase of a call.                                     *)
Fair == [piOwned |-> TRUE, allowHandoff |-> TRUE, idTags |-> TRUE, hooks |-> FALSE,
         ownTurns |-> {}, agents |-> FALSE, session |-> {"retireAll", "think"},
         aborts |-> {"open", "think", "retire"}, bufferLimit |-> 2, maxEmpty |-> 1,
         maxAgentCycles |-> 1, procs |-> 2, tools |-> 1, calls |-> 2]

Scenarios == {Fair}
Turn == INSTANCE CliProcess

----------------------------------------------------------------------------
RequestsInit ==
  /\ which \in {"pool", "turn"}
  /\ Init
  /\ IF which = "turn" THEN Turn!InitCli
     ELSE /\ conf = None /\ cli = None /\ os = None /\ tool = None /\ call = None
          /\ parked = None /\ map = None /\ stray = None /\ wants = None

OfPool == which = "pool" /\ UNCHANGED <<which, turnVars>>
OfTurn == which = "turn" /\ UNCHANGED <<which, vars>>

RequestsNext ==
  \/ OfPool /\ Next
  \/ OfTurn /\ Turn!NextCli

\* The fairness of the two modules.
RequestsFairness ==
  /\ WF_allVars(OfPool /\ Request(r1))
  /\ WF_allVars(OfPool /\ Command(a1))
  /\ WF_allVars(OfTurn /\ Turn!EventLoop)

RequestsSpec == RequestsInit /\ [][RequestsNext]_allVars /\ RequestsFairness

----------------------------------------------------------------------------
(* The properties beside those of CodexPool.                                *)

\* A request of the pool ends, or dies with its process (codex-pool/stream.ts);
\* every call pi makes has its stream ended (claude-cli/src/provider.ts).
Requested == IF which = "pool" THEN pc[r1] # "idle"
             ELSE call.ph \in {"start", "think", "retire", "open"}
Ended == IF which = "pool" THEN pc[r1] \in {"done", "dead"} ELSE Turn!Called("none")
RequestsEnd == Requested ~> Ended

\* So does a command, which waits for the lock (codex-pool/store.ts); every
\* tools/call that reaches the broker is answered (claude-cli/src/provider.ts).
Asked == IF which = "pool" THEN pc[a1] # "idle" ELSE tool[1].at = "sent"
Answered == IF which = "pool" THEN pc[a1] \in {"done", "dead"} ELSE tool[1].at = "done"
AnswersCome == Asked ~> Answered
=============================================================================
