---------------------------- MODULE MCCliProcess ----------------------------
(* Instances of CliProcess: each scenario is one setting of the provider    *)
(* and of what the CLI and pi may do, small enough to be explored whole.    *)
EXTENDS CliProcess

\* Proxied handoffs under pi's context, nothing going wrong.
Plain == [piOwned |-> TRUE, allowHandoff |-> TRUE, idTags |-> TRUE,
          hooks |-> FALSE, ownTurns |-> {}, agents |-> FALSE,
          session |-> {}, aborts |-> {}, bufferLimit |-> 2, maxEmpty |-> 1,
          maxAgentCycles |-> 1, procs |-> 2, tools |-> 1, calls |-> 2]

\* Two tool blocks in a message, and users who type while tools run.
Handoff == [Plain EXCEPT !.session = {"steer"}, !.bufferLimit = 3,
                         !.tools = 2, !.calls = 3]
\* An older CLI, whose calls name no tool_use block.
Untagged == [Handoff EXCEPT !.idTags = FALSE, !.bufferLimit = 2]
\* No broker, the CLI's own context: interrupt, --resume, and lost sessions.
Legacy == [Plain EXCEPT !.piOwned = FALSE, !.allowHandoff = FALSE,
                        !.session = {"crash"}, !.procs = 3]
\* A resumed CLI with a queue of its own.
Queue == [Legacy EXCEPT !.session = {}, !.ownTurns = {"queue"}, !.tools = 0]

\* Aborts in every phase of a call, beside retirement and changed arguments; with
\* crashes where the CLI calls no tools; and crashes with tools and hooks.
Failures == [Plain EXCEPT
    !.session = {"retireAll", "change", "think"},
    !.aborts = {"start", "think", "retire", "open"},
    !.bufferLimit = 3]
Crashes == [Failures EXCEPT !.session = @ \cup {"crash"}, !.tools = 0]
Settled == [Crashes EXCEPT !.hooks = TRUE, !.aborts = {}, !.tools = 1]

\* Unprompted turns of the CLI in its own context, beside calls for pi, or
\* beside aborts.
Tasks == [Plain EXCEPT !.piOwned = FALSE, !.ownTurns = {"task"}]
Stopped == [Tasks EXCEPT !.aborts = {"open"}, !.tools = 0]
\* A hook settles tools of the CLI while its call is handed to pi, and the next
\* message names the second block while no call is attached.
Hooked == [Plain EXCEPT !.hooks = TRUE, !.tools = 2, !.bufferLimit = 3]
\* Background sub-agents that report after the result, or never.
Fanout == [Plain EXCEPT !.piOwned = FALSE, !.agents = TRUE, !.tools = 0]

\* An abort under the CLI's own context.
Aborted == [Plain EXCEPT !.piOwned = FALSE, !.allowHandoff = FALSE,
                         !.aborts = {"open"}]
\* An abort while the parked process is asked to change its thinking.
AbortedEarly == [Aborted EXCEPT !.session = {"think"}, !.aborts = {"think"},
                                !.procs = 3]
\* An unprompted turn while the process is parked.
TakesTurns == [Aborted EXCEPT !.aborts = {}, !.ownTurns = {"task"},
                              !.tools = 0, !.procs = 3]

All    == {Handoff, Untagged, Legacy, Queue, Failures, Crashes, Settled, Tasks, Stopped,
           Hooked, Fanout}
Wedged == {Aborted}
Early  == {AbortedEarly}
Stolen == {TakesTurns}

----------------------------------------------------------------------------
(* The properties, in the groups that the runs check.                       *)

\* Nothing is held by nobody: the parked process lives and will be retired,
\* at most one call is attached to the process it was opened on, and every
\* other process is retired (parkCliProcess, releaseProcess, attach, detach).
WellFormed == CliTypeOK /\ ParkedHealthy /\ SinkIsCurrent /\ NoOrphan

\* In a live turn the call for a block that the CLI named is refused in one case
\* only: no pi call has seen the block, for its line waits in the buffer of the
\* parked process (onHandoffCall, handleLine).  And a call is ended by the result
\* of its own prompt, unless the process took a turn that nobody prompted
\* (sink.onMessage); the run cli_stolen shows what that does.
Unseen(t) == \E i \in DOMAIN cli[tool[t].p].buf : cli[tool[t].p].buf[i] = L("tool", t)
TookTurn == "task" \in conf.ownTurns /\ \E p \in Procs : p = call.p /\ os[p].own
ServedInTurn ==
    [][/\ \A t \in Tools : Refuses(t) => Unseen(t)
       /\ (OwnResult \/ TookTurn)']_cliVars
=============================================================================
