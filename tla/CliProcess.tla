----------------------------- MODULE CliProcess -----------------------------
(***************************************************************************)
(* The Claude CLI processes of one pi session: the process that outlives a *)
(* pi call (cli-process.ts), the calls that attach to it (provider.ts),    *)
(* the tool calls proxied through the handoff broker (handoff-broker.ts)   *)
(* and the session map a later process resumes from (session-map.ts).      *)
(*                                                                         *)
(* Node runs one callback at a time, so an action is one callback: a line  *)
(* of stdout, a timer, a broker request, or what a pi call does between    *)
(* two awaits.  A callback changes several objects in order; the operators *)
(* below take the world as a record, change it and return it, and the      *)
(* action assigns the result (Becomes).  The CLI itself is an environment  *)
(* that talks over stdin, stdout and the socket and may die at any time.   *)
(***************************************************************************)
EXTENDS Naturals, FiniteSets, Sequences

CONSTANTS
    Scenarios,                      \* the settings to be considered
    MaxProcs, MaxTools, MaxCalls    \* bounds: spawns, tool_use blocks, calls

Procs == 1 .. MaxProcs
Tools == 1 .. MaxTools
NoProc == 0
Own == 0            \* the turn of a prompt that is not pi's

Scenario == [
    piOwned : BOOLEAN,      \* usesPiContext(): pi owns the history, no --resume
    allowHandoff : BOOLEAN, \* custom tools go through the broker
    idTags : BOOLEAN,       \* the CLI tags tools/call with the tool_use id
    hooks : BOOLEAN,        \* the CLI may settle a tool itself (a hook)
    ownTurns : SUBSET {"queue", "task"},    \* turns nobody asked pi for
    agents : BOOLEAN,       \* the CLI may launch a background sub-agent
    session : SUBSET {"retireAll", "crash", "steer", "change", "think"},
                            \* what may happen in the session
    aborts : SUBSET {"start", "retire", "think", "open"},
                            \* phases in which pi may abort a call
    bufferLimit : Nat \ {0},        \* DETACHED_BUFFER_LIMIT
    maxEmpty : Nat,         \* MAX_EMPTY_CONTINUATIONS
    maxAgentCycles : Nat,   \* MAX_AGENT_CONTINUATIONS
    procs : Procs, tools : 0 .. MaxTools, calls : 1 .. MaxCalls]

ASSUME CliAssumption ==
    /\ MaxProcs \in Nat \ {0} /\ MaxTools \in Nat /\ MaxCalls \in Nat \ {0}
    /\ \A c \in Scenarios : c \in Scenario

VARIABLES
    conf,       \* the settings of this session, fixed
    cli,        \* the CliProcess objects
    os,         \* the CLI processes they stand for, with their pipes
    tool,       \* the tool_use blocks and their tools/call requests
    call,       \* the pi call in progress
    parked,     \* the process parked for the session
    map,        \* the CLI session recorded for the pi session, 0 for none
    stray,      \* timers of calls that have ended, by the process they kill
    wants       \* the tools pi is running for the call that just ended
cliVars == <<conf, cli, os, tool, call, parked, map, stray, wants>>

World == [cli |-> cli, os |-> os, tool |-> tool, call |-> call,
          parked |-> parked, map |-> map, stray |-> stray, wants |-> wants]
Becomes(next) ==
    \E w \in {next} :      \* evaluated once
        /\ conf' = conf
        /\ cli' = w.cli /\ os' = w.os /\ tool' = w.tool /\ call' = w.call
        /\ parked' = w.parked /\ map' = w.map /\ stray' = w.stray
        /\ wants' = w.wants

Kinds   == {"tool", "stop", "ask", "task", "report", "result"}
Ends    == {"none", "ok", "empty", "error", "miss"}
Line    == [k : Kinds, t : 0 .. MaxTools, r : Ends, n : 0 .. MaxCalls]
L(k, t) == [k |-> k, t |-> t, r |-> "none", n |-> 0]
Result(r, n) == [k |-> "result", t |-> 0, r |-> r, n |-> n]

\* end: how far retire() has come.  agents: the task tracker's running ones.
\* asked: the call whose message the current or last turn answers.
\* session: the CLI session the process was started with.
Process == [alive : BOOLEAN, retired : BOOLEAN, turn : BOOLEAN, eof : BOOLEAN,
            sink : BOOLEAN, buf : Seq(Line), awaiting : SUBSET Tools,
            pending : SUBSET [id : Tools, from : Tools], ready : SUBSET Tools,
            idle : {"off", "turn", "handoff"},
            end : {"no", "grace", "kill", "done"}, agents : 0 .. 1,
            asked : 0 .. MaxCalls, session : 0 .. MaxProcs]
Unborn == [alive |-> FALSE, retired |-> FALSE, turn |-> FALSE, eof |-> FALSE,
           sink |-> FALSE, buf |-> <<>>, awaiting |-> {}, pending |-> {},
           ready |-> {}, idle |-> "off", end |-> "no", agents |-> 0,
           asked |-> 0, session |-> 0]

\* run: how the process is.  turn: the prompt it works on, inbox: those
\* queued behind it.  quit: stdin was ended.  backstop: the kill an abort set.
Running == {"none", "up", "exited", "crashed", "killed"}
Program == [run : Running, busy : BOOLEAN, turn : 0 .. MaxCalls,
            inbox : Seq(1 .. MaxCalls), intr : BOOLEAN, quit : BOOLEAN,
            backstop : BOOLEAN, own : BOOLEAN, resumed : BOOLEAN,
            agent : {"none", "runs", "over"}, out : Seq(Line)]
NoProgram == [run |-> "none", busy |-> FALSE, turn |-> 0, inbox |-> <<>>,
              intr |-> FALSE, quit |-> FALSE, backstop |-> FALSE,
              own |-> FALSE, resumed |-> FALSE, agent |-> "none",
              out |-> <<>>]

\* Where a tool_use block stands, and who answered its call with what.
Block == [p : 0 .. MaxProcs,
          at : {"new", "named", "asked", "may", "sent", "open", "done"},
          by : {"none", "self", "denied", "refused", "failed", "pi"},
          of : 0 .. MaxTools]
NoBlock == [p |-> 0, at |-> "new", by |-> "none", of |-> 0]

\* A pi call.  ended counts stream.end(), error says it ended with an error;
\* by is the prompt whose result ended the turn, its own until then.
Phases == {"none", "start", "think", "retire", "open", "lost"}
PiCall == [ph : Phases, n : 0 .. MaxCalls, results : SUBSET Tools,
           user : BOOLEAN, p : 0 .. MaxProcs, force : BOOLEAN,
           mode : {"spawn", "turn", "handoff"}, saw : BOOLEAN,
           tools : SUBSET Tools, selfInt : BOOLEAN, aborted : BOOLEAN,
           toolUse : BOOLEAN,
           finished : BOOLEAN, miss : BOOLEAN, timer : BOOLEAN,
           waiting : BOOLEAN, empties : Nat, cycles : Nat, ended : Nat,
           error : BOOLEAN, by : 0 .. MaxCalls]
NoCall == [ph |-> "none", n |-> 0, results |-> {}, user |-> FALSE,
           p |-> 0, force |-> FALSE, mode |-> "spawn", saw |-> FALSE,
           tools |-> {}, selfInt |-> FALSE, aborted |-> FALSE,
           toolUse |-> FALSE,
           finished |-> FALSE, miss |-> FALSE, timer |-> FALSE,
           waiting |-> FALSE, empties |-> 0, cycles |-> 0, ended |-> 0,
           error |-> FALSE, by |-> 0]

InitCli ==
    /\ conf \in Scenarios
    /\ cli = [p \in Procs |-> Unborn]
    /\ os = [p \in Procs |-> NoProgram]
    /\ tool = [t \in Tools |-> NoBlock]
    /\ call = NoCall
    /\ parked = NoProc
    /\ map = 0
    /\ stray = {}
    /\ wants = {}

-----------------------------------------------------------------------------
(* What the callbacks do to the process.                                    *)

\* The open calls in C get an answer each; their sockets take only one.
Answer(w, C, by) ==
    [w EXCEPT !.tool = [t \in Tools |->
        IF @[t].at # "done" /\ \E c \in C : c.from = t
        THEN [@[t] EXCEPT
                !.at = "done", !.by = by,
                !.of = IF by = "pi" THEN (CHOOSE c \in C : c.from = t).id
                       ELSE 0]
        ELSE @[t]]]

FailPending(w, p) ==
    [Answer(w, w.cli[p].pending, "failed") EXCEPT
        !.cli[p].pending = {}, !.cli[p].awaiting = {}, !.cli[p].ready = {}]

Interrupt(w, p) ==
    IF w.os[p].run = "up" THEN [w EXCEPT !.os[p].intr = TRUE] ELSE w

ForceKill(w, p) ==
    IF w.os[p].run = "up" THEN [w EXCEPT !.os[p].run = "killed"] ELSE w

\* retire(): the calls it holds fail, a live turn is interrupted before stdin
\* ends, and the timers that follow kill what does not exit.
Retire(w, p) ==
    LET c == w.cli[p]
        v == [FailPending(w, p) EXCEPT !.cli[p].retired = TRUE,
                                       !.cli[p].idle = "off"]
    IN  IF c.retired THEN w
        ELSE IF ~c.alive THEN [v EXCEPT !.cli[p].end = "done"]
        ELSE IF c.turn /\ ~c.eof
             THEN [Interrupt(v, p) EXCEPT !.cli[p].end = "grace"]
        ELSE [v EXCEPT !.os[p].quit = TRUE, !.cli[p].end = "kill"]

\* Mutant: parked without a timer.
ParkForever(w, p, idle) == [w EXCEPT !.parked = p, !.cli[p].idle = "off"]
\* parkCliProcess(): into the pool, with a timer that retires it.
Park(w, p, idle) ==
    LET v == IF w.parked \notin {NoProc, p} THEN Retire(w, w.parked) ELSE w
    IN  [v EXCEPT !.parked = p, !.cli[p].idle = idle]

\* Mutant: the process is let go of and kept nowhere.
ReleaseNowhere(w, idle) == w
Release(w, idle) ==
    LET p == w.call.p
    IN  IF ~w.cli[p].alive \/ w.cli[p].retired THEN w ELSE Park(w, p, idle)

WriteUser(w, p) ==
    [w EXCEPT !.cli[p].turn = TRUE, !.cli[p].asked = w.call.n,
              !.os[p].inbox = IF w.os[p].run = "up" /\ ~w.os[p].quit
                              THEN Append(@, w.call.n) ELSE @]

\* Mutant: the finished episode stays attached.
FinishAttached(w) == [w EXCEPT !.call.finished = TRUE, !.call.timer = FALSE]
\* finishEpisode(): the call lets go of the process.  What follows the await
\* of finishedPromise runs in the same callback, in Settle.
Finish(w) ==
    IF w.call.finished THEN w
    ELSE [w EXCEPT !.call.finished = TRUE, !.call.timer = FALSE,
                   !.cli[w.call.p].sink = FALSE]

EndWithError(w) ==
    IF w.call.ended > 0 \/ w.call.miss THEN w
    ELSE Finish(Retire([w EXCEPT !.call.ended = @ + 1, !.call.error = TRUE],
                       w.call.p))

\* Mutant: done is pushed after an error, too.
PushDone(n) == n + 1
\* done is pushed unless the stream was ended with an error.
EndedBy(n) == IF n = 0 THEN 1 ELSE n

\* The call returns; pi goes on with the tools of a message that ended with
\* toolUse.  A resume miss starts the second attempt instead.  A timer that is
\* armed once the episode is over stays armed.
Settle(w) ==
    LET c == w.call
        again == [NoCall EXCEPT !.ph = "start", !.n = c.n, !.force = TRUE,
                                !.results = c.results, !.user = c.user,
                                !.aborted = c.aborted, !.by = c.n]
    IN  IF c.ph # "open" \/ ~c.finished THEN w
        ELSE IF c.miss THEN [w EXCEPT !.call = again]
        ELSE [w EXCEPT
                !.call.ph = "none", !.call.timer = FALSE,
                !.call.ended = EndedBy(@),
                !.stray = IF c.timer
                          THEN @ \cup {[p |-> c.p, waits |-> c.waiting]}
                          ELSE @,
                !.wants = IF c.ended = 0 /\ c.toolUse /\ ~c.aborted
                          THEN c.tools ELSE {}]

-----------------------------------------------------------------------------
(* The sink of the call: what a line, or the end of stdout, does to it.     *)

\* Mutant: the pointer stays in the session map.
KeepMap(w) == w
ClearMap(w) == IF conf.piOwned THEN w ELSE [w EXCEPT !.map = 0]

OnStop(w) ==
    LET p == w.call.p
        v == [w EXCEPT !.call.toolUse = TRUE]
    IN  IF ~w.call.saw \/ w.call.selfInt THEN w
        ELSE IF conf.allowHandoff THEN Finish(Release(v, "handoff"))
        ELSE Interrupt([v EXCEPT !.call.selfInt = TRUE], p)

\* Mutant: every result ends the turn.
NoEmptyCycle(c, r) == FALSE
\* The CLI answered a prompt of its own: nothing was said, nothing spent.
EmptyCycle(c, r) ==
    /\ r = "empty" /\ c.tools = {}
    /\ ~c.selfInt /\ ~c.aborted
    /\ c.empties < conf.maxEmpty

OnResult(w, l) ==
    LET c == w.call
        p == c.p
        frozen == c.selfInt \/ c.aborted
        error == l.r \in {"error", "miss"}
        missed == [ClearMap(w) EXCEPT !.call.miss = TRUE]
        resume(v) == IF w.cli[p].alive /\ ~w.cli[p].retired
                     THEN [v EXCEPT !.cli[p].turn = TRUE] ELSE v
        over == [w EXCEPT !.call.by = l.n]
    IN  IF error /\ ~frozen THEN
            IF l.r = "miss" /\ w.os[p].resumed
            THEN Finish(Retire(missed, p))
            ELSE EndWithError(Retire(ClearMap(w), p))
        ELSE IF EmptyCycle(c, l.r)
             THEN resume([w EXCEPT !.call.empties = @ + 1])
        ELSE IF /\ ~error /\ ~frozen /\ c.cycles < conf.maxAgentCycles
                /\ w.cli[p].agents > 0
             THEN resume([w EXCEPT !.call.cycles = @ + 1,
                                   !.call.waiting = TRUE])
        ELSE IF c.selfInt /\ ~c.aborted THEN Finish(Retire(over, p))
        ELSE Finish(Release(over, "turn"))

OnMessage(w, l) ==
    LET v == [w EXCEPT !.call.timer = TRUE]
        p == w.call.p
    IN  IF w.call.miss \/ w.call.finished THEN w
        ELSE CASE l.k = "tool" ->
                    [v EXCEPT !.call.saw = TRUE,
                              !.call.tools = IF v.call.selfInt THEN @
                                             ELSE @ \cup {l.t},
                              !.cli[p].awaiting = @ \cup {l.t}]
               [] l.k = "stop" -> OnStop(v)
               [] l.k = "task" /\ ~v.call.selfInt ->
                    [v EXCEPT !.cli[p].agents = 1]
               [] l.k = "report" /\ ~v.call.selfInt ->
                    [v EXCEPT !.cli[p].agents = 0]
               [] l.k = "result" -> OnResult(v, l)
               [] OTHER -> v

OnClose(w, bad) ==
    IF w.call.miss \/ w.call.finished THEN w
    ELSE IF conf.piOwned \/ bad THEN EndWithError(w)
    ELSE Finish(Retire(w, w.call.p))

\* deliverHandoffResult() for each result: it answers the call that waits for
\* it, or is kept for the call to come.
\* Mutant: a result that comes before its call is dropped.
DeliverOpen(w, p, R) ==
    LET hit == {c \in w.cli[p].pending : c.id \in R}
    IN  [Answer(w, hit, "pi") EXCEPT !.cli[p].pending = @ \ hit,
                                     !.cli[p].awaiting = @ \ R]
\* Mutant: one result is delivered and the others are forgotten.
DeliverFirst(w, p, R) ==
    LET r == {CHOOSE x \in R : TRUE}
        hit == {c \in w.cli[p].pending : c.id \in r}
    IN  [Answer(w, hit, "pi") EXCEPT
            !.cli[p].pending = @ \ hit, !.cli[p].awaiting = @ \ r,
            !.cli[p].ready = IF hit = {} THEN @ \cup r ELSE @]
DeliverResults(w, p, R) ==
    LET hit  == {c \in w.cli[p].pending : c.id \in R}
        rest == R \ {c.id : c \in hit}
    IN  [Answer(w, hit, "pi") EXCEPT !.cli[p].pending = @ \ hit,
                                     !.cli[p].awaiting = @ \ rest,
                                     !.cli[p].ready = @ \cup rest]

\* onHandoffCall(): the call of tool_use t is routed to the block it names, or
\* to the only one it can mean when the CLI names none.
\* Mutant: without a tag, the first block that waits will do.
FirstNamed(c, t) ==
    {i \in c.awaiting \cup c.ready :
        \A j \in c.awaiting \cup c.ready : i <= j}
Named(c, t) == IF conf.idTags THEN {t} \cap (c.awaiting \cup c.ready)
               ELSE c.awaiting \cup c.ready

Route(w, p, t) ==
    LET c  == w.cli[p]
        id == CHOOSE i \in Named(c, t) : TRUE
        v  == [w EXCEPT !.cli[p].awaiting = @ \ {id}]
        me == [id |-> id, from |-> t]
    IN  IF Cardinality(Named(c, t)) # 1
        THEN Answer(w, {[id |-> t, from |-> t]}, "refused")
        ELSE IF id \in c.ready
             THEN [Answer(v, {me}, "pi") EXCEPT !.cli[p].ready = @ \ {id}]
        ELSE [v EXCEPT !.cli[p].pending = @ \cup {me}, !.tool[t].at = "open"]

-----------------------------------------------------------------------------
(* A pi call, up to the await of finishedPromise.                           *)

\* Mutant: the inactivity timer is armed by the first line.
ArmLater(w) == w
Arm(w) == [w EXCEPT !.call.timer = TRUE]

\* The buffered lines, in their order.
Fed(w, lines) ==
    LET feed[i \in 0 .. Len(lines)] ==
            IF i = 0 THEN w ELSE OnMessage(feed[i - 1], lines[i])
    IN  feed[Len(lines)]

\* attach(), and what provider.ts does in the same callback: replay the
\* buffer, arm the inactivity timer, then answer or prompt the CLI.
Attach(w, p, mode) ==
    LET c   == w.cli[p]
        on  == [w EXCEPT !.cli[p].idle = "off", !.cli[p].sink = TRUE,
                         !.cli[p].buf = <<>>,
                         !.call.ph = "open", !.call.p = p, !.call.mode = mode]
        fed == Fed(on, c.buf)
        eof == IF ~c.alive \/ c.eof
               THEN OnClose(fed, ~c.alive /\ w.os[p].run = "crashed")
               ELSE fed
        armed == Arm(eof)
        said == CASE mode = "handoff" -> DeliverResults(armed, p, w.call.results)
                  [] mode = "turn"    -> WriteUser(armed, p)
                  [] mode = "spawn"   -> armed
    IN  IF c.retired
        THEN [w EXCEPT !.call.ended = @ + 1, !.call.ph = "none", !.wants = {}]
        ELSE Settle(said)

\* The signal may have fired during the awaits: the call then returns without
\* attaching.  Under pi context its stream is ended with the error first.
Open(w, p, mode) ==
    LET mine == [w EXCEPT !.call.p = p, !.call.ph = "open", !.wants = {}]
    IN  IF ~w.call.aborted THEN Attach(w, p, mode)
        ELSE IF conf.piOwned THEN Settle(EndWithError(mine))
        ELSE [Interrupt(mine, p) EXCEPT !.call.ph = "lost",
                                        !.os[p].backstop = TRUE]

Fresh == {p \in 1 .. conf.procs : os[p].run = "none"}

\* Spawn a process, resuming the mapped CLI session unless the history is
\* replayed; record a session that was created; write the prompt.
Spawn(w, stale) ==
    LET p == CHOOSE q \in Fresh : \A r \in Fresh : q <= r
        resumed == ~conf.piOwned /\ ~w.call.force /\ ~stale /\ w.map # 0
        session == IF resumed THEN w.map ELSE p
        born == [w EXCEPT
            !.cli[p] = [Unborn EXCEPT !.alive = TRUE, !.session = session],
            !.os[p] = [NoProgram EXCEPT !.run = "up", !.resumed = resumed],
            !.map = IF ~conf.piOwned /\ ~resumed THEN p ELSE @]
    IN  Open(WriteUser(born, p), p, "spawn")

Spawns(w, stale) == Fresh # {} /\ Becomes(Spawn(w, stale))

Called(ph) == call.ph = ph

\* pi sends what its last message asked for: results, then what the user typed.
PiCalls(user) ==
    /\ Called("none")
    /\ call.n < conf.calls
    /\ Fresh # {}
    /\ user \/ wants # {}
    /\ user /\ wants # {} => "steer" \in conf.session
    /\ call' = [NoCall EXCEPT !.ph = "start", !.n = call.n + 1,
                              !.results = wants, !.user = user,
                              !.by = call.n + 1]
    /\ UNCHANGED <<conf, cli, os, tool, parked, map, stray, wants>>

\* canContinueHandoff(): every result answers a block the turn waits on.
CanContinue(c, R) ==
    /\ c.alive /\ ~c.retired /\ c.turn
    /\ R # {}
    /\ R \subseteq c.awaiting \cup {x.id : x \in c.pending}

ModeFor(c) ==
    IF c.turn
    THEN IF ~call.user /\ CanContinue(c, call.results) THEN "handoff"
         ELSE "spawn"
    ELSE IF call.results = {} THEN "turn" ELSE "spawn"

\* takeParkedCliProcess(): out of the pool, its idle timer stopped.
TakeParked(w) ==
    IF w.parked = NoProc THEN w
    ELSE [w EXCEPT !.parked = NoProc, !.cli[w.parked].idle = "off"]

\* The call reuses the parked process, asks it to change its thinking first,
\* retires it, or spawns.  fits: the signature and the history match.
Choose(fits, control, stale) ==
    LET p == parked
        w == TakeParked(World)
        m == IF fits /\ ~call.force /\ ~stale THEN ModeFor(cli[p]) ELSE "spawn"
        retiring == [Retire(w, p) EXCEPT !.call.ph = "retire", !.call.p = p]
    IN  /\ Called("start")
        /\ IF p = NoProc THEN Spawns(w, stale)
           ELSE IF ~cli[p].alive \/ cli[p].retired
                THEN Spawns(w, stale)
           ELSE IF m = "spawn" THEN Becomes(retiring)
           ELSE IF m = "turn" /\ control
                THEN IF cli[p].eof THEN Becomes(retiring)
                     ELSE Becomes([w EXCEPT !.call.ph = "think", !.call.p = p])
           ELSE Becomes(Open(w, p, m))

\* The control requests were acknowledged, or one was refused, timed out or
\* lost its process.
ThinkingApplied ==
    /\ Called("think")
    /\ cli[call.p].alive /\ ~cli[call.p].eof
    /\ Becomes(Open(World, call.p, "turn"))

ThinkingRefused ==
    /\ Called("think")
    /\ Becomes([Retire(World, call.p) EXCEPT !.call.ph = "retire"])

\* The retired process has closed, or has been sent SIGKILL.
SpawnAfterRetire(stale) ==
    /\ Called("retire")
    /\ cli[call.p].end = "done"
    /\ Spawns(World, stale)

\* The abort signal fires.  A call that is still starting looks at it later.
Abort ==
    LET w == [World EXCEPT !.call.aborted = TRUE]
        p == call.p
    IN  /\ call.ph \in conf.aborts /\ ~call.aborted
        /\ IF ~Called("open") THEN Becomes(w)
           ELSE IF conf.piOwned THEN Becomes(Settle(EndWithError(w)))
           ELSE Becomes([Interrupt(w, p) EXCEPT !.call.selfInt = TRUE,
                                                !.os[p].backstop = TRUE])

\* model_select, session_tree, session_compact, session_start, shutdown.
RetireAll ==
    /\ "retireAll" \in conf.session /\ parked # NoProc
    /\ Becomes(Retire([World EXCEPT !.parked = NoProc], parked))

-----------------------------------------------------------------------------
(* The callbacks of a process.                                              *)

\* A permission request is answered whether or not a call is attached.
Permit(w, t) ==
    IF w.tool[t].at # "asked" THEN w
    ELSE IF conf.allowHandoff THEN [w EXCEPT !.tool[t].at = "may"]
    ELSE [w EXCEPT !.tool[t].at = "done", !.tool[t].by = "denied"]

\* Mutant: the buffer has no limit.
BufferAll(w, p, l) ==
    IF l.k = "ask" THEN w ELSE [w EXCEPT !.cli[p].buf = Append(@, l)]
Buffer(w, p, l) ==
    IF l.k = "ask" THEN w
    ELSE [w EXCEPT !.cli[p].buf =
             Append(IF Len(@) >= conf.bufferLimit THEN Tail(@) ELSE @, l)]

HandleLine(p) ==
    LET l == Head(os[p].out)
        popped == [World EXCEPT !.os[p].out = Tail(@),
                     !.cli[p].turn = IF l.k = "result" THEN FALSE ELSE @]
        permitted == IF l.k = "ask" THEN Permit(popped, l.t) ELSE popped
        heard == IF cli[p].sink THEN OnMessage(permitted, l)
                 ELSE Buffer(permitted, p, l)
        failed == IF l.k = "result" THEN FailPending(heard, p) ELSE heard
    IN  /\ os[p].out # <<>> /\ ~cli[p].eof
        /\ Becomes(Settle(failed))

Over(p) == os[p].run \in {"exited", "crashed", "killed"} /\ os[p].out = <<>>

StdoutClose(p) ==
    LET w == [World EXCEPT !.cli[p].eof = TRUE, !.cli[p].turn = FALSE]
    IN  /\ Over(p) /\ ~cli[p].eof
        /\ IF cli[p].alive /\ cli[p].sink
           THEN Becomes(Settle(OnClose(w, FALSE))) ELSE Becomes(w)

\* Mutant: a process that exits leaves its calls open.
CloseSilently(w, p) ==
    [w EXCEPT
        !.cli[p].alive = FALSE, !.cli[p].turn = FALSE, !.cli[p].idle = "off",
        !.cli[p].end = IF @ = "no" THEN @ ELSE "done",
        !.os[p].backstop = FALSE,
        !.parked = IF @ = p THEN NoProc ELSE @]
\* Mutant: a process that exits stays in the pool.
CloseParked(w, p) ==
    [w EXCEPT
        !.cli[p].alive = FALSE, !.cli[p].turn = FALSE, !.cli[p].idle = "off",
        !.cli[p].end = IF @ = "no" THEN @ ELSE "done"]
Closed(w, p) ==
    [FailPending(w, p) EXCEPT
        !.cli[p].alive = FALSE, !.cli[p].turn = FALSE, !.cli[p].idle = "off",
        !.cli[p].end = IF @ = "no" THEN @ ELSE "done",
        !.os[p].backstop = FALSE,
        !.parked = IF @ = p THEN NoProc ELSE @]

ProcClose(p) ==
    LET w == Closed(World, p)
        heard == IF cli[p].sink /\ ~cli[p].eof
                 THEN OnClose(w, os[p].run = "crashed") ELSE w
    IN  /\ Over(p) /\ cli[p].alive
        /\ Becomes(Settle([heard EXCEPT !.cli[p].eof = TRUE]))

IdleExpires(p) ==
    /\ cli[p].idle # "off"
    /\ Becomes(Retire([World EXCEPT !.parked = IF @ = p THEN NoProc ELSE @], p))

\* The interrupt's grace is over: stdin ends, and the kill timer starts.
GraceExpires(p) ==
    /\ cli[p].end = "grace"
    /\ Becomes([World EXCEPT !.cli[p].end = "kill", !.os[p].quit = TRUE])

KillExpires(p) ==
    /\ cli[p].end = "kill"
    /\ Becomes([ForceKill(World, p) EXCEPT !.cli[p].end = "done"])

\* No line for INACTIVITY_TIMEOUT_MS, or AGENT_WAIT_TIMEOUT_MS of waiting.
Inactive ==
    LET p == call.p
    IN  /\ Called("open") /\ call.timer /\ os[p].out = <<>> /\ ~call.waiting
        /\ Becomes(Settle(EndWithError(ForceKill(World, p))))

AgentsWaitedOut ==
    /\ Called("open") /\ call.waiting
    /\ Becomes(Settle(Finish(Retire(World, call.p))))

StrayTimer(x) ==
    LET w == [World EXCEPT !.stray = @ \ {x}]
    IN  Becomes(IF x.waits THEN Retire(w, x.p) ELSE ForceKill(w, x.p))

\* Two seconds after an abort.
Backstop(p) ==
    /\ os[p].backstop
    /\ Becomes([ForceKill(World, p) EXCEPT !.os[p].backstop = FALSE])

\* The broker dispatches a tools/call to the process registered for the CLI
\* session it names, the newest one when two have resumed it.
Targets(s) == {q \in Procs : /\ cli[q].alive /\ ~cli[q].retired
                             /\ cli[q].session = s}
Dispatch(t) ==
    LET T == Targets(cli[tool[t].p].session)
        q == CHOOSE r \in T : \A x \in T : x <= r
        me == [id |-> t, from |-> t]
    IN  /\ tool[t].at = "sent"
        /\ Becomes(IF T = {} THEN Answer(World, {me}, "refused")
                   ELSE Route(World, q, t))

-----------------------------------------------------------------------------
(* The CLI, as the provider's comments describe it.                         *)

Up(p) == os[p].run = "up"
Says(p, lines) == os' = [os EXCEPT ![p].out = @ \o lines]
Works(p) == Up(p) /\ os[p].busy /\ ~os[p].intr
Unsettled(p) == {t \in Tools : tool[t].p = p /\ tool[t].at # "done"}
Rests == UNCHANGED <<conf, cli, call, parked, map, stray, wants>>

BeginTurn(p) ==
    /\ Up(p) /\ ~os[p].busy /\ os[p].inbox # <<>>
    /\ os' = [os EXCEPT ![p].busy = TRUE, ![p].turn = Head(os[p].inbox),
                        ![p].inbox = Tail(@)]
    /\ UNCHANGED tool /\ Rests

\* A resumed CLI drains a queue of its own first, with an empty result.
DrainQueue(p) ==
    /\ "queue" \in conf.ownTurns /\ os[p].resumed
    /\ Up(p) /\ ~os[p].busy /\ ~os[p].own
    /\ os' = [os EXCEPT ![p].own = TRUE, ![p].out = Append(@, Result("empty", Own))]
    /\ UNCHANGED tool /\ Rests

\* A background task ends and the CLI reports on it unprompted.
OwnTurn(p) ==
    /\ "task" \in conf.ownTurns
    /\ Up(p) /\ ~os[p].busy /\ os[p].inbox = <<>> /\ ~os[p].own
    /\ os' = [os EXCEPT ![p].own = TRUE, ![p].busy = TRUE, ![p].turn = Own]
    /\ UNCHANGED tool /\ Rests

\* The next k blocks of a message, in order.
Message(p, k) ==
    LET new == {t \in 1 .. conf.tools : tool[t].at = "new"}
    IN  /\ Works(p) /\ Unsettled(p) = {}
        /\ \E ids \in [1 .. k -> new] :
              /\ \A i \in 1 .. k : {t \in new : t < ids[i]} = {ids[j] : j \in 1 .. i - 1}
              /\ tool' = [t \in Tools |-> IF \E i \in 1 .. k : ids[i] = t
                             THEN [NoBlock EXCEPT !.p = p, !.at = "named"]
                             ELSE tool[t]]
              /\ Says(p, [i \in 1 .. k |-> L("tool", ids[i])] \o <<L("stop", 0)>>)
        /\ Rests

Ask(t) ==
    /\ tool[t].at = "named" /\ Works(tool[t].p)
    /\ tool' = [tool EXCEPT ![t].at = "asked"]
    /\ Says(tool[t].p, <<L("ask", t)>>)
    /\ Rests

CallTool(t) ==
    /\ tool[t].at = "may" /\ Works(tool[t].p)
    /\ tool' = [tool EXCEPT ![t].at = "sent"]
    /\ UNCHANGED os /\ Rests

SettleItself(t) ==
    /\ conf.hooks /\ tool[t].at \in {"named", "may"} /\ Works(tool[t].p)
    /\ tool' = [tool EXCEPT ![t].at = "done", ![t].by = "self"]
    /\ UNCHANGED os /\ Rests

EndTurn(p, r) ==
    /\ Works(p) /\ Unsettled(p) = {}
    /\ r = "miss" => os[p].resumed /\ os[p].turn # Own
    /\ os' = [os EXCEPT ![p].busy = FALSE,
                        ![p].out = Append(@, Result(r, os[p].turn))]
    /\ UNCHANGED tool /\ Rests

\* An interrupt ends the turn with an error result; its tools are given up.
Interrupted(p) ==
    /\ Up(p) /\ os[p].intr
    /\ os' = [os EXCEPT ![p].intr = FALSE, ![p].busy = FALSE,
                        ![p].out = IF os[p].busy
                                   THEN Append(@, Result("error", os[p].turn))
                                   ELSE @]
    /\ tool' = [t \in Tools |->
                  IF os[p].busy /\ t \in Unsettled(p)
                  THEN [tool[t] EXCEPT !.at = IF @ = "open" THEN @ ELSE "done",
                                       !.by = IF tool[t].at = "open"
                                              THEN @ ELSE "self"]
                  ELSE tool[t]]
    /\ Rests

LaunchAgent(p) ==
    /\ conf.agents /\ Works(p) /\ os[p].agent = "none" /\ Unsettled(p) = {}
    /\ os' = [os EXCEPT ![p].agent = "runs", ![p].out = Append(@, L("task", 0))]
    /\ UNCHANGED tool /\ Rests

\* The agent reports, and the CLI takes the turn up again by itself.
AgentReports(p) ==
    /\ Up(p) /\ ~os[p].busy /\ os[p].agent = "runs"
    /\ os' = [os EXCEPT ![p].agent = "over", ![p].busy = TRUE,
                        ![p].out = Append(@, L("report", 0))]
    /\ UNCHANGED tool /\ Rests

Exit(p) ==
    /\ Up(p) /\ os[p].quit /\ ~os[p].busy
    /\ os' = [os EXCEPT ![p].run = "exited"]
    /\ UNCHANGED tool /\ Rests

CliCrashes(p) ==
    /\ "crash" \in conf.session /\ Up(p)
    /\ os' = [os EXCEPT ![p].run = "crashed"]
    /\ UNCHANGED tool /\ Rests

-----------------------------------------------------------------------------
Options == [fits : IF "change" \in conf.session THEN BOOLEAN ELSE {TRUE},
            control : IF "think" \in conf.session THEN BOOLEAN ELSE {FALSE},
            stale : IF "change" \in conf.session THEN BOOLEAN ELSE {FALSE}]

Pi ==
    \/ \E user \in BOOLEAN : PiCalls(user)
    \/ Abort
    \/ RetireAll

Call ==
    \/ \E o \in Options : Choose(o.fits, o.control, o.stale)
    \/ ThinkingApplied
    \/ ThinkingRefused
    \/ \E o \in Options : SpawnAfterRetire(o.stale)
    \/ Inactive
    \/ AgentsWaitedOut

Callback(p) ==
    \/ HandleLine(p)
    \/ StdoutClose(p)
    \/ ProcClose(p)
    \/ IdleExpires(p)
    \/ GraceExpires(p)
    \/ KillExpires(p)
    \/ Backstop(p)

CliStep(p) ==
    \/ BeginTurn(p)
    \/ DrainQueue(p)
    \/ OwnTurn(p)
    \/ \E k \in 1 .. 2 : Message(p, k)
    \/ \E r \in {"ok", "error", "miss"} : EndTurn(p, r)
    \/ Interrupted(p)
    \/ LaunchAgent(p)
    \/ AgentReports(p)
    \/ Exit(p)
    \/ CliCrashes(p)

NextCli ==
    \/ Pi
    \/ Call
    \/ \E p \in Procs : Callback(p) \/ CliStep(p)
    \/ \E x \in stray : StrayTimer(x)
    \/ \E t \in Tools : Dispatch(t) \/ Ask(t) \/ CallTool(t) \/ SettleItself(t)

CliSpec == InitCli /\ [][NextCli]_cliVars

\* Node's event loop goes on running callbacks while some are due: lines,
\* closes, timers, requests and resumed awaits, in any order.  Nothing is
\* assumed of pi, the user or the CLI.
EventLoop ==
    \/ Call
    \/ \E p \in Procs : Callback(p)
    \/ \E t \in Tools : Dispatch(t)

CliFairness == WF_cliVars(EventLoop)

FairCliSpec == CliSpec /\ CliFairness

-----------------------------------------------------------------------------
(* Properties.                                                              *)

\* Every variable holds values of its type, and the buffer keeps its limit.
CliTypeOK ==
    /\ cli \in [Procs -> Process]
    /\ \A p \in Procs : Len(cli[p].buf) <= conf.bufferLimit
    /\ os \in [Procs -> Program]
    /\ tool \in [Tools -> Block]
    /\ call \in PiCall
    /\ parked \in 0 .. MaxProcs
    /\ map \in 0 .. MaxProcs
    /\ stray \subseteq [p : Procs, waits : BOOLEAN]
    /\ wants \subseteq Tools

\* A tools/call that waits for pi is in the pending map of exactly one process,
\* which lives, is not retired, and is held by the pool or by a call, so that
\* something will answer it (onHandoffCall, retire, handleProcClose).
OpenCallsHeld ==
    \A t \in Tools : tool[t].at = "open" =>
        \E p \in Procs :
            /\ \A q \in Procs : (\E c \in cli[q].pending : c.from = t) <=> q = p
            /\ cli[p].alive /\ ~cli[p].retired
            /\ p \in {parked, call.p}

\* pi's result for a tool_use is only ever given to the call made for it, also
\* when the CLI does not say which block a call is for (onHandoffCall).
AnswersMatch ==
    \A t \in Tools : tool[t].by = "pi" => tool[t].of = t

\* A call that continues a running turn leaves no block of it without a result:
\* the CLI would wait on it until the MCP timeout (canContinueHandoff).
ContinuesWhole ==
    Called("open") /\ call.mode = "handoff" /\ ~call.saw
        => cli[call.p].awaiting = {} /\ cli[call.p].pending = {}

\* The parked process lives, has no call attached and has a timer that will
\* retire it; no other process has one (parkCliProcess, takeParkedCliProcess).
ParkedHealthy ==
    \A p \in Procs :
        IF parked = p
        THEN cli[p].alive /\ ~cli[p].retired /\ ~cli[p].sink
             /\ cli[p].idle # "off"
        ELSE cli[p].idle = "off"

\* No process is left running with nobody to end it: one that is not retired
\* is parked or in the hands of the call (releaseProcess, discardProcess).
NoOrphan ==
    \A p \in Procs : cli[p].alive /\ ~cli[p].retired =>
        \/ parked = p
        \/ call.p = p /\ call.ph \in {"think", "open"}

\* At most one call is attached, to the process it was opened on, and an
\* episode that is over is detached (attach, detach).
SinkIsCurrent ==
    \A p \in Procs : cli[p].sink =>
        call.p = p /\ Called("open") /\ ~call.finished /\ ~cli[p].retired

\* The stream of a call is ended once: not twice while it runs, and once by
\* the time the call returns (streamEnded, resumeMiss).
EndedOnce ==
    /\ call.ended <= 1
    /\ Called("none") /\ call.n > 0 => call.ended = 1
    /\ call.ph \in {"start", "think", "retire"} => call.ended = 0

\* The CLI's tagged call for a block is refused though its process and the turn
\* live, in whatever order the line and the request arrive (onHandoffCall).
Refuses(t) ==
    /\ conf.idTags /\ tool[t].by # "refused" /\ tool'[t].by = "refused"
    /\ LET c == cli[tool[t].p] IN c.alive /\ ~c.retired /\ c.turn

\* A second attempt follows a resume that found no session: the pointer was
\* dropped and the attempt resumes nothing (resumeMiss, forceFullReplay).
MissIsReimported ==
    call.force =>
        /\ call.ph \in {"start", "think", "retire"} => map = 0
        /\ Called("open") => ~os[call.p].resumed /\ map = cli[call.p].session

\* The attempts at one call end its stream once, and the one after a resume
\* that missed imports the context anew (resumeMiss, streamEnded).
AttemptsSound == MissIsReimported /\ EndedOnce

\* The kill that backs an abort up hits a CLI that still owes the result.
BackstopKillsWedged ==
    [][\A p \in Procs :
        /\ os[p].backstop /\ ~os'[p].backstop
        /\ os[p].run = "up" /\ os'[p].run = "killed"
        => \/ Called("open") /\ call.p = p /\ call.aborted
           \/ cli[p].end = "kill"]_cliVars

\* A turn is ended by the result of its own prompt, not by another's.
OwnResult ==
    Called("none") /\ call.mode # "handoff" => call.by = call.n

\* Every call pi makes has its stream ended (provider.ts: inactivity timer,
\* retire's timers, the timeouts of control requests).
StreamEnds == call.ph \in {"start", "think", "retire", "open"} ~> Called("none")

\* A call whose signal fires comes to an end.
AbortedTurnEnds == call.aborted ~> Called("none")

\* Every tools/call that reaches the broker is answered (HANDOFF_WAIT_MS).
CallsAnswered ==
    \A t \in Tools : tool[t].at = "sent" ~> tool[t].at = "done"
=============================================================================
