---------------------------- MODULE GoalScheduler ----------------------------
(***************************************************************************)
(* Autonomous continuation of a goal (extensions/goal: goal-scheduler.ts,  *)
(* goal-scheduler-state.ts, goal-runtime.ts, goal-interruption.ts,         *)
(* goal-events.ts).                                                        *)
(*                                                                         *)
(* The goal file holds the scheduling intent and is shared by the Pi       *)
(* processes; timers and run flags live in the memory of one session and   *)
(* are lost with it.  A handler runs without an await, so it is one step;  *)
(* between two handlers anything may happen, in this session or another.   *)
(* Handlers are written as functions from a context x to a context: the    *)
(* goal, the memory of the session, and the writes that will succeed.      *)
(***************************************************************************)
EXTENDS Naturals, FiniteSets

CONSTANTS
    Sessions,       \* sessions that have the goal in focus
    Creator,        \* the session that creates it
    Limit,          \* maxAutonomousRuns
    StrictChoices,  \* values the user may give strictExecutionContract
    Backoff,        \* idleContinuationBackoff
    MaxChecks,      \* bound: max_checks of a polling wait
    Outcomes,       \* how a run may end: ok, network, error, aborted
    Mishaps,        \* what may fail: "store" a write, "send" a dispatch,
                    \* "crash" a process
    MaxActs,        \* bound: what the user does after the goal is created
    Uuids,          \* generations and dispatch ids in use at one time
    None            \* absent

ASSUME SchedulerAssumption ==
    /\ Creator \in Sessions /\ IsFiniteSet(Sessions)
    /\ Limit \in Nat /\ MaxChecks \in Nat /\ MaxActs \in Nat
    /\ StrictChoices \in SUBSET BOOLEAN /\ StrictChoices # {}
    /\ Backoff \in BOOLEAN
    /\ Outcomes \subseteq {"ok", "network", "error", "aborted"}
    /\ Mishaps \subseteq {"store", "send", "crash"}
    /\ Uuids \subseteq Nat /\ 0 \in Uuids /\ IsFiniteSet(Uuids)
    /\ Cardinality(Uuids) > 5 * Cardinality(Sessions) + 3

Purposes == {"ready", "repair", "kickoff", "recovery"}

\* A wait: due says that nextCheckAt has passed, expired that the deadline
\* has; checks is absent when the wait does not poll.
Wait == [due: BOOLEAN, expired: BOOLEAN, signalled: BOOLEAN,
         checks: 0 .. MaxChecks \cup {None}]

\* Pacing of runs that did no work: after the first the next one is
\* immediate, after the others it is delayed until the delay has passed.
Idle == {"none", "first", "delayed", "passed"}

Goal == [active: BOOLEAN, owner: Sessions, gen: Uuids, used: 0 .. Limit,
         phase: {"idle", "ready", "waiting", "claimed", "running",
                 "interrupted"},
         decision: Purposes \cup {"wait", None}, wait: Wait \cup {None},
         dispatch: Uuids \cup {None}, repairUsed: BOOLEAN, idle: Idle]

Checkpoint == [gen: Uuids, dispatch: Uuids]

ASSUME NoneAssumption ==
    /\ None \notin Sessions \cup Uuids \cup (0 .. MaxChecks)
    /\ None \notin Wait /\ None \notin Checkpoint

\* pc is where the session's Pi host stands: idle, preparing a prompt, in a
\* turn, or past agent_end.  queue is a checkpoint given to the host, msg the
\* prompt of the run that is being prepared.
Memory == [up: BOOLEAN, pc: {"idle", "prep", "turn", "ended"},
           msg: Checkpoint \cup {None}, queue: Checkpoint \cup {None},
           inRun: BOOLEAN, declared: BOOLEAN, denied: BOOLEAN,
           held: BOOLEAN, ignore: BOOLEAN, abort: BOOLEAN,
           armed: Uuids \cup {None}, timer: BOOLEAN, cont: BOOLEAN,
           retry: BOOLEAN, after: {"none", "continue", "network"}]

Down == [up |-> FALSE, pc |-> "idle", msg |-> None, queue |-> None,
         inRun |-> FALSE, declared |-> FALSE, denied |-> FALSE,
         held |-> FALSE, ignore |-> FALSE, abort |-> FALSE,
         armed |-> None, timer |-> FALSE, cont |-> FALSE, retry |-> FALSE,
         after |-> "none"]

VARIABLES
    goal,       \* the goal file
    mem,        \* each session's memory, and its host
    strict,     \* the setting strictExecutionContract
    started,    \* history: autonomous runs started since the last resume
    acts,       \* how often the user has acted
    grant,      \* history: the session whose claim nobody has superseded
    failed      \* history: the session's last run failed, or a write did

vars == <<goal, mem, strict, acts, started, grant, failed>>
-----------------------------------------------------------------------------
\* What a step reads and changes: x.s the session, x.g the goal, x.m the
\* memory, x.w how many writes of the goal file succeed from here on, x.err
\* whether an error was reported.
Writes == IF "store" \in Mishaps THEN {0, 1, 3} ELSE {3}
\* A write that is made on the copy in memory, without reading the file first,
\* is refused when another session has changed the file.
UnreadWrites == Writes \cup (IF Cardinality(Sessions) > 1 THEN {0} ELSE {})
Context(s, w) == [s |-> s, g |-> goal, m |-> mem[s], w |-> w, err |-> FALSE]

\* randomUUID(): an id that nobody holds any more stands for a new one.
Referenced ==
    {goal.gen, goal.dispatch}
      \cup UNION {{mem[s].armed} \cup
             UNION {{c.gen, c.dispatch} :
                      c \in {mem[s].queue, mem[s].msg} \ {None}}
             : s \in Sessions}
Fresh == CHOOSE u \in Uuids \ {0} : u \notin Referenced

\* cancelTimer().
CancelTimer(m) == [m EXCEPT !.timer = FALSE, !.armed = None]

\* clearContinuationState of the core; the network retry only on reset.
ClearContinuation(m, reset) ==
    [CancelTimer(m) EXCEPT !.cont = FALSE, !.retry = @ /\ ~reset]

\* safe(): what a thrown error leaves behind.
Stopped(x) == [x EXCEPT !.m = ClearContinuation(@, TRUE), !.err = TRUE]

\* reconcileFocusedGoalFromDisk and its onReconciled hook.
Reconcile(x) ==
    IF x.g.active THEN x
    ELSE [x EXCEPT !.m = ClearContinuation(@, TRUE)]

\* state(): scheduling needs ownership and an uninterrupted goal.
Owned(x) == x.g.owner = x.s /\ x.g.phase # "interrupted"

\* write(): the pending turn is flushed, the file reconciled and replaced.
Wrote(x, g) == [Reconcile(x) EXCEPT !.g = g, !.w = x.w - 1]

Held(x)       == x.m.held /\ x.g.active
Actionable(x) == x.g.active /\ ~Held(x)
\* Mutant: one run too many.
AvailableOnce(g) == g.used <= Limit

Available(g)  == g.used < Limit
Strict(g)     == strict \/ g.wait # None
Expired(g)    == g.wait # None /\ g.wait.expired
IdleDelay(g)  == /\ g.phase = "ready" /\ g.decision = "ready"
                 /\ g.idle = "delayed"

ImplicitReady(g) == [g EXCEPT !.phase = "ready", !.dispatch = None,
                              !.gen = Fresh, !.decision = "ready"]

\* paceIdle(): worked says that the run did some work.
PaceIdle(g, worked) ==
    [g EXCEPT !.idle = CASE ~Backoff \/ worked -> "none"
                         [] g.idle = "none"    -> "first"
                         [] OTHER              -> "delayed"]

\* pause(): the goal stops, and nothing it had scheduled stays valid.
Pause(x) ==
    LET y == [x EXCEPT !.m = ClearContinuation(@, TRUE)] IN
    IF y.w = 0 \/ y.g.owner # y.s THEN Stopped(y)
    ELSE Wrote(y, [y.g EXCEPT !.active = FALSE, !.gen = Fresh,
                              !.phase = "idle", !.decision = None,
                              !.dispatch = None, !.wait = None])

\* pauseActiveGoal(): the user's pause; the scheduling state is left alone.
PauseActive(x) ==
    IF ~x.g.active \/ x.w = 0 THEN x
    ELSE Wrote([x EXCEPT !.m = ClearContinuation(@, TRUE)],
               [x.g EXCEPT !.active = FALSE])

\* The saved intent is not due yet: schedule() arms a timer for it.
NotYet(g) ==
    \/ /\ g.phase = "waiting" /\ ~g.wait.signalled
       /\ ~g.wait.due
    \/ IdleDelay(g)

\* schedule(): turn the saved intent into a queued continuation, a timer, or
\* a pause.
Arm(x) ==
    IF x.g.phase \notin {"ready", "waiting"} THEN x
    ELSE IF \/ ~Available(x.g)
            \/ Expired(x.g)
            \/ /\ x.g.phase = "waiting"
               /\ ~x.g.wait.signalled /\ x.g.wait.checks = 0
         THEN Pause(x)
    ELSE IF NotYet(x.g)
         THEN [x EXCEPT !.m = [CancelTimer(@) EXCEPT
                 !.timer = TRUE, !.cont = x.m.cont /\ ~IdleDelay(x.g)]]
    ELSE [x EXCEPT !.m = [CancelTimer(@) EXCEPT
            !.armed = x.g.gen, !.cont = TRUE]]

LostRepair(g) == g.phase = "ready" /\ g.decision = "repair" /\ ~Strict(g)

Schedule(x) ==
    LET y == Reconcile(x) IN
    IF x.m.inRun \/ x.m.denied \/ Held(x) THEN x
    ELSE IF ~y.g.active THEN y
    ELSE IF ~Owned(y) THEN Stopped(y)
    ELSE IF ~LostRepair(y.g) THEN Arm(y)
    ELSE IF y.w = 0 THEN Stopped(y)
    ELSE Arm(Wrote(y, ImplicitReady(y.g)))

\* update() followed by schedule(), inside safe().
UpdateAndSchedule(x, g) ==
    IF Owned(x) /\ x.w > 0 THEN Schedule(Wrote(x, g))
    ELSE Stopped(Reconcile(x))

\* update() alone, inside safe().
Update(x, g) ==
    IF Owned(x) /\ x.w > 0 THEN Wrote(x, g) ELSE Stopped(Reconcile(x))
-----------------------------------------------------------------------------
\* The handlers.

\* resume(): only the user's resume renews the allowance.
NewRun(s) == [active |-> TRUE, owner |-> s, gen |-> Fresh, used |-> 0,
              phase |-> "ready", decision |-> "kickoff", wait |-> None,
              dispatch |-> None, repairUsed |-> FALSE, idle |-> "none"]
ResumeGoal(x) ==
    LET y == [x EXCEPT !.m = ClearContinuation(@, TRUE)] IN
    IF Limit = 0 THEN x
    ELSE IF y.w = 0 THEN [y EXCEPT !.err = TRUE]
    ELSE Schedule(Wrote([y EXCEPT !.m.held = FALSE,
                                  !.m.declared = y.m.inRun], NewRun(y.s)))

\* restore(): a dispatch that was under way is never replayed.
Restore(x) ==
    LET y == Reconcile(x) IN
    IF ~y.g.active \/ y.g.owner # y.s THEN y
    ELSE IF y.g.phase \in {"claimed", "running", "interrupted"} THEN Pause(y)
    ELSE Schedule(y)

\* rejectCheckpoint(): the run the stale dispatch started is cancelled.
Reject(x) == [x EXCEPT !.m = [CancelTimer(@) EXCEPT
                 !.denied = TRUE, !.abort = TRUE, !.cont = FALSE]]

\* Mutant: only what is in memory is cancelled, the claim stays in the file.
TakeoverInMemory(x) ==
    LET y == [x EXCEPT !.m = [ClearContinuation(@, TRUE) EXCEPT
                                !.declared = FALSE]] IN
    IF y.g.owner # y.s THEN y
    ELSE Update(y, [y.g EXCEPT !.decision = None, !.wait = None,
                      !.repairUsed = FALSE, !.idle = "none"])

\* takeover(): host work supersedes the saved intent, never resets used.
Takeover(x) ==
    LET y == [x EXCEPT !.m = [ClearContinuation(@, TRUE) EXCEPT
                                !.declared = FALSE]] IN
    IF y.g.owner # y.s THEN y
    ELSE Update(y, [y.g EXCEPT !.gen = Fresh, !.phase = "idle",
                      !.decision = None, !.dispatch = None, !.wait = None,
                      !.repairUsed = FALSE, !.idle = "none"])

\* message() for a checkpoint.
Matches(g, c) == /\ g.active /\ g.phase = "claimed"
                 /\ g.gen = c.gen /\ g.dispatch = c.dispatch
Admit(x, c) ==
    LET y == Reconcile(x) IN
    IF x.m.denied THEN x
    ELSE IF Owned(y) /\ Matches(y.g, c) /\ y.w > 0
         THEN Wrote(y, [y.g EXCEPT !.phase = "running"])
    ELSE Reject(y)

Message(x, c) == IF x.m.denied THEN x
                 ELSE IF c = None THEN Takeover(x) ELSE Admit(x, c)

\* begin().
Begin(x) ==
    IF x.m.denied \/ x.m.inRun THEN x
    ELSE [x EXCEPT !.m = [CancelTimer(@) EXCEPT
            !.inRun = TRUE, !.declared = FALSE, !.cont = FALSE]]

\* Mutant: the declaration is withdrawn, the phase it set is not.
TurnKeepsPhase(x) ==
    IF x.m.denied \/ ~x.m.declared THEN x
    ELSE LET y == [x EXCEPT !.m.declared = FALSE] IN
         Update(y, [y.g EXCEPT !.decision = None, !.dispatch = None])

\* turn(): a further model turn withdraws what the run has declared.
Turn(x) ==
    IF x.m.denied \/ ~x.m.declared THEN x
    ELSE LET y == [x EXCEPT !.m.declared = FALSE] IN
         Update(y, [y.g EXCEPT !.decision = None, !.phase = "idle",
                               !.dispatch = None])

\* declare(): the decision the run leaves behind, and the wait with it.
Declare(x, decision, wait) ==
    LET g == [x.g EXCEPT !.phase = IF decision = "wait" THEN "waiting"
                                                        ELSE "ready",
                         !.decision = decision, !.wait = wait,
                         !.idle = IF Strict(x.g) THEN "none" ELSE @,
                         !.dispatch = None, !.gen = Fresh] IN
    IF Owned(x) /\ Available(x.g) /\ x.w > 0
    THEN [Wrote(x, g) EXCEPT !.m.declared = TRUE] ELSE x

\* A wait that is declared anew, or the same one declared again: its
\* deadline and its checks are kept.
NewWaits == {[due |-> FALSE, expired |-> FALSE, signalled |-> FALSE,
              checks |-> n] : n \in 1 .. MaxChecks \cup {None}}
Redeclared(w) == [w EXCEPT !.signalled = FALSE, !.due = FALSE]

\* claim(): charge the allowance and name the dispatch.
Kind(g) ==
    CASE g.phase = "ready" /\ g.decision \in Purposes -> g.decision
      [] g.phase = "waiting" /\ g.wait.signalled -> "wake"
      [] g.phase = "waiting" /\ g.wait.due /\ g.wait.checks # 0 -> "check"
      [] OTHER -> None
\* The wait of a run that is claimed: a polling run uses up a check.
Charged(g) ==
    IF g.wait = None THEN None
    ELSE [g.wait EXCEPT !.signalled = FALSE,
            !.checks = IF Kind(g) = "check" THEN g.wait.checks - 1
                                            ELSE g.wait.checks]

\* Mutant: the prompt that repairs a run is not charged.
ClaimedFree(g) ==
    [g EXCEPT !.used = IF Kind(g) = "repair" THEN @ ELSE @ + 1,
              !.phase = "claimed", !.dispatch = Fresh,
              !.repairUsed = IF Kind(g) = "repair" THEN TRUE
                             ELSE @ /\ Kind(g) = "recovery",
              !.wait = Charged(g)]

Claimed(g) ==
    [g EXCEPT !.used = @ + 1, !.phase = "claimed", !.dispatch = Fresh,
              !.repairUsed = IF Kind(g) = "repair" THEN TRUE
                             ELSE @ /\ Kind(g) = "recovery",
              !.wait = Charged(g)]
CanClaim(x, gen) ==
    /\ Owned(x) /\ x.w > 0
    /\ x.g.gen = gen
    /\ x.g.active /\ Available(x.g) /\ ~Expired(x.g)
Claim(x, sent) ==
    LET gen == x.m.armed
        y == Reconcile([x EXCEPT !.m.armed = None])
        g == IF LostRepair(y.g) THEN ImplicitReady(y.g) ELSE y.g
        z == Wrote(y, Claimed(g))
    IN IF gen = None THEN x
       ELSE IF CanClaim(y, gen) /\ IdleDelay(g) THEN Schedule(Wrote(y, g))
       ELSE IF CanClaim(y, gen) /\ Kind(g) # None
            THEN IF sent
                 THEN [z EXCEPT !.m.queue = [gen |-> z.g.gen,
                                             dispatch |-> z.g.dispatch]]
                 ELSE Pause(z)
       ELSE IF y.g.owner # y.s \/ y.g.gen # gen THEN y
       ELSE Pause(y)

\* Mutants: a second repair follows the first; a rejected run leaves the
\* intent that was saved before it alone.
RepairAgain(x, successful, worked) ==
    LET g == x.g IN
    IF x.m.denied THEN Schedule([x EXCEPT !.m.denied = FALSE])
    ELSE IF ~g.active \/ ~successful THEN x
    ELSE IF ~Owned(x) THEN Stopped(x)
    ELSE IF x.m.declared /\ g.decision # None THEN Schedule(x)
    ELSE IF ~Strict(g)
         THEN UpdateAndSchedule(x, PaceIdle(ImplicitReady(g), worked))
    ELSE IF ~Available(g) THEN Pause(x)
    ELSE UpdateAndSchedule(x, [g EXCEPT !.phase = "ready", !.dispatch = None,
                                        !.decision = "repair"])
RejectedForgets(x, successful, worked) ==
    LET g == x.g IN
    IF x.m.denied THEN [x EXCEPT !.m.denied = FALSE]
    ELSE IF ~g.active \/ ~successful THEN x
    ELSE IF ~Owned(x) THEN Stopped(x)
    ELSE IF x.m.declared /\ g.decision # None THEN Schedule(x)
    ELSE IF ~Strict(g)
         THEN UpdateAndSchedule(x, PaceIdle(ImplicitReady(g), worked))
    ELSE IF g.repairUsed \/ ~Available(g) THEN Pause(x)
    ELSE UpdateAndSchedule(x, [g EXCEPT !.phase = "ready", !.dispatch = None,
                                        !.decision = "repair"])

\* settled(): what a finished run leaves to be done.
SettleRun(x, successful, worked) ==
    LET g == x.g IN
    IF x.m.denied THEN Schedule([x EXCEPT !.m.denied = FALSE])
    ELSE IF ~g.active \/ ~successful THEN x
    ELSE IF ~Owned(x) THEN Stopped(x)
    ELSE IF /\ x.m.declared /\ g.decision # None
            /\ Strict(g) \/ g.decision \in Purposes \ {"ready"}
         THEN Schedule(x)
    ELSE IF ~Strict(g)
         THEN UpdateAndSchedule(x, PaceIdle(ImplicitReady(g), worked))
    ELSE IF g.repairUsed \/ ~Available(g) THEN Pause(x)
    ELSE UpdateAndSchedule(x, [g EXCEPT !.phase = "ready", !.dispatch = None,
                                        !.decision = "repair"])
-----------------------------------------------------------------------------
\* pi's events, as functions of the context.

\* before_agent_start for a prompt of the user.
PreparePrompt(x) ==
    LET y == IF ~Held(x) THEN x
             ELSE IF x.w = 0 THEN Stopped(x)
             ELSE IF x.g.owner = x.s /\ x.g.phase = "interrupted"
                  THEN Wrote(x, [x.g EXCEPT !.phase = "idle", !.gen = Fresh])
             ELSE Wrote(x, x.g)
    IN Reconcile([y EXCEPT !.m = [ClearContinuation(@, TRUE) EXCEPT
                     !.held = FALSE, !.pc = "prep", !.msg = None]])

\* before_agent_start for the checkpoint the host has queued.
PrepareCheckpoint(x) ==
    LET y == Reconcile([x EXCEPT !.m = [ClearContinuation(@, FALSE) EXCEPT
                !.pc = "prep", !.msg = x.m.queue, !.queue = None]])
    IN IF Actionable(y) THEN y ELSE Reject(y)

\* agent_end, after the turn_end that pauses the goal of an aborted turn.
EndRun(x, outcome) ==
    LET y == [x EXCEPT !.m.pc = "ended", !.m.after = "none"]
        z == [y EXCEPT !.m = ClearContinuation(@, FALSE)]
    IN IF x.m.denied THEN y
       ELSE IF ~x.g.active \/ Held(x) \/ x.m.ignore THEN z
       ELSE CASE outcome = "aborted" -> PauseActive(z)
              [] outcome = "network" -> [z EXCEPT !.m.after = "network"]
              [] outcome = "ok" -> [z EXCEPT !.m.after = "continue",
                                             !.m.retry = FALSE]
              [] OTHER -> z

\* agent_settled.
Finish(x, worked) ==
    LET idle  == [x EXCEPT !.m.pc = "idle", !.m.inRun = FALSE,
                           !.m.after = "none", !.m.abort = FALSE]
        quiet == [idle EXCEPT !.m.ignore = FALSE]
        ok    == x.m.after = "continue" /\ Actionable(x)
        y     == SettleRun(quiet, ok, worked)
        z     == IF x.m.ignore /\ ~Held(x) THEN Schedule(y) ELSE y
    IN IF x.m.denied THEN SettleRun(idle, FALSE, worked)
       ELSE IF ok THEN z
       ELSE [z EXCEPT !.err = TRUE,
               !.m.retry = @ \/ (x.m.after = "network" /\ Actionable(z))]

\* agent_settled of a run that was cancelled before agent_start.
CancelledStart(x) ==
    Finish(IF x.m.denied \/ x.m.ignore \/ Held(x) THEN x ELSE PauseActive(x),
           FALSE)
-----------------------------------------------------------------------------
\* A run starts when a checkpoint that was claimed is admitted.
Starts == goal.phase = "claimed" /\ goal'.phase = "running"

Become(x) ==
    /\ goal' = x.g
    /\ mem' = [mem EXCEPT ![x.s] = x.m]
    /\ failed' = [failed EXCEPT ![x.s] =
                    x.err \/ (@ /\ ~x.m.timer /\ ~x.m.cont)]

\* A step of the extension or of its host.
Step(x) ==
    /\ Become(x)
    /\ started' = IF Starts THEN started + 1 ELSE started
    /\ grant' = IF goal'.used > goal.used THEN x.s ELSE grant
    /\ UNCHANGED <<strict, acts>>

\* What the host makes of the user's message; what it changes in the goal
\* supersedes a claim.
UserStep(x) ==
    /\ Become(x)
    /\ grant' = IF goal' # goal THEN None ELSE grant
    /\ UNCHANGED <<strict, started>>

\* The user acts, which is bounded.
Act == acts < MaxActs /\ acts' = acts + 1
ActStep(x) == Act /\ UserStep(x)

At(s, pc) == mem[s].up /\ mem[s].pc = pc
InTurn(s) == At(s, "turn") /\ ~mem[s].abort
Calls(s)  == InTurn(s) /\ ~mem[s].denied /\ ~mem[s].declared /\ goal.active

\* The host prepares the user's prompt, or the queued checkpoint.
UserPrompt(s) ==
    /\ At(s, "idle")
    /\ \E w \in Writes : ActStep(PreparePrompt(Context(s, w)))
StartCheckpoint(s) ==
    /\ At(s, "idle") /\ mem[s].queue # None
    /\ \E w \in Writes : Step(PrepareCheckpoint(Context(s, w)))

\* agent_start, turn_start and message_start of a prompt.
BeginRun(s) ==
    /\ At(s, "prep")
    /\ \E w \in Writes :
         LET x == [Context(s, w) EXCEPT !.m.pc = "turn", !.m.msg = None]
             y == Message(Begin(x), mem[s].msg)
         IN IF mem[s].msg = None THEN UserStep(y) /\ UNCHANGED acts ELSE Step(y)

CancelStart(s) ==
    /\ At(s, "prep")
    /\ \E w \in UnreadWrites : Step(CancelledStart(
         [Context(s, w) EXCEPT !.m.msg = None]))

\* A checkpoint that found the host busy is delivered as a follow-up.
Deliver(s) ==
    /\ InTurn(s) /\ mem[s].queue # None
    /\ \E w \in Writes : Step(Admit(
         Turn([Context(s, w) EXCEPT !.m.queue = None]), mem[s].queue))

\* The user steers the run with another message.
Steer(s) ==
    /\ InTurn(s)
    /\ \E w \in Writes : ActStep(Message(Turn(Context(s, w)), None))

NextTurn(s) ==
    /\ InTurn(s)
    /\ \E w \in Writes : Step(Turn(Context(s, w)))

\* The agent declares how the goal goes on.
DeclareReady(s) ==
    /\ Calls(s)
    /\ \E w \in Writes : Step(Declare(Context(s, w), "ready", None))
DeclareWait(s) ==
    /\ Calls(s) /\ Strict(goal) /\ ~Expired(goal)
    /\ \E w \in Writes, wait \in IF goal.wait = None THEN NewWaits
                                  ELSE {Redeclared(goal.wait)} :
         Step(Declare(Context(s, w), "wait", wait))

\* The agent reports the goal complete or blocked.
StopGoal(s) ==
    /\ Calls(s)
    /\ \E w \in Writes : Step(PauseActive(Context(s, w)))

EndTurns(s) ==
    /\ At(s, "turn")
    /\ \E w \in Writes, o \in IF mem[s].abort THEN {"aborted"} ELSE Outcomes :
         Step(EndRun(Context(s, w), o))

\* Native retry, compaction or a queued message: the run goes on.
ContinueRun(s) ==
    /\ At(s, "ended") /\ ~mem[s].abort
    /\ \E w \in Writes : Step(Turn([Context(s, w) EXCEPT !.m.pc = "turn"]))

Settled(s) ==
    /\ At(s, "ended")
    /\ \E w \in Writes, worked \in IF Backoff THEN BOOLEAN ELSE {TRUE} :
         Step(Finish(Context(s, w), worked))

\* sendQueuedContinuation, once the host is idle and has no message waiting.
\* Another session may have stopped the goal behind this session's back; the
\* check on the copy in memory then lets the claim through.
SendContinuation(s) ==
    /\ At(s, "idle") /\ mem[s].cont /\ mem[s].queue = None
    /\ \E w \in Writes, sent \in IF "send" \in Mishaps THEN BOOLEAN ELSE {TRUE},
          stale \in IF Cardinality(Sessions) > 1 THEN BOOLEAN ELSE {FALSE} :
         LET x == [Context(s, w) EXCEPT !.m.cont = FALSE] IN
         Step(IF Actionable(x) \/ (stale /\ ~goal.active)
              THEN Claim(x, sent) ELSE x)

\* Mutant: the timer fires and nothing is scheduled.
TimerLapses(s) ==
    /\ mem[s].timer
    /\ \E w \in Writes :
         Step(Reconcile([Context(s, w) EXCEPT !.m.timer = FALSE]))

TimerFires(s) ==
    /\ mem[s].timer
    /\ \E w \in Writes :
         Step(Schedule([Context(s, w) EXCEPT !.m.timer = FALSE]))

\* The network retry: recover() saves an intent of its own and schedules it.
RetryFires(s) ==
    /\ mem[s].retry
    /\ \E w \in Writes :
         LET x == [Context(s, w) EXCEPT !.m.retry = FALSE] IN
         Step(IF ~Actionable(x) THEN x
              ELSE UpdateAndSchedule(x, [x.g EXCEPT !.phase = "ready",
                     !.dispatch = None, !.decision = "recovery"]))

\* A wake event with the token of the current wait; others are ignored.
Signal(s) ==
    /\ mem[s].up /\ goal.active /\ goal.owner = s
    /\ goal.phase = "waiting" /\ ~goal.wait.signalled
    /\ \E w \in Writes :
         LET x == Update(Context(s, w), [goal EXCEPT !.wait.signalled = TRUE])
         IN Step(IF x.err THEN x ELSE Schedule(x))

\* Compaction, a change of focus or of the settings: schedule().
Reschedule(s) ==
    /\ mem[s].up
    /\ \E w \in Writes : Step(Schedule(Context(s, w)))

\* /goal-resume, and the pause keys: pause the goal, or stop the turn only.
Resume(s) ==
    /\ mem[s].up /\ Act
    /\ \E w \in Writes :
         /\ Become(ResumeGoal(Context(s, w)))
         /\ LET renewed == Limit > 0 /\ w > 0 IN
            /\ started' = IF renewed THEN 0 ELSE started
            /\ grant' = IF renewed THEN None ELSE grant
         /\ UNCHANGED strict
UserPause(s) ==
    /\ mem[s].up
    /\ \E w \in UnreadWrites :
         ActStep(PauseActive([Context(s, w) EXCEPT
           !.m.held = FALSE, !.m.abort = mem[s].pc # "idle"]))
Interrupt(s) ==
    /\ mem[s].up /\ goal.active
    /\ \E w \in Writes :
         LET x == Context(s, w)
             y == [x EXCEPT !.m = [ClearContinuation(@, TRUE) EXCEPT
                     !.held = TRUE, !.ignore = TRUE,
                     !.abort = mem[s].pc # "idle"]]
         IN ActStep(Update(y, [goal EXCEPT !.phase = "interrupted",
              !.gen = Fresh, !.dispatch = None, !.decision = None,
              !.wait = None]))

\* A session ends, with or without a goodbye; a session starts.
Crash(s) ==
    /\ "crash" \in Mishaps /\ mem[s].up /\ Act
    /\ mem' = [mem EXCEPT ![s] = Down]
    /\ failed' = [failed EXCEPT ![s] = FALSE]
    /\ UNCHANGED <<goal, strict, started, grant>>
StartSession(s) ==
    /\ ~mem[s].up
    /\ \E w \in Writes : Step(Restore([Context(s, w) EXCEPT !.m.up = TRUE]))

\* Time passes, and the user changes the setting.
WaitDue ==
    /\ goal.wait # None /\ goal.wait.checks # None /\ ~goal.wait.due
    /\ goal' = [goal EXCEPT !.wait.due = TRUE]
    /\ UNCHANGED <<mem, strict, acts, started, grant, failed>>
WaitExpires ==
    /\ goal.wait # None /\ ~goal.wait.expired
    /\ goal' = [goal EXCEPT !.wait.expired = TRUE]
    /\ UNCHANGED <<mem, strict, acts, started, grant, failed>>
IdlePasses ==
    /\ goal.idle = "delayed"
    /\ goal' = [goal EXCEPT !.idle = "passed"]
    /\ UNCHANGED <<mem, strict, acts, started, grant, failed>>
SetStrict ==
    /\ strict' \in StrictChoices \ {strict} /\ Act
    /\ UNCHANGED <<goal, mem, started, grant, failed>>

\* replaceGoal() and kickoff(): the goal is created at the prompt, and its
\* first run queued, or by a run of the user.
Init ==
    /\ strict \in StrictChoices
    /\ started = 0 /\ grant = None /\ acts = 0
    /\ failed = [s \in Sessions |-> FALSE]
    /\ \E inRun \in BOOLEAN :
         LET kick == ~inRun /\ Limit > 0 IN
         /\ goal = [active |-> TRUE, owner |-> Creator, gen |-> 0, used |-> 0,
                    phase |-> IF kick THEN "ready" ELSE "idle",
                    decision |-> IF kick THEN "kickoff" ELSE None,
                    wait |-> None, dispatch |-> None, repairUsed |-> FALSE,
                    idle |-> "none"]
         /\ mem = [s \in Sessions |->
               IF s # Creator THEN Down
               ELSE [Down EXCEPT !.up = TRUE, !.inRun = inRun,
                       !.pc = IF inRun THEN "turn" ELSE "idle",
                       !.armed = IF kick THEN 0 ELSE None, !.cont = kick]]

Session(s) ==
    \/ UserPrompt(s) \/ StartCheckpoint(s) \/ BeginRun(s) \/ CancelStart(s)
    \/ Deliver(s) \/ Steer(s) \/ NextTurn(s)
    \/ DeclareReady(s) \/ DeclareWait(s) \/ StopGoal(s)
    \/ EndTurns(s) \/ ContinueRun(s) \/ Settled(s)
    \/ SendContinuation(s) \/ TimerFires(s) \/ RetryFires(s)
    \/ Signal(s) \/ Reschedule(s)
    \/ Resume(s) \/ UserPause(s) \/ Interrupt(s)
    \/ Crash(s) \/ StartSession(s)

Next == (\E s \in Sessions : Session(s))
        \/ WaitDue \/ WaitExpires \/ IdlePasses \/ SetStrict

\* The event loop runs the timers that are due, the host starts what it was
\* given and its runs end, and time passes.
Fairness ==
    /\ WF_vars(WaitExpires) /\ WF_vars(IdlePasses)
    /\ \A s \in Sessions :
         /\ WF_vars(StartCheckpoint(s)) /\ WF_vars(BeginRun(s))
         /\ WF_vars(EndTurns(s)) /\ SF_vars(Settled(s))
         /\ WF_vars(SendContinuation(s))
         /\ WF_vars(TimerFires(s)) /\ WF_vars(RetryFires(s))

Spec == Init /\ [][Next]_vars /\ Fairness
-----------------------------------------------------------------------------
TypeOK ==
    /\ goal \in Goal /\ mem \in [Sessions -> Memory]
    /\ strict \in StrictChoices /\ started \in Nat /\ acts \in 0 .. MaxActs
    /\ grant \in Sessions \cup {None}
    /\ failed \in [Sessions -> BOOLEAN]

\* The allowance: no interleaving of sessions, crashes, resumes and stale
\* checkpoints starts more autonomous runs than the user has allowed, or one
\* that was not paid for.
Allowed == INSTANCE Allowance WITH paid <- goal.used, started <- started
AllowanceKept == Allowed!Spec

\* A checkpoint that the user has superseded (by a message, a pause, an
\* interrupt or a resume, in this session or another) never starts a run.
Authorised == \A s \in Sessions : Starts /\ mem'[s] # mem[s] => grant = s
OnlyAuthorisedRuns == [][Authorised]_vars

\* The prompt that repairs a missing declaration is not repeated until the
\* goal has been dispatched for another reason or the user has stepped in.
RepairOnce ==
    [][goal'.used > goal.used /\ goal.decision = "repair" => ~goal.repairUsed]_vars

\* Whatever the handlers save, in any order, is a state that reading it back
\* accepts: normalizeGoalScheduler turns any other into an interrupted goal
\* with its allowance spent.
SavesAccepted ==
    /\ goal.phase \in {"claimed", "running"} => goal.dispatch # None
    /\ goal.phase = "ready" => goal.decision \in Purposes
    /\ goal.phase = "waiting" => goal.wait # None /\ goal.decision = "wait"

\* While the owner's host is idle, a saved intent to go on always has
\* something that will act on it, unless a run or a write has failed.
Intent(s) == /\ goal.active /\ goal.owner = s
             /\ goal.phase \in {"ready", "waiting"}
NoStrandedIntent ==
    \A s \in Sessions :
      At(s, "idle") /\ Intent(s) /\ ~failed[s] /\ ~mem[s].held =>
        \/ mem[s].cont /\ mem[s].armed = goal.gen
        \/ mem[s].timer \/ mem[s].retry \/ mem[s].queue # None

\* What a goal file says about itself in every reachable state: it is accepted,
\* a repair is scheduled only once, and only a wait with checks polls.
GoalSound(g) ==
    /\ g.phase \in {"claimed", "running"} => g.dispatch # None
    /\ g.phase = "ready" => g.decision \in Purposes
    /\ g.phase = "ready" /\ g.decision = "repair" => ~g.repairUsed
    /\ g.phase = "waiting" => g.wait # None /\ g.decision = "wait"
    /\ g.wait # None /\ g.wait.due => g.wait.checks # None

\* A claim is paid for, and whoever holds its checkpoint was granted it.
Paid == /\ started <= goal.used
        /\ goal.phase = "claimed" => started < goal.used
Granted ==
    \A s \in Sessions : \A c \in {mem[s].queue, mem[s].msg} \ {None} :
        goal.active /\ goal.phase = "claimed" /\ c.dispatch = goal.dispatch
            => grant = s

SchedulerInv == TypeOK /\ GoalSound(goal) /\ Paid /\ Granted

\* The memory of a session, by where its host stands: a run that is under way
\* or cancelled has no timer, an interrupted session schedules nothing, and the
\* turn it interrupts is aborted.
MemoryOK(m) ==
    /\ m.pc \in {"idle", "prep"} => ~m.inRun
    /\ m.pc \in {"turn", "ended"} => m.inRun \/ m.denied
    /\ m.pc = "idle" => ~m.denied
    /\ m.inRun \/ m.denied => ~m.cont /\ ~m.timer
    /\ m.held => ~m.cont /\ ~m.timer /\ ~m.retry
    /\ m.held /\ m.pc # "idle" => m.abort

\* What schedule() queued is armed for the intent that is saved, and an
\* interrupt that left an intent in the file was reported to fail.
Scheduled(s) ==
    Intent(s) => /\ mem[s].cont => mem[s].armed = goal.gen \/ mem[s].timer
                 /\ mem[s].held => failed[s]

IntentInv ==
    /\ \A s \in Sessions : MemoryOK(mem[s]) /\ Scheduled(s)
    /\ NoStrandedIntent

\* A saved intent is acted on in the end.
IntentServed ==
    \A s \in Sessions :
      Intent(s) ~> ~Intent(s) \/ ~mem[s].up \/ failed[s] \/ mem[s].held
=============================================================================
