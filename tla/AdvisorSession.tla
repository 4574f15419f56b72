--------------------------- MODULE AdvisorSession ---------------------------
(***************************************************************************)
(* The budget, gates and advice of an Advisor session                      *)
(* (extensions/advisor/src: session-state.ts, tools/, commands/).          *)
(*                                                                         *)
(* Four things spend the calls of a session: the ask_advisor tool, which   *)
(* reserves a call when Pi announces it and is screened before it spends   *)
(* it, the manual /advisor command, the loop gate and the turn gate.  A    *)
(* task is one of these, or the recording of an outcome; between two of    *)
(* its awaits it is one step.                                              *)
(***************************************************************************)
EXTENDS Naturals, FiniteSets

CONSTANTS
    Tasks,           \* tool calls, commands and handlers under way
    Questions,       \* normalized questions
    maxCalls,        \* advisorMaxCallsPerSession
    loopThreshold,   \* repetitions that call the loop gate
    everyTurns,      \* interval of the turn gate
    overrideWindow,  \* turns in which a skipped question passes
    Works,           \* bound: what is begun
    MaxStarts,       \* bound: how often
    MaxTurns,        \* bound: turns of a session
    MaxSessions,     \* bound: session starts
    None             \* absent

Jobs == {"ask", "manual", "loop", "turn", "outcome"}

AdvisorAssumption ==
    /\ IsFiniteSet(Tasks) /\ IsFiniteSet(Questions)
    /\ maxCalls \in Nat /\ loopThreshold \in Nat /\ everyTurns \in Nat \ {0}
    /\ overrideWindow \in Nat /\ Works \subseteq Jobs
    /\ MaxStarts \in Nat /\ MaxTurns \in Nat /\ MaxSessions \in Nat
    /\ None \notin Tasks \cup Questions

VARIABLES
    session,  \* AdvisorSessionState
    task,     \* what each task is doing
    starts,   \* how many tasks have begun; an advice has the number of its task
    told,     \* history: outcomes that reached the log, by advice
    begun     \* session starts so far

advars == <<session, task, starts, told, begun>>

\* consumed, reservations: #consumedCalls, #callReservations.  count: equal
\* tool calls in a row.  handoff: advice whose files may be attached.
\* issued: question of each advice.  skip: the question skipped last and its
\* turn.  turn, since: #sessionTurnOrdinal, #turnsSinceConsultation.
FreshSession ==
    [consumed |-> 0, reservations |-> {}, count |-> 0, blocked |-> FALSE,
     handoff |-> FALSE, issued |-> {}, pending |-> {}, reported |-> {},
     skip |-> [question |-> None, turn |-> 0], turn |-> 0, since |-> 0]

Idle == [pc |-> "idle", job |-> None, no |-> 0, question |-> None, aborted |-> FALSE]

Numbers == 1 .. MaxStarts

Session ==
    [consumed: Nat, reservations: SUBSET Tasks, count: Nat, blocked: BOOLEAN,
     handoff: BOOLEAN, issued: SUBSET [no: Numbers, question: Questions \cup {None}],
     pending: SUBSET Numbers, reported: SUBSET Numbers,
     skip: [question: Questions \cup {None}, turn: Nat], turn: Nat, since: Nat]

Task ==
    [pc: {"idle", "reserved", "lost", "screen", "allowed", "consult", "dialog", "gate",
          "classify", "append"},
     job: Jobs \cup {None}, no: 0 .. MaxStarts, question: Questions \cup {None},
     aborted: BOOLEAN]

TypeOK ==
    /\ session \in Session /\ task \in [Tasks -> Task]
    /\ starts \in 0 .. MaxStarts /\ told \in [Numbers -> Nat] /\ begun \in Nat

Init ==
    /\ session = FreshSession
    /\ task = [t \in Tasks |-> Idle]
    /\ starts = 0 /\ begun = 0
    /\ told = [a \in Numbers |-> 0]

---------------------------------------------------------------------------
Goes(t, r) == task' = [task EXCEPT ![t] = r]
Ends(t)    == Goes(t, Idle)

canConsult(s, t) == s.consumed + Cardinality(s.reservations \ {t}) < maxCalls

reserve(s, t) == [s EXCEPT !.reservations = @ \cup {t}]
release(s, t) == [s EXCEPT !.reservations = @ \ {t}]
consume(s, t) == [s EXCEPT !.reservations = @ \ {t}, !.consumed = @ + 1]

Other == UNCHANGED <<told, begun>>

Begin(t, job) ==
    /\ job \in Works /\ task[t].pc = "idle" /\ starts < MaxStarts
    /\ starts' = starts + 1 /\ Other

New(job) == [Idle EXCEPT !.job = job, !.no = starts + 1]

---------------------------------------------------------------------------
(* ask_advisor.                                                            *)

\* tool_call: the call is reserved, or blocked.
Announce(t) ==
    /\ Begin(t, "ask") /\ ~session.blocked
    /\ \E q \in Questions :
          IF canConsult(session, None)
          THEN /\ session' = reserve(session, t)
               /\ Goes(t, [New("ask") EXCEPT !.pc = "reserved", !.question = q])
          ELSE UNCHANGED <<session, task>>

\* Another handler blocks it, or the turn is aborted, and it is never executed.
NeverExecuted(t) ==
    /\ task[t].pc = "reserved" /\ Goes(t, [task[t] EXCEPT !.pc = "lost"])
    /\ UNCHANGED <<session, starts>> /\ Other

\* What the screening does without the classifier: a forced call and a question
\* that was just skipped pass, and one that was answered is skipped.
JustSkipped(q) == /\ session.skip.question = q
                  /\ session.turn - session.skip.turn <= overrideWindow
Answered(q) == \E a \in session.issued : a.question = q

Skipped(s, t) ==
    [release(s, t) EXCEPT !.skip = [question |-> task[t].question, turn |-> s.turn]]

\* execute: the reservation is there, or is made now; then the screening.
Execute(t) ==
    LET q == task[t].question
        held == reserve(session, t)
    IN  /\ task[t].pc = "reserved" /\ UNCHANGED starts /\ Other
        /\ \/ session' = release(session, t) /\ Ends(t)    \* configuration, same model
           \/ /\ t \notin session.reservations /\ ~canConsult(session, None)
              /\ UNCHANGED session /\ Ends(t)
           \/ /\ t \in session.reservations \/ canConsult(session, None)
              /\ IF ~canConsult(held, t)
                 THEN session' = release(held, t) /\ Ends(t)
                 ELSE \E force \in BOOLEAN :
                    IF force \/ JustSkipped(q)
                    THEN session' = held /\ Goes(t, [task[t] EXCEPT !.pc = "allowed"])
                    ELSE IF Answered(q)
                    THEN session' = Skipped(held, t) /\ Ends(t)
                    ELSE session' = held /\ Goes(t, [task[t] EXCEPT !.pc = "screen"])

\* The verdict: the budget is looked at again before it is spent, and the
\* one-shot handoff is claimed.
Screened(t) ==
    /\ task[t].pc \in {"screen", "allowed"} /\ UNCHANGED starts /\ Other
    /\ \/ task[t].pc = "screen" /\ session' = Skipped(session, t) /\ Ends(t)
       \/ session' = release(session, t) /\ Ends(t)      \* aborted
       \/ /\ ~canConsult(session, t) /\ session' = release(session, t) /\ Ends(t)
       \/ /\ canConsult(session, t)
          /\ \E attach \in BOOLEAN :
                IF attach /\ ~session.handoff
                THEN session' = release(session, t) /\ Ends(t)
                ELSE /\ session' = [consume(session, t) EXCEPT
                                       !.since = 0,
                                       !.handoff = IF attach THEN FALSE ELSE @]
                     /\ Goes(t, [task[t] EXCEPT !.pc = "consult"])

---------------------------------------------------------------------------
(* The manual command.                                                     *)

Manual(t) ==
    /\ Begin(t, "manual") /\ UNCHANGED session
    /\ IF canConsult(session, None)
       THEN \E q \in Questions : Goes(t, [New("manual") EXCEPT !.pc = "dialog", !.question = q])
       ELSE UNCHANGED task

\* A newer request replaces the ones before it.
Submit(t) ==
    /\ task[t].pc = "dialog" /\ UNCHANGED starts /\ Other
    /\ \/ UNCHANGED session /\ Ends(t)                  \* cancelled
       \/ /\ IF canConsult(session, None)
             THEN /\ session' = consume(session, None)
                  /\ task' = [u \in Tasks |->
                        IF u = t THEN [task[t] EXCEPT !.pc = "consult"]
                        ELSE IF task[u].job = "manual" /\ task[u].pc = "consult"
                        THEN [task[u] EXCEPT !.aborted = TRUE] ELSE task[u]]
             ELSE UNCHANGED session /\ Ends(t)

\* The answer: advice is issued under the number of its task.
Answer(t) ==
    LET r == task[t]
        advice == [no |-> r.no, question |-> r.question]
    IN  /\ r.pc = "consult" /\ r.job \in {"ask", "manual"} /\ Ends(t)
        /\ UNCHANGED starts /\ Other
        /\ \/ /\ ~r.aborted
              /\ session' = [session EXCEPT !.issued = @ \cup {advice}, !.handoff = TRUE,
                                            !.since = IF r.job = "manual" THEN 0 ELSE @]
           \/ session' = [session EXCEPT !.since = IF r.job = "manual" /\ ~r.aborted
                                                   THEN 0 ELSE @]

---------------------------------------------------------------------------
(* The gates.                                                              *)

\* tool_call of another tool: after enough equal ones the loop gate asks.
ToolCall(t) ==
    /\ Begin(t, "loop") /\ ~session.blocked
    /\ \E same \in BOOLEAN :
          LET s == [session EXCEPT !.count = IF same THEN @ + 1 ELSE 1]
          IN  IF s.count < loopThreshold
              THEN session' = s /\ UNCHANGED task
              ELSE IF canConsult(s, None)
              THEN /\ session' = [consume(s, None) EXCEPT !.since = 0]
                   /\ Goes(t, [New("loop") EXCEPT !.pc = "gate"])
              ELSE \E block \in BOOLEAN :
                      session' = [s EXCEPT !.blocked = block] /\ UNCHANGED task

\* proceed, revise, or blocked and failed with each failure mode.
GateDecides(t) ==
    /\ task[t].pc = "gate" /\ Ends(t) /\ UNCHANGED starts /\ Other
    /\ \/ session' = [session EXCEPT !.count = 0]
       \/ UNCHANGED session
       \/ session' = [session EXCEPT !.blocked = TRUE]

\* turn_end.  The handler is awaited, so one of them runs.
TurnEnd(t) ==
    LET s == [session EXCEPT !.turn = @ + 1, !.since = @ + 1]
    IN  /\ Begin(t, "turn") /\ session.turn < MaxTurns
        /\ \A u \in Tasks : task[u].job # "turn"
        /\ session' = s
        /\ IF s.since % everyTurns = 0 /\ ~s.blocked /\ canConsult(s, None)
           THEN Goes(t, [New("turn") EXCEPT !.pc = "classify"])
           ELSE UNCHANGED task

\* Mutant: the budget is looked at before the classifier is asked only.
ClassifiedAnyway(t) ==
    /\ task[t].pc = "classify" /\ UNCHANGED starts /\ Other
    /\ \/ UNCHANGED session /\ Ends(t)
       \/ session' = consume(session, None) /\ Goes(t, [task[t] EXCEPT !.pc = "consult"])

\* The budget is looked at again after the classifier has answered.
Classified(t) ==
    /\ task[t].pc = "classify" /\ UNCHANGED starts /\ Other
    /\ \/ UNCHANGED session /\ Ends(t)
       \/ /\ canConsult(session, None)
          /\ session' = consume(session, None)
          /\ Goes(t, [task[t] EXCEPT !.pc = "consult"])

TurnAnswer(t) ==
    /\ task[t].pc = "consult" /\ task[t].job = "turn" /\ Ends(t)
    /\ UNCHANGED starts /\ Other
    /\ \/ session' = [session EXCEPT !.since = 0]
       \/ UNCHANGED session

---------------------------------------------------------------------------
(* record_advisor_outcome.                                                 *)

RecordOutcome(t) ==
    /\ Begin(t, "outcome")
    /\ \E a \in session.issued :
          /\ a.no \notin session.reported \cup session.pending
          /\ session' = [session EXCEPT !.pending = @ \cup {a.no}]
          /\ Goes(t, [New("outcome") EXCEPT !.pc = "append", !.no = a.no])

Appended(t) ==
    LET a == task[t].no
        open == a \in session.pending
        s == [session EXCEPT !.pending = @ \ {a}]
    IN  /\ task[t].pc = "append" /\ Ends(t) /\ UNCHANGED <<starts, begun>>
        /\ \/ session' = s /\ UNCHANGED told             \* it failed
           \/ /\ session' = IF open THEN [s EXCEPT !.reported = @ \cup {a}] ELSE s
              /\ told' = [told EXCEPT ![a] = @ + 1]

---------------------------------------------------------------------------
(* Pi's session.                                                           *)

\* agent_settled: what is still reserved was never executed.
Settled ==
    /\ \A t \in Tasks : task[t].pc \in {"idle", "lost", "dialog", "consult"}
    /\ \A t \in Tasks : task[t].pc = "consult" => task[t].job = "manual"
    /\ \E t \in Tasks : task[t].pc = "lost"
    /\ session' = [session EXCEPT !.reservations = {}]
    /\ task' = [t \in Tasks |-> IF task[t].pc = "lost" THEN Idle ELSE task[t]]
    /\ UNCHANGED starts /\ Other

\* session_shutdown and session_start: the tasks of the old session end later.
NewSession ==
    /\ begun < MaxSessions /\ begun' = begun + 1
    /\ session' = FreshSession
    /\ task' = [t \in Tasks |->
          IF task[t].pc \in {"lost", "reserved"} THEN Idle
          ELSE IF task[t].job = "manual" THEN [task[t] EXCEPT !.aborted = TRUE]
          ELSE task[t]]
    /\ UNCHANGED <<starts, told>>

---------------------------------------------------------------------------
Step(t) ==
    \/ NeverExecuted(t) \/ Execute(t) \/ Screened(t) \/ Submit(t) \/ Answer(t)
    \/ GateDecides(t) \/ Classified(t) \/ TurnAnswer(t) \/ Appended(t)

Start(t) == Announce(t) \/ Manual(t) \/ ToolCall(t) \/ TurnEnd(t) \/ RecordOutcome(t)

Next == (\E t \in Tasks : Start(t) \/ Step(t)) \/ Settled \/ NewSession

Spec == Init /\ [][Next]_advars

---------------------------------------------------------------------------
(* Properties.                                                             *)

Affords(s, k) ==
    /\ s.consumed + Cardinality(s.reservations) <= maxCalls
    /\ \A t \in s.reservations : k[t].pc \in {"reserved", "lost", "screen", "allowed"}

\* Whatever is screened, skipped, aborted, replaced or refused meanwhile, the
\* calls spent and reserved stay within the budget of the session, and only a
\* call that may still be executed keeps a reservation (session-state.ts,
\* canConsult; register-ask-advisor.ts; jev-turn-gate.ts).
BudgetKept == Affords(session, task)

\* An outcome is logged once for an advice, however many recordings of it run
\* at the same time or fail, and whatever a task of an earlier session still
\* does (reserveAdvice, commitAdvice, releaseAdvice).
OutcomeOnce == \A a \in Numbers : told[a] <= 1

\* Why: a task has a number that no other has and no outcome; of an advice that
\* was issued a recording is pending, or its outcome is reported, or neither.
Counted(s, k, n, f) ==
    /\ \A t \in Tasks : k[t].pc # "idle" => k[t].no \in 1 .. n /\ f[k[t].no] = 0
    /\ \A t, u \in Tasks : t # u /\ k[t].pc # "idle" /\ k[u].pc # "idle" => k[t].no # k[u].no
    /\ \A a \in s.issued : a.no \in 1 .. n /\ (f[a.no] = 0 \/ a.no \in s.reported)
    /\ \A t \in Tasks, a \in s.issued :
          k[t].pc # "idle" /\ k[t].no = a.no => k[t].pc = "append" /\ a.no \in s.pending
    /\ \A a \in Numbers : f[a] <= 1 /\ (a > n => f[a] = 0)
AdvisorInv == TypeOK /\ BudgetKept /\ Counted(session, task, starts, told)
=============================================================================
