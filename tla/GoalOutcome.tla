----------------------------- MODULE GoalOutcome -----------------------------
(***************************************************************************)
(* How the agent ends its work on a goal (extensions/goal): update_goal    *)
(* with "complete" asks an auditor, with "blocked" a blocker oracle, and   *)
(* with "paused" nobody (goal-completion.ts, goal-core-tools.ts,           *)
(* goal-oracle.ts, the tool_call and turn handlers of goal-events.ts).     *)
(*                                                                         *)
(* One process with one goal.  Its calls of update_goal wait for a model   *)
(* or for the user's choice, and meanwhile the user pauses, edits,         *)
(* unfocuses or clears the goal, or replaces the session, whose calls then *)
(* come back to another one.  What the oracle said is in the ledger; that  *)
(* it was not yet followed is only in memory.                              *)
(*                                                                         *)
(* The copies of the record and the sessions that write them are           *)
(* GoalStore's, stale dispatches GoalScheduler's.  Reports, messages and   *)
(* what the consulted models do are left out.                              *)
(***************************************************************************)
EXTENDS Naturals, Sequences, FiniteSets

CONSTANTS
  Tasks,       \* calls of update_goal under way
  Instances,   \* of which a behaviour takes one: does the oracle run and after how many
               \* failures is it left out, is the auditor disabled, may a write fail
               \* (appends), how many audits begin, and how much the user does (acts)
  None

VARIABLES
  inst,
  goal,     \* its status, its revision without charges of usage, and its shape: the
            \* objective and tasks, as a fingerprint
  focus,    \* is the goal in focus, and focusRevision
  turn,     \* is a turn running; its buffer: open, has it a record, the events in it
  stopped,  \* turnStoppedFor this turn
  armed,    \* armedByGoalId: the fingerprint whose advice was not yet followed
  advice,   \* the ledger: what the oracle said of each fingerprint
  audits,   \* completion attempts, in order
  active,   \* activeAudit: an index of audits, or 0
  calls,    \* calls of update_goal that wait
  modal,    \* goalModalDepth
  tried,    \* history: fingerprints for which work was done since the advice came
  acts

govars == <<inst, goal, focus, turn, stopped, armed, advice, audits, active, calls, modal, tried,
            acts>>

Shapes == 0..(CHOOSE n \in {i.acts : i \in Instances} : \A i \in Instances : i.acts <= n)
Statuses == {"active", "paused", "blocked", "budget_limited", "complete", "archived"}
Dispositions == {"actionable", "needs_human", "insufficient_context"}
Verdicts == {"approved", "disapproved", "error", "user_aborted", "disabled"}
Audits == [phase : {"running", "awaiting-choice", "settled", "died"}, aborted : BOOLEAN,
           rev : Nat, shape : Nat, ends : Nat, verdict : Verdicts \cup {None}]
Calls == [at : {"oracle", "audit", "dialog"}, live : BOOLEAN, focus : Nat, shape : Nat, audit : Nat]

OutcomeAssumption ==
  /\ Instances \subseteq [oracle : BOOLEAN, failures : Nat, disabled : BOOLEAN,
                          appends : {{TRUE}, BOOLEAN}, audits : Nat, acts : Nat]
  /\ None \notin Dispositions /\ None \notin Verdicts /\ None \notin Calls

GOTypeOK ==
  /\ goal \in [status : Statuses, rev : Nat, shape : Shapes]
  /\ focus \in [on : BOOLEAN, rev : Nat]
  /\ turn \in [runs : BOOLEAN, open : BOOLEAN, record : BOOLEAN, events : SUBSET Shapes]
  /\ stopped \in BOOLEAN /\ armed \in Shapes \cup {None} /\ tried \subseteq Shapes
  /\ advice \in [Shapes -> [result : Dispositions \cup {None}, results : Nat, failed : Nat,
                         followed : BOOLEAN]]
  /\ audits \in Seq(Audits) /\ \A n \in DOMAIN audits : audits[n].shape \in Shapes
  /\ active \in 0..Len(audits) /\ modal \in Nat
  /\ \A t \in Tasks : calls[t] # None =>
       calls[t] \in Calls /\ calls[t].shape \in Shapes /\ calls[t].audit \in 0..Len(audits)

GOInit ==
  /\ inst \in Instances
  /\ goal = [status |-> "active", rev |-> 1, shape |-> 0]
  /\ focus = [on |-> TRUE, rev |-> 0]
  /\ turn = [runs |-> FALSE, open |-> FALSE, record |-> FALSE, events |-> {}] /\ stopped = FALSE
  /\ armed = None /\ tried = {}
  /\ advice = [f \in Shapes |-> [result |-> None, results |-> 0, failed |-> 0, followed |-> FALSE]]
  /\ audits = <<>> /\ active = 0 /\ calls = [t \in Tasks |-> None] /\ modal = 0
  /\ acts = 0

----------------------------------------------------------------------------
(* What the handlers share                                                 *)

Unsettled(n) == n # 0 /\ audits[n].phase \in {"running", "awaiting-choice"}

\* settle: the first terminal event is appended, or lost, and no other follows.
Settling(x, verdict, appended) ==
  [x EXCEPT !.phase = "settled", !.verdict = IF appended THEN verdict ELSE @,
            !.ends = IF appended THEN @ + 1 ELSE @]
Settled(n, verdict, appended) == [audits EXCEPT ![n] = Settling(@, verdict, appended)]

Cancelled(n, appended) == IF Unsettled(n) THEN Settled(n, "error", appended) ELSE audits

\* assignFocusedGoalId, invalidateSession: whoever waits is no longer current.
CancelActive == \E ok \in inst.appends : audits' = Cancelled(active, ok) /\ active' = 0
Refocus(on) == focus' = [on |-> on, rev |-> focus.rev + 1] /\ CancelActive

\* Mutant: the goal is compared and the revision of the focus is not.
CurrentGoal(t) == focus.on

Current(t) == focus.on /\ focus.rev = calls[t].focus
AuditCurrent(t) == Current(t) /\ active = calls[t].audit /\ Unsettled(active)

\* indexLedgerEvent of oracle_followup_attempted.
Followed(events) == [f \in Shapes |-> [advice[f] EXCEPT !.followed = @ \/ f \in events]]

\* flushTurn: a buffer without a record is closed, and the events in it are gone.
Flushed(written) ==
  IF turn.open /\ (turn.record \/ written) THEN Followed(turn.events) ELSE advice
Closed == [turn EXCEPT !.open = FALSE, !.record = FALSE, !.events = {}]

\* The tool_call handler: any progress tool, update_goal among them, is an
\* attempt to follow the advice that is armed.
Attempted == IF focus.on /\ armed # None THEN {armed} ELSE {}
Disarmed == IF focus.on THEN None ELSE armed

\* The ledger once update_goal has flushed the turn's buffer.
Told ==
  IF ~turn.open THEN Followed(Attempted)
  ELSE IF turn.record THEN Followed(turn.events \cup Attempted) ELSE advice

NoLiveCall == \A t \in Tasks : calls[t] # None => ~calls[t].live
CanCall == turn.runs /\ ~stopped /\ NoLiveCall
Waits(t, at, audit) ==
  calls' = [calls EXCEPT ![t] = [at |-> at, live |-> TRUE, focus |-> focus.rev,
                                 shape |-> goal.shape, audit |-> audit]]
Returns(t) == calls' = [calls EXCEPT ![t] = None]

Edited == goal' = [goal EXCEPT !.rev = @ + 1, !.shape = @ + 1]
Becomes(status) == goal' = [goal EXCEPT !.status = status, !.rev = @ + 1]

(* commitBlocked does not look at the status the goal has by now.          *)
CommitBlocked == Becomes("blocked") /\ stopped' = TRUE

----------------------------------------------------------------------------
(* Turns and other tools                                                   *)

Act == acts < inst.acts /\ acts' = acts + 1
KeepAudits == UNCHANGED <<audits, active, modal>>
KeepGoal == UNCHANGED <<goal, focus>>

(* turn_start: a buffer that an aborted turn left is flushed first.        *)
TurnStart ==
  /\ ~turn.runs /\ NoLiveCall
  /\ turn' = [runs |-> TRUE, open |-> TRUE, record |-> FALSE, events |-> {}]
  /\ stopped' = FALSE /\ advice' = Flushed(FALSE)
  /\ UNCHANGED <<inst, armed, calls, tried, acts>> /\ KeepGoal /\ KeepAudits

(* turn_end; an aborted or failed turn neither archives nor flushes.  A    *)
(* complete goal leaves the pool and the focus.                            *)
TurnEnd ==
  /\ turn.runs /\ NoLiveCall
  /\ \/ /\ turn' = [turn EXCEPT !.runs = FALSE] /\ UNCHANGED <<advice, goal, focus, audits, active>>
     \/ /\ turn' = [Closed EXCEPT !.runs = FALSE]
        /\ \E charged \in BOOLEAN : advice' = Flushed(charged \/ goal.status = "complete")
        /\ IF focus.on /\ goal.status = "complete"
           THEN Becomes("archived") /\ Refocus(FALSE)
           ELSE UNCHANGED <<goal, focus, audits, active>>
  /\ UNCHANGED <<inst, stopped, armed, calls, modal, tried, acts>>

(* A read, an edit or a command of the agent, or update_goal_task.         *)
(* tool_execution_end charges it, and thereby buffers the record, unless   *)
(* it took no time.                                                        *)
Work ==
  /\ CanCall
  /\ armed' = Disarmed /\ tried' = tried \cup (IF inst.oracle THEN {goal.shape} ELSE {})
  /\ \E changes, charged \in BOOLEAN :
       /\ turn' = [turn EXCEPT !.events = IF turn.open THEN @ \cup Attempted ELSE @,
                               !.record = turn.open /\ (@ \/ changes \/ charged)]
       /\ charged \/ changes => goal.status = "active"
       /\ IF changes THEN Act /\ focus.on /\ Edited ELSE UNCHANGED <<goal, acts>>
  /\ advice' = IF turn.open THEN advice ELSE Followed(Attempted)
  /\ UNCHANGED <<inst, stopped, focus, calls>> /\ KeepAudits

----------------------------------------------------------------------------
(* update_goal                                                             *)

UpdateGoal == CanCall /\ armed' = Disarmed /\ turn' = Closed

(* "blocked": refused, committed, or put to the oracle.                    *)
Blocked(t) ==
  LET said == Told[goal.shape]
      refused == said.result = "actionable" /\ ~said.followed /\ Disarmed = None
      given == said.failed >= inst.failures
  IN  /\ calls[t] = None /\ UpdateGoal
      /\ \/ /\ ~(focus.on /\ goal.status = "active") \/ (inst.oracle /\ refused)
            /\ advice' = Told /\ UNCHANGED <<goal, stopped, calls>>
         \/ /\ focus.on /\ goal.status = "active" /\ CommitBlocked /\ UNCHANGED calls
            /\ \/ advice' = Told /\ (inst.oracle => said.result # None /\ ~refused)
               \/ /\ inst.oracle /\ said.result = None /\ given
                  /\ advice' = [Told EXCEPT ![goal.shape].failed = @ + 1]
         \/ /\ focus.on /\ goal.status = "active" /\ inst.oracle /\ said.result = None /\ ~given
            /\ advice' = Told /\ Waits(t, "oracle", 0) /\ UNCHANGED <<goal, stopped>>
      /\ UNCHANGED <<inst, focus, tried, acts>> /\ KeepAudits

\* oracle_result.
Advising(x, disposition) == [x EXCEPT !.result = disposition, !.results = @ + 1]
Advised(f, disposition) == advice' = [advice EXCEPT ![f] = Advising(@, disposition)]

(* The advice is armed and recorded, unless the goal lost the focus        *)
(* meanwhile; a user has to act: the goal is blocked.                      *)
OracleAnswers(t) ==
  LET f == calls[t].shape IN
  /\ calls[t] # None /\ calls[t].at = "oracle" /\ Returns(t)
  /\ \/ ~Current(t) /\ UNCHANGED <<advice, armed, tried, goal, stopped>>
     \/ /\ Current(t) /\ advice' = [advice EXCEPT ![f].failed = @ + 1]
        /\ UNCHANGED <<armed, tried, goal, stopped>>
     \/ /\ Current(t) /\ Advised(f, "actionable")
        /\ armed' = f /\ tried' = tried \ {f} /\ UNCHANGED <<goal, stopped>>
     \/ /\ Current(t) /\ armed' = None /\ CommitBlocked /\ UNCHANGED tried
        /\ \E d \in {"needs_human", "insufficient_context"} : Advised(f, d)
  /\ UNCHANGED <<inst, focus, turn, acts>> /\ KeepAudits

(* "paused".                                                               *)
Paused ==
  /\ UpdateGoal /\ advice' = Told
  /\ IF focus.on /\ goal.status = "active" THEN Becomes("paused") /\ stopped' = TRUE
     ELSE UNCHANGED <<goal, stopped>>
  /\ UNCHANGED <<inst, focus, calls, tried, acts>> /\ KeepAudits

Audit(phase, verdict) ==
  [phase |-> phase, aborted |-> FALSE, rev |-> goal.rev, shape |-> goal.shape,
   ends |-> IF verdict = None THEN 0 ELSE 1, verdict |-> verdict]

(* commitCompletion, of which the write may fail too.                      *)
Commits(n) == goal.rev = audits[n].rev

Completes(allowed) ==
  \/ allowed /\ Becomes("complete") /\ stopped' = TRUE
  \/ (allowed => FALSE \in inst.appends) /\ UNCHANGED <<goal, stopped>>

(* "complete": the newest attempt replaces the one before.                 *)
Complete(t) ==
  LET completable == focus.on /\ goal.status \in {"active", "paused", "budget_limited"} IN
  /\ calls[t] = None /\ UpdateGoal /\ advice' = Told
  /\ completable => Len(audits) < inst.audits
  /\ IF ~completable THEN UNCHANGED <<goal, stopped, audits, active, calls>>
     ELSE \E ok, started \in inst.appends :
       LET before == Cancelled(active, ok) IN
       IF inst.disabled
       THEN /\ UNCHANGED calls /\ active' = 0
            /\ audits' = Append(before, Audit("settled", IF started THEN "disabled" ELSE None))
            /\ Completes(started)
       ELSE /\ UNCHANGED <<goal, stopped>>
            /\ IF started
               THEN /\ audits' = Append(before, Audit("running", None))
                    /\ active' = Len(audits) + 1 /\ Waits(t, "audit", Len(audits) + 1)
               ELSE /\ audits' = Append(before, Audit("settled", IF ok THEN "error" ELSE None))
                    /\ active' = 0 /\ UNCHANGED calls
  /\ UNCHANGED <<inst, focus, modal, tried, acts>>

(* Escape while the audit is shown; with a dialog open the keys are its    *)
(* own.                                                                    *)
Escape ==
  /\ active # 0 /\ modal = 0
  /\ audits[active].phase = "running"
  /\ audits' = [audits EXCEPT ![active].phase = "awaiting-choice", ![active].aborted = TRUE]
  /\ UNCHANGED <<inst, turn, stopped, armed, advice, active, calls, modal, tried, acts>> /\ KeepGoal

\* The outcome is appended before the goal is touched.
Outcome(t, verdict, completes) ==
  LET n == calls[t].audit IN
  /\ Returns(t) /\ active' = 0
  /\ \E ok \in inst.appends :
       /\ audits' = Settled(n, verdict, ok)
       /\ Completes(ok /\ completes /\ Commits(n))

Superseded(t) ==
  /\ ~AuditCurrent(t) /\ Returns(t) /\ UNCHANGED <<audits, active, goal, stopped>>

AuditorAnswers(t) ==
  /\ calls[t] # None /\ calls[t].at = "audit"
  /\ \/ Superseded(t) /\ UNCHANGED modal
     \/ /\ AuditCurrent(t) /\ audits[active].aborted
        /\ calls' = [calls EXCEPT ![t].at = "dialog"] /\ modal' = modal + 1
        /\ UNCHANGED <<audits, active, goal, stopped>>
     \/ /\ AuditCurrent(t) /\ ~audits[active].aborted /\ UNCHANGED modal
        /\ \E verdict \in {"approved", "disapproved", "error"} :
             Outcome(t, verdict, verdict = "approved")
  /\ UNCHANGED <<inst, focus, turn, armed, advice, tried, acts>>

(* The user's choice.  Of a dialog that was superseded the modal count is  *)
(* not taken back.                                                         *)
Choose(t) ==
  /\ calls[t] # None /\ calls[t].at = "dialog"
  /\ \/ Superseded(t) /\ UNCHANGED modal
     \/ /\ AuditCurrent(t) /\ modal' = IF modal = 0 THEN 0 ELSE modal - 1
        /\ Outcome(t, "user_aborted", TRUE) \/ Outcome(t, "error", FALSE)
  /\ UNCHANGED <<inst, focus, turn, armed, advice, tried, acts>>

----------------------------------------------------------------------------
(* The user, other sessions and the process                                *)

Flush(written) == advice' = Flushed(written) /\ turn' = Closed
Buffer == turn' = [turn EXCEPT !.record = turn.open] /\ UNCHANGED advice
Open == goal.status \notin {"complete", "archived"}

(* Pause, resume, the budget that is used up, and an edit: of a task on    *)
(* the dashboard, which is buffered, or of the goal.                       *)
Changes ==
  /\ Act /\ focus.on
  /\ \/ goal.status = "active" /\ Becomes("paused") /\ Flush(TRUE)
     \/ goal.status = "active" /\ Becomes("budget_limited") /\ Buffer
     \/ goal.status \in {"paused", "blocked", "budget_limited"} /\ Becomes("active") /\ Flush(TRUE)
     \/ goal.status = "active" /\ Edited /\ Buffer
     \/ Open /\ Edited /\ Flush(FALSE)
  /\ UNCHANGED <<inst, focus, stopped, armed, calls, tried>> /\ KeepAudits

(* /goal-unfocus stops the turn, /goal-clear archives; both cancel.        *)
Leaves ==
  /\ Act /\ focus.on /\ (\E written \in BOOLEAN : Flush(written)) /\ Refocus(FALSE)
  /\ \/ stopped' = turn.runs /\ UNCHANGED goal
     \/ UNCHANGED stopped /\ Becomes("archived")
  /\ UNCHANGED <<inst, armed, calls, modal, tried>>

Focuses ==
  /\ Act /\ ~focus.on /\ Open /\ Flush(FALSE) /\ Refocus(TRUE)
  /\ UNCHANGED <<inst, goal, stopped, armed, calls, modal, tried>>

(* Another session: the calls of the old one go on, and find that they are *)
(* no longer current.  A complete goal is archived.                        *)
ReplaceSession ==
  /\ Act
  /\ advice' \in {Flushed(FALSE), Flushed(TRUE)} /\ turn' = [Closed EXCEPT !.runs = FALSE]
  /\ calls' = [t \in Tasks |-> IF calls[t] = None THEN None ELSE [calls[t] EXCEPT !.live = FALSE]]
  /\ modal' = 0
  /\ IF focus.on /\ goal.status = "complete" THEN Becomes("archived") ELSE UNCHANGED goal
  /\ \E on \in BOOLEAN : (on => Open) /\ Refocus(on)
  /\ UNCHANGED <<inst, stopped, armed, tried>>

(* The process dies; the turn's buffer, the marker and the calls with it.  *)
Restart ==
  /\ Act
  /\ turn' = [Closed EXCEPT !.runs = FALSE] /\ stopped' = FALSE /\ armed' = None
  /\ calls' = [t \in Tasks |-> None] /\ modal' = 0 /\ active' = 0
  /\ audits' = [n \in DOMAIN audits |->
                  IF Unsettled(n) THEN [audits[n] EXCEPT !.phase = "died"] ELSE audits[n]]
  /\ \E on \in BOOLEAN :
       (on => Open) /\ focus' = [on |-> on, rev |-> focus.rev + 1]
  /\ UNCHANGED <<inst, goal, advice, tried>>

GONext ==
  \/ TurnStart \/ TurnEnd \/ Work \/ Paused \/ Escape
  \/ Changes \/ Leaves \/ Focuses \/ ReplaceSession \/ Restart
  \/ \E t \in Tasks :
       Blocked(t) \/ OracleAnswers(t) \/ Complete(t) \/ AuditorAnswers(t) \/ Choose(t)

GOSpec == GOInit /\ [][GONext]_govars

----------------------------------------------------------------------------
(* Properties                                                              *)

\* What is complete was approved, or excused, in the very revision and shape
\* that was completed, and the ledger says so (goal-completion.ts: one
\* completion transaction, using the audited disk revision).
AuditedCompletion ==
  goal.status = "complete" =>
    \E n \in DOMAIN audits :
      /\ audits[n].verdict \in {"approved", "user_aborted", "disabled"} /\ audits[n].ends = 1
      /\ audits[n].rev + 1 = goal.rev /\ audits[n].shape = goal.shape

\* An audit ends once: cancelled, chosen or judged, however these overtake one
\* another; one that has not ended is the active one, and a call of the present
\* session waits for it (goal-completion.ts: every outcome belongs to its owner).
AuditsEndOnce ==
  \A n \in DOMAIN audits :
    /\ audits[n].ends <= 1
    /\ Unsettled(n) => active = n /\ \E t \in Tasks :
         calls[t] # None /\ calls[t].live /\ calls[t].audit = n

\* A blocker gets one successful consultation, also when a call that a replaced
\* session left behind comes back with another (goal-oracle.ts).
OneConsultation == \A f \in Shapes : advice[f].results <= 1

\* A goal is not blocked against advice that nobody has tried (goal-oracle.ts:
\* blocking is only permitted after a meaningful work attempt).
AdviceTried ==
  goal.status = "blocked" =>
    (advice[goal.shape].result = "actionable" => goal.shape \in tried)

----------------------------------------------------------------------------
(* What the first three rest on.  An audit is of this revision of the goal *)
(* or of an earlier one, and ends with its phase; the one that goes on is  *)
(* waited for by a current call.  One call is of the present session: the  *)
(* others lost the focus, and nobody else can bring the advice it asked    *)
(* for.                                                                    *)
AuditFits(x, g) ==
  /\ x \in Audits /\ x.ends <= 1 /\ x.rev <= g.rev
  /\ x.rev = g.rev => x.shape = g.shape
  /\ x.phase \in {"running", "awaiting-choice"} => x.ends = 0

AdviceFits(x) ==
  /\ x \in [result : Dispositions \cup {None}, results : Nat, failed : Nat, followed : BOOLEAN]
  /\ x.results <= 1 /\ (x.result = None => x.results = 0)

CallFits(t) ==
  /\ calls[t] \in Calls /\ calls[t].focus <= focus.rev
  /\ ~calls[t].live => calls[t].focus < focus.rev
  /\ calls[t].at = "oracle" /\ Current(t) /\ calls[t].shape \in Shapes =>
       advice[calls[t].shape].result = None

Awaited(n) ==
  \E t \in Tasks :
    /\ calls[t] # None /\ calls[t].live /\ calls[t].audit = n
    /\ calls[t].at # "oracle" /\ Current(t)

RecordsFit ==
  /\ goal \in [status : Statuses, rev : Nat, shape : Nat] /\ focus \in [on : BOOLEAN, rev : Nat]
  /\ advice = [f \in Shapes |-> advice[f]] /\ \A f \in Shapes : AdviceFits(advice[f])

AuditsFit ==
  /\ audits \in Seq(Audits) /\ active \in 0..Len(audits)
  /\ \A n \in DOMAIN audits : AuditFits(audits[n], goal)
  /\ \A n \in DOMAIN audits : Unsettled(n) => active = n /\ Awaited(n)

CallsFit ==
  /\ calls = [t \in Tasks |-> calls[t]]
  /\ \A t \in Tasks : calls[t] = None \/ CallFits(t)
  /\ \A t, u \in Tasks :
       calls[t] # None /\ calls[u] # None /\ calls[t].live /\ calls[u].live => t = u

OutcomeInv == inst \in Instances /\ RecordsFit /\ AuditsFit /\ CallsFit /\ AuditedCompletion
=============================================================================
