------------------------- MODULE ConsultationProofs -------------------------
(* Theorems about the components that ask other models, and about the      *)
(* ledger that the goals are told by: of AdvisorSession, that the calls of a *)
(* session stay within its budget and an outcome is logged once for an       *)
(* advice, for any number of tasks, questions, calls and sessions; of        *)
(* GoalOutcome, that what is complete was audited in the very revision it    *)
(* has, that an audit ends once and that a blocker gets one consultation,    *)
(* for any number of calls, audits and edits; of AdvisorConfig, that a       *)
(* process writes only the settings that it has set and disabled tools stay  *)
(* off, for any number of processes and commands; of GoalLedger, that index  *)
(* and checkpoint say what the file says, for any goals, blocks and sizes.   *)
EXTENDS AdvisorSession, FiniteSetTheorems, SequenceTheorems, WellFoundedInduction, TLAPS

CONSTANTS OutcomeTasks, OutcomeInstances, ConfigProcesses, ConfigInstances, Models, Values, Unusable

VARIABLES goInst, outcome, goFocus, goTurn, stopped, armed, counsel, audits, active, goCalls,
          modal, tried, goActs

outcomeVars == <<goInst, outcome, goFocus, goTurn, stopped, armed, counsel, audits, active,
                 goCalls, modal, tried, goActs>>

Outcome == INSTANCE GoalOutcome WITH
  Tasks <- OutcomeTasks, Instances <- OutcomeInstances, inst <- goInst, goal <- outcome,
  focus <- goFocus, turn <- goTurn, advice <- counsel, calls <- goCalls, acts <- goActs

VARIABLES cfInst, cfFile, cfProc, cfTouched, cfOff, cfEdits, cfBreaks, cfFailures, cfCommands

configVars == <<cfInst, cfFile, cfProc, cfTouched, cfOff, cfEdits, cfBreaks, cfFailures,
                cfCommands>>

Config == INSTANCE AdvisorConfig WITH
  Processes <- ConfigProcesses, Instances <- ConfigInstances, inst <- cfInst, file <- cfFile,
  proc <- cfProc, touched <- cfTouched, off <- cfOff, edits <- cfEdits, breaks <- cfBreaks,
  failures <- cfFailures, commands <- cfCommands

CONSTANTS Goals, RecentCap, WriteInterval, LedgerInstances, Unread

VARIABLES glInst, ledger, checkpoint, ledgerCache, checkpointCache, runtimeReady, lastWrite,
          recording

ledgerVars == <<glInst, ledger, checkpoint, ledgerCache, checkpointCache, runtimeReady,
                lastWrite, recording>>

Ledger == INSTANCE GoalLedger WITH Instances <- LedgerInstances, inst <- glInst

-----------------------------------------------------------------------------
(* What reserving, releasing and spending do to a session.                   *)

\* Releasing a reservation, or looking at the others, leaves no more of them.
LEMMA Fewer ==
    ASSUME AdvisorAssumption, NEW s \in Session, NEW x,
           NEW r, r \subseteq s.reservations
    PROVE  /\ IsFiniteSet(r) /\ Cardinality(r) \in Nat
           /\ IsFiniteSet(s.reservations) /\ Cardinality(s.reservations) \in Nat
           /\ Cardinality(r) <= Cardinality(s.reservations)
BY FS_Subset, FS_CardinalityType DEF AdvisorAssumption, Session

\* Sessions stay well formed.
LEMMA ReserveTyped ==
    ASSUME NEW s \in Session, NEW t \in Tasks
    PROVE  /\ reserve(s, t) \in Session
           /\ reserve(s, t) = [s EXCEPT !.reservations = s.reservations \cup {t}]
BY DEF Session, reserve

LEMMA ReleaseTyped ==
    ASSUME NEW s \in Session, NEW t
    PROVE  /\ release(s, t) \in Session
           /\ release(s, t) = [s EXCEPT !.reservations = s.reservations \ {t}]
BY DEF Session, release

LEMMA ConsumeTyped ==
    ASSUME NEW s \in Session, NEW t
    PROVE  /\ consume(s, t) \in Session
           /\ consume(s, t) = [s EXCEPT !.reservations = s.reservations \ {t},
                                        !.consumed = s.consumed + 1]
<1>1. s.consumed \in Nat /\ s.consumed + 1 \in Nat /\ s.reservations \ {t} \subseteq Tasks
  BY DEF Session
<1>2. consume(s, t) = [s EXCEPT !.reservations = s.reservations \ {t},
                                !.consumed = s.consumed + 1]
  BY DEF consume, Session
<1> DEFINE r == s.reservations \ {t}
           c == s.consumed + 1
<1>3. r \in SUBSET Tasks /\ c \in Nat
  BY <1>1
<1> HIDE DEF r, c
<1>4. [s EXCEPT !.reservations = r, !.consumed = c] \in Session
  BY <1>3 DEF Session
<1> QED
  BY <1>2, <1>4 DEF r, c

LEMMA SkippedTyped ==
    ASSUME NEW s \in Session, NEW t \in Tasks, task \in [Tasks -> Task]
    PROVE  /\ Skipped(s, t) \in Session
           /\ Skipped(s, t).consumed = s.consumed
           /\ Skipped(s, t).reservations = s.reservations \ {t}
           /\ Skipped(s, t).issued = s.issued /\ Skipped(s, t).pending = s.pending
           /\ Skipped(s, t).reported = s.reported
<1>1. task[t].question \in Questions \cup {None} /\ s.turn \in Nat
  BY DEF Task, Session
<1>2. release(s, t) \in Session
      /\ release(s, t) = [s EXCEPT !.reservations = s.reservations \ {t}]
  BY ReleaseTyped
<1> QED
  BY <1>1, <1>2 DEF Skipped, Session

-----------------------------------------------------------------------------
(* The budget.                                                               *)

Reserving == {"reserved", "lost", "screen", "allowed"}

\* Without new reservations nothing more is spoken for.
LEMMA AffordsFewer ==
    ASSUME AdvisorAssumption, NEW s \in Session, NEW k, Affords(s, k),
           NEW z \in Session, NEW l,
           z.consumed = s.consumed, z.reservations \subseteq s.reservations,
           \A u \in z.reservations : l[u].pc \in Reserving
    PROVE  Affords(z, l)
<1>1. /\ Cardinality(z.reservations) \in Nat /\ Cardinality(s.reservations) \in Nat
      /\ Cardinality(z.reservations) <= Cardinality(s.reservations)
  BY Fewer
<1>2. s.consumed \in Nat /\ maxCalls \in Nat
  BY DEF Session, AdvisorAssumption
<1> QED
  BY <1>1, <1>2 DEF Affords, Reserving

\* A call is reserved, or the reservation is there, while the budget allows it.
LEMMA AffordsReserved ==
    ASSUME AdvisorAssumption, NEW s \in Session, NEW k, Affords(s, k),
           NEW t \in Tasks, t \in s.reservations \/ canConsult(s, None),
           NEW l, l[t].pc \in Reserving,
           \A u \in s.reservations : u # t => l[u].pc = k[u].pc
    PROVE  Affords(reserve(s, t), l)
<1>1. /\ reserve(s, t).reservations = s.reservations \cup {t}
      /\ reserve(s, t).consumed = s.consumed
  BY ReserveTyped DEF Session
<1>2. \A u \in s.reservations \cup {t} : l[u].pc \in Reserving
  BY DEF Affords, Reserving
<1>3. s.consumed + Cardinality(s.reservations \cup {t}) <= maxCalls
  <2>1. CASE t \in s.reservations
    <3>1. s.reservations \cup {t} = s.reservations
      BY <2>1
    <3> QED
      BY <3>1 DEF Affords
  <2>2. CASE t \notin s.reservations
    <3>1. s.reservations \ {None} = s.reservations
      BY DEF Session, AdvisorAssumption
    <3>2. s.consumed + Cardinality(s.reservations) < maxCalls
      BY <2>2, <3>1 DEF canConsult
    <3>3. IsFiniteSet(s.reservations) /\ Cardinality(s.reservations) \in Nat
      BY Fewer
    <3>4. Cardinality(s.reservations \cup {t}) = Cardinality(s.reservations) + 1
      BY <2>2, <3>3, FS_AddElement
    <3>5. s.consumed \in Nat /\ maxCalls \in Nat
      BY DEF Session, AdvisorAssumption
    <3> QED
      BY <3>2, <3>3, <3>4, <3>5
  <2> QED
    BY <2>1, <2>2
<1> QED
  BY <1>1, <1>2, <1>3 DEF Affords, Reserving

\* A call is spent when the budget allows it: by the task that reserved it, or
\* by one that has reserved nothing.
LEMMA AffordsSpent ==
    ASSUME AdvisorAssumption, NEW s \in Session, NEW k, Affords(s, k),
           NEW x \in Tasks \cup {None}, canConsult(s, x),
           NEW z \in Session, NEW l,
           z.consumed = s.consumed + 1, z.reservations = s.reservations \ {x},
           \A u \in z.reservations : l[u].pc \in Reserving
    PROVE  Affords(z, l)
<1>1. s.consumed + Cardinality(z.reservations) < maxCalls
  BY DEF canConsult
<1>2. Cardinality(z.reservations) \in Nat
  BY Fewer
<1>3. s.consumed \in Nat /\ maxCalls \in Nat
  BY DEF Session, AdvisorAssumption
<1> QED
  BY <1>1, <1>2, <1>3 DEF Affords, Reserving

-----------------------------------------------------------------------------
(* The numbers of tasks and advice.                                          *)

\* Tasks that go on keep their number, and nothing is said of an advice.
LEMMA CountedStays ==
    ASSUME NEW s, NEW k, NEW n, NEW f, Counted(s, k, n, f),
           NEW z, z.issued = s.issued, z.pending = s.pending, z.reported = s.reported,
           NEW l,
           \A u \in Tasks : l[u].pc # "idle" =>
               k[u].pc # "idle" /\ l[u].no = k[u].no /\ (k[u].pc = "append" => l[u].pc = "append")
    PROVE  Counted(z, l, n, f)
BY DEF Counted

\* A task that begins has a number that no other has had.
LEMMA CountedBegins ==
    ASSUME NEW s \in Session, NEW k \in [Tasks -> Task], NEW n \in 0 .. MaxStarts,
           NEW f \in [Numbers -> Nat],
           MaxStarts \in Nat, n < MaxStarts,
           Counted(s, k, n, f),
           NEW z, z.issued = s.issued, z.pending = s.pending, z.reported = s.reported,
           NEW t \in Tasks, NEW l,
           l[t].pc # "idle" => l[t].no = n + 1,
           \A u \in Tasks : u # t => l[u] = k[u]
    PROVE  Counted(z, l, n + 1, f)
<1>1. n + 1 \in Numbers /\ f[n + 1] = 0
  BY DEF Numbers, Counted
<1>2. \A u \in Tasks : l[u].pc # "idle" => l[u].no \in 1 .. (n + 1) /\ f[l[u].no] = 0
  BY <1>1 DEF Counted
<1>3. \A u, v \in Tasks : u # v /\ l[u].pc # "idle" /\ l[v].pc # "idle" => l[u].no # l[v].no
  BY DEF Counted
<1>4. \A a \in z.issued : a.no \in 1 .. (n + 1) /\ (f[a.no] = 0 \/ a.no \in z.reported)
  BY DEF Counted
<1>5. \A u \in Tasks, a \in z.issued :
         l[u].pc # "idle" /\ l[u].no = a.no => l[u].pc = "append" /\ a.no \in z.pending
  BY <1>1 DEF Counted
<1>6. \A a \in Numbers : f[a] <= 1 /\ (a > n + 1 => f[a] = 0)
  BY DEF Counted, Numbers
<1> QED
  BY <1>2, <1>3, <1>4, <1>5, <1>6 DEF Counted

-----------------------------------------------------------------------------
(* Every step keeps the invariant.                                           *)

\* A task goes on.
LEMMA Gone ==
    ASSUME task \in [Tasks -> Task], NEW t \in Tasks, NEW r \in Task, Goes(t, r)
    PROVE  /\ task' \in [Tasks -> Task] /\ task'[t] = r
           /\ \A u \in Tasks : u # t => task'[u] = task[u]
BY DEF Goes

LEMMA IdleTyped ==
    ASSUME AdvisorAssumption
    PROVE  Idle \in Task /\ Idle.pc = "idle" /\ FreshSession \in Session
BY DEF AdvisorAssumption, Idle, Task, Jobs, FreshSession, Session

\* A new task has the next number.
LEMMA NewTyped ==
    ASSUME AdvisorAssumption, NEW job \in Jobs, starts \in 0 .. MaxStarts, starts < MaxStarts
    PROVE  /\ New(job) = [pc |-> "idle", job |-> job, no |-> starts + 1,
                          question |-> None, aborted |-> FALSE]
           /\ New(job) \in Task
<1> DEFINE n == starts + 1
<1>1. New(job) = [pc |-> "idle", job |-> job, no |-> n, question |-> None, aborted |-> FALSE]
  <2>1. New(job) = [Idle EXCEPT !.job = job, !.no = n]
    BY DEF New
  <2> HIDE DEF n
  <2> QED
    BY <2>1 DEF Idle
<1>2. starts + 1 \in 0 .. MaxStarts
  BY DEF AdvisorAssumption
<1> QED
  BY <1>1, <1>2 DEF Task

\* What a step is shown to do, for the invariant.
Kept(z, l) ==
    /\ z \in Session /\ l \in [Tasks -> Task]
    /\ Affords(z, l) /\ Counted(z, l, starts', told')

LEMMA KeptIsEnough ==
    ASSUME starts' \in 0 .. MaxStarts, told' \in [Numbers -> Nat], begun' \in Nat,
           Kept(session', task')
    PROVE  AdvisorInv'
BY DEF Kept, AdvisorInv, TypeOK, BudgetKept

\* A task that begins, or does not, with a session that has spent or reserved
\* what it could afford.
LEMMA BeginKeeps ==
    ASSUME AdvisorAssumption, AdvisorInv, NEW t \in Tasks, NEW job, Begin(t, job),
           session' \in Session, task' \in [Tasks -> Task], Affords(session', task'),
           session'.issued = session.issued, session'.pending = session.pending,
           session'.reported = session.reported,
           task'[t].pc # "idle" => task'[t].no = starts + 1,
           \A u \in Tasks : u # t => task'[u] = task[u]
    PROVE  AdvisorInv'
<1>1. /\ session \in Session /\ task \in [Tasks -> Task] /\ starts \in 0 .. MaxStarts
      /\ told \in [Numbers -> Nat] /\ Counted(session, task, starts, told) /\ begun \in Nat
      /\ MaxStarts \in Nat
  BY DEF AdvisorInv, TypeOK, AdvisorAssumption
<1>2. starts' = starts + 1 /\ starts < MaxStarts /\ told' = told /\ begun' = begun
  BY DEF Begin, Other
<1>3. Counted(session', task', starts + 1, told)
  BY <1>1, <1>2, CountedBegins
<1> QED
  BY <1>1, <1>2, <1>3, KeptIsEnough DEF Kept

\* A task that goes on or ends, while nothing is said of an advice.
LEMMA GoesOnKeeps ==
    ASSUME AdvisorInv, UNCHANGED starts, Other,
           session' \in Session, task' \in [Tasks -> Task], Affords(session', task'),
           session'.issued = session.issued, session'.pending = session.pending,
           session'.reported = session.reported,
           \A u \in Tasks : task'[u].pc # "idle" =>
               /\ task[u].pc # "idle" /\ task'[u].no = task[u].no
               /\ task[u].pc = "append" => task'[u].pc = "append"
    PROVE  AdvisorInv'
<1>1. /\ starts \in 0 .. MaxStarts /\ told \in [Numbers -> Nat]
      /\ Counted(session, task, starts, told) /\ begun \in Nat
  BY DEF AdvisorInv, TypeOK
<1>2. Counted(session', task', starts, told)
  BY <1>1, CountedStays
<1> QED
  BY <1>1, <1>2, KeptIsEnough DEF Kept, Other

-----------------------------------------------------------------------------
(* ask_advisor.                                                              *)

\* What the invariant says of the state before a step.
LEMMA Before ==
    ASSUME AdvisorInv
    PROVE  /\ session \in Session /\ task \in [Tasks -> Task] /\ starts \in 0 .. MaxStarts
           /\ told \in [Numbers -> Nat] /\ begun \in Nat
           /\ Affords(session, task) /\ Counted(session, task, starts, told)
           /\ \A t \in session.reservations : t \in Tasks /\ task[t].pc \in Reserving
           /\ session.issued \subseteq [no: Numbers, question: Questions \cup {None}]
           /\ session.pending \subseteq Numbers /\ session.reported \subseteq Numbers
BY DEF AdvisorInv, TypeOK, BudgetKept, Affords, Session, Reserving

LEMMA AnnounceKeeps ==
    ASSUME AdvisorAssumption, AdvisorInv, NEW t \in Tasks, Announce(t)
    PROVE  AdvisorInv'
<1>1. PICK q \in Questions :
          IF canConsult(session, None)
          THEN /\ session' = reserve(session, t)
               /\ Goes(t, [New("ask") EXCEPT !.pc = "reserved", !.question = q])
          ELSE UNCHANGED <<session, task>>
  BY DEF Announce
<1>2. Begin(t, "ask") /\ task[t].pc = "idle" /\ starts < MaxStarts
  BY DEF Announce, Begin
<1>3. CASE canConsult(session, None)
  <2> DEFINE r == [New("ask") EXCEPT !.pc = "reserved", !.question = q]
  <2>1. r \in Task /\ r.pc = "reserved" /\ r.no = starts + 1
    <3>1. /\ New("ask") \in Task /\ New("ask").no = starts + 1
      BY <1>2, Before, NewTyped DEF Jobs
    <3> DEFINE w == New("ask")
    <3> HIDE DEF w
    <3>2. w \in Task /\ r = [w EXCEPT !.pc = "reserved", !.question = q]
      BY <3>1 DEF w
    <3>3. r \in Task /\ r.pc = "reserved" /\ r.no = w.no
      BY <3>2 DEF Task
    <3> QED
      BY <3>1, <3>3 DEF w
  <2>2. session' = reserve(session, t) /\ Goes(t, r)
    BY <1>1, <1>3
  <2> HIDE DEF r
  <2>3. task' \in [Tasks -> Task] /\ task'[t] = r /\ \A u \in Tasks : u # t => task'[u] = task[u]
    BY <2>1, <2>2, Before, Gone
  <2>4. /\ session' \in Session /\ session'.issued = session.issued
        /\ session'.pending = session.pending /\ session'.reported = session.reported
    BY <2>2, Before, ReserveTyped DEF Session
  <2>5. Affords(session', task')
    BY <1>3, <2>1, <2>2, <2>3, Before, AffordsReserved DEF Reserving
  <2> QED
    BY <1>2, <2>1, <2>3, <2>4, <2>5, BeginKeeps
<1>4. CASE ~canConsult(session, None)
  BY <1>1, <1>2, <1>4, Before, BeginKeeps
<1> QED
  BY <1>3, <1>4

LEMMA NeverExecutedKeeps ==
    ASSUME AdvisorAssumption, AdvisorInv, NEW t \in Tasks, NeverExecuted(t)
    PROVE  AdvisorInv'
<1> DEFINE r == [task[t] EXCEPT !.pc = "lost"]
<1>1. r \in Task /\ r.pc = "lost" /\ r.no = task[t].no /\ task[t].pc = "reserved"
  BY Before DEF NeverExecuted, Task
<1>2. Goes(t, r) /\ UNCHANGED <<session, starts>> /\ Other
  BY DEF NeverExecuted
<1> HIDE DEF r
<1>3. task' \in [Tasks -> Task] /\ task'[t] = r /\ \A u \in Tasks : u # t => task'[u] = task[u]
  BY <1>1, <1>2, Before, Gone
<1>4. \A u \in session.reservations : task'[u].pc \in Reserving
  BY <1>1, <1>3, Before DEF Reserving
<1>5. Affords(session', task')
  BY <1>2, <1>4, Before, AffordsFewer
<1> QED
  BY <1>1, <1>2, <1>3, <1>5, Before, GoesOnKeeps

\* The task ends, and its reservation is given back.
LEMMA EndsKeeps ==
    ASSUME AdvisorAssumption, AdvisorInv, NEW t \in Tasks, Ends(t), UNCHANGED starts, Other,
           session' \in Session, session'.consumed = session.consumed,
           session'.reservations \subseteq session.reservations \ {t},
           session'.issued = session.issued, session'.pending = session.pending,
           session'.reported = session.reported
    PROVE  AdvisorInv'
<1>1. /\ task' \in [Tasks -> Task] /\ task'[t] = Idle
      /\ \A u \in Tasks : u # t => task'[u] = task[u]
  BY Before, Gone, IdleTyped DEF Ends
<1>2. Idle.pc = "idle"
  BY IdleTyped
<1>3. \A u \in session'.reservations : task'[u].pc \in Reserving
  BY <1>1, Before
<1>4. Affords(session', task')
  BY <1>3, Before, AffordsFewer
<1> QED
  BY <1>1, <1>2, <1>4, Before, GoesOnKeeps

\* A task that goes on while the session stays within its budget.
LEMMA PassesKeeps ==
    ASSUME AdvisorInv, NEW t \in Tasks, NEW r \in Task, Goes(t, r), UNCHANGED starts, Other,
           task[t].pc \notin {"idle", "append"}, r.no = task[t].no,
           session' \in Session, Affords(session', [task EXCEPT ![t] = r]),
           session'.issued = session.issued, session'.pending = session.pending,
           session'.reported = session.reported
    PROVE  AdvisorInv'
<1>1. task' \in [Tasks -> Task] /\ task'[t] = r /\ \A u \in Tasks : u # t => task'[u] = task[u]
  BY Before, Gone
<1>2. task' = [task EXCEPT ![t] = r]
  BY DEF Goes
<1> QED
  BY <1>1, <1>2, GoesOnKeeps

LEMMA ExecuteKeeps ==
    ASSUME AdvisorAssumption, AdvisorInv, NEW t \in Tasks, Execute(t)
    PROVE  AdvisorInv'
<1> DEFINE q == task[t].question
           held == reserve(session, t)
           r == [task[t] EXCEPT !.pc = "allowed"]
           w == [task[t] EXCEPT !.pc = "screen"]
<1>1. task[t].pc = "reserved" /\ UNCHANGED starts /\ Other
  BY DEF Execute
<1>2. /\ r \in Task /\ r.pc = "allowed" /\ r.no = task[t].no
      /\ w \in Task /\ w.pc = "screen" /\ w.no = task[t].no
  BY Before DEF Task
<1>3. /\ held \in Session /\ held.reservations = session.reservations \cup {t}
      /\ held.consumed = session.consumed /\ held.issued = session.issued
      /\ held.pending = session.pending /\ held.reported = session.reported
  BY Before, ReserveTyped DEF Session
<1>4. \/ session' = release(session, t) /\ Ends(t)
      \/ UNCHANGED session /\ t \notin session.reservations /\ Ends(t)
      \/ /\ t \in session.reservations \/ canConsult(session, None)
         /\ session' \in {release(held, t), Skipped(held, t)} /\ Ends(t)
      \/ /\ t \in session.reservations \/ canConsult(session, None)
         /\ session' = held /\ (Goes(t, r) \/ Goes(t, w))
  BY DEF Execute
<1> HIDE DEF held, r, w
<1>5. CASE session' = release(session, t) /\ Ends(t)
  <2>1. /\ session' \in Session
        /\ session' = [session EXCEPT !.reservations = session.reservations \ {t}]
    BY <1>5, Before, ReleaseTyped
  <2> QED
    BY <1>1, <1>5, <2>1, Before, EndsKeeps DEF Session
<1>6. CASE UNCHANGED session /\ t \notin session.reservations /\ Ends(t)
  BY <1>1, <1>6, Before, EndsKeeps
<1>7. CASE session' = release(held, t) /\ Ends(t)
  <2>1. /\ session' \in Session
        /\ session' = [held EXCEPT !.reservations = held.reservations \ {t}]
    BY <1>3, <1>7, ReleaseTyped
  <2>2. /\ session'.reservations = held.reservations \ {t} /\ session'.consumed = held.consumed
        /\ session'.issued = held.issued /\ session'.pending = held.pending
        /\ session'.reported = held.reported
    BY <1>3, <2>1 DEF Session
  <2> QED
    BY <1>1, <1>3, <1>7, <2>1, <2>2, EndsKeeps
<1>8. CASE session' = Skipped(held, t) /\ Ends(t)
  <2>1. /\ session' \in Session
        /\ session'.reservations = held.reservations \ {t} /\ session'.consumed = held.consumed
        /\ session'.issued = held.issued /\ session'.pending = held.pending
        /\ session'.reported = held.reported
    BY <1>3, <1>8, Before, SkippedTyped
  <2> QED
    BY <1>1, <1>3, <1>8, <2>1, EndsKeeps
<1>9. CASE /\ t \in session.reservations \/ canConsult(session, None)
           /\ session' = held /\ (Goes(t, r) \/ Goes(t, w))
  <2>1. PICK x \in {r, w} : Goes(t, x)
    BY <1>9
  <2>2. x \in Task /\ x.pc \in Reserving /\ x.no = task[t].no
    BY <1>2 DEF Reserving
  <2> DEFINE l == [task EXCEPT ![t] = x]
  <2>3. l[t] = x /\ \A u \in Tasks : u # t => l[u] = task[u]
    BY <2>2, Before
  <2> HIDE DEF l
  <2>4. \A u \in session.reservations : u # t => l[u].pc = task[u].pc
    BY <2>3, Before
  <2>5. Affords(held, l)
    BY <1>9, <2>2, <2>3, <2>4, Before, AffordsReserved DEF held
  <2> QED
    BY <1>1, <1>3, <1>9, <2>1, <2>2, <2>5, PassesKeeps DEF l
<1> QED
  BY <1>4, <1>5, <1>6, <1>7, <1>8, <1>9

\* The call is spent by a task that goes on to consult.
LEMMA SpendsKeeps ==
    ASSUME AdvisorAssumption, AdvisorInv, NEW t \in Tasks, NEW x \in {t, None},
           canConsult(session, x),
           NEW r \in Task, Goes(t, r), UNCHANGED starts, Other,
           task[t].pc \notin {"idle", "append"}, r.no = task[t].no,
           x = None => t \notin session.reservations,
           session' \in Session, session'.consumed = session.consumed + 1,
           session'.reservations = session.reservations \ {x},
           session'.issued = session.issued, session'.pending = session.pending,
           session'.reported = session.reported
    PROVE  AdvisorInv'
<1> DEFINE l == [task EXCEPT ![t] = r]
<1>1. \A u \in Tasks : u # t => l[u] = task[u]
  BY Before
<1> HIDE DEF l
<1>2. \A u \in session'.reservations : u # t
  OBVIOUS
<1>3. \A u \in session'.reservations : l[u].pc \in Reserving
  BY <1>1, <1>2, Before
<1>4. Affords(session', l)
  BY <1>3, Before, AffordsSpent
<1> QED
  BY <1>4, PassesKeeps DEF l

LEMMA ScreenedKeeps ==
    ASSUME AdvisorAssumption, AdvisorInv, NEW t \in Tasks, Screened(t)
    PROVE  AdvisorInv'
<1> DEFINE r == [task[t] EXCEPT !.pc = "consult"]
           spent(attach) == [consume(session, t) EXCEPT !.since = 0,
                                !.handoff = IF attach THEN FALSE ELSE @]
<1>1. task[t].pc \in {"screen", "allowed"} /\ UNCHANGED starts /\ Other
  BY DEF Screened
<1>2. \/ session' = Skipped(session, t) /\ Ends(t)
      \/ session' = release(session, t) /\ Ends(t)
      \/ /\ canConsult(session, t) /\ Goes(t, r)
         /\ \E attach \in BOOLEAN : session' = spent(attach)
  BY DEF Screened
<1>3. r \in Task /\ r.no = task[t].no
  BY Before DEF Task
<1>4. \A attach \in BOOLEAN :
         /\ spent(attach) \in Session
         /\ spent(attach).reservations = session.reservations \ {t}
         /\ spent(attach).consumed = session.consumed + 1
         /\ spent(attach).issued = session.issued /\ spent(attach).pending = session.pending
         /\ spent(attach).reported = session.reported
  <2>1. /\ consume(session, t) \in Session
        /\ consume(session, t) = [session EXCEPT !.reservations = session.reservations \ {t},
                                                 !.consumed = session.consumed + 1]
    BY Before, ConsumeTyped
  <2> DEFINE y == consume(session, t)
             c == session.consumed + 1
  <2>2. /\ y.reservations = session.reservations \ {t} /\ y.consumed = c
        /\ y.issued = session.issued /\ y.pending = session.pending
        /\ y.reported = session.reported
    BY <2>1, Before DEF Session
  <2>3. y \in Session
    BY <2>1
  <2> HIDE DEF y, c
  <2>4. \A b \in BOOLEAN :
           LET z == [y EXCEPT !.since = 0, !.handoff = b]
           IN  /\ z \in Session /\ z.reservations = y.reservations /\ z.consumed = y.consumed
               /\ z.issued = y.issued /\ z.pending = y.pending /\ z.reported = y.reported
    BY <2>3 DEF Session
  <2>5. y.handoff \in BOOLEAN
    BY <2>3 DEF Session
  <2>6. \A attach \in BOOLEAN : \E b \in BOOLEAN :
           spent(attach) = [y EXCEPT !.since = 0, !.handoff = b]
    BY <2>5 DEF y
  <2> QED
    BY <2>2, <2>4, <2>6 DEF c
<1> HIDE DEF r, spent
<1>5. CASE session' = Skipped(session, t) /\ Ends(t)
  <2>1. /\ session' \in Session /\ session'.consumed = session.consumed
        /\ session'.reservations = session.reservations \ {t}
        /\ session'.issued = session.issued /\ session'.pending = session.pending
        /\ session'.reported = session.reported
    BY <1>5, Before, SkippedTyped
  <2> QED
    BY <1>1, <1>5, <2>1, EndsKeeps
<1>6. CASE session' = release(session, t) /\ Ends(t)
  <2>1. /\ session' \in Session
        /\ session' = [session EXCEPT !.reservations = session.reservations \ {t}]
    BY <1>6, Before, ReleaseTyped
  <2> QED
    BY <1>1, <1>6, <2>1, Before, EndsKeeps DEF Session
<1>7. CASE /\ canConsult(session, t) /\ Goes(t, r)
           /\ \E attach \in BOOLEAN : session' = spent(attach)
  <2>1. t # None
    BY DEF AdvisorAssumption
  <2> QED
    BY <1>1, <1>3, <1>4, <1>7, <2>1, SpendsKeeps
<1> QED
  BY <1>2, <1>5, <1>6, <1>7

-----------------------------------------------------------------------------
(* The manual command.                                                       *)

\* A task begins without a reservation.
LEMMA BeginsQuietly ==
    ASSUME AdvisorAssumption, AdvisorInv, NEW t \in Tasks, NEW job, Begin(t, job),
           NEW r \in Task, r.no = starts + 1, Goes(t, r) \/ UNCHANGED task,
           session' \in Session,
           \/ Affords(session', task)
           \/ /\ canConsult(session, None) /\ session'.consumed = session.consumed + 1
              /\ session'.reservations = session.reservations \ {None},
           session'.reservations \subseteq session.reservations,
           session'.issued = session.issued, session'.pending = session.pending,
           session'.reported = session.reported
    PROVE  AdvisorInv'
<1>1. task[t].pc = "idle" /\ t \notin session.reservations
  BY Before DEF Begin, Reserving
<1>2. /\ task' \in [Tasks -> Task] /\ (task'[t] = r \/ task'[t] = task[t])
      /\ \A u \in Tasks : u # t => task'[u] = task[u]
  BY Before, Gone
<1>3. \A u \in session'.reservations : task'[u].pc \in Reserving
  BY <1>1, <1>2, Before
<1>4. Affords(session', task')
  <2>1. CASE Affords(session', task)
    BY <1>3, <2>1, AffordsFewer
  <2>2. CASE /\ canConsult(session, None) /\ session'.consumed = session.consumed + 1
             /\ session'.reservations = session.reservations \ {None}
    BY <1>3, <2>2, Before, AffordsSpent
  <2> QED
    BY <2>1, <2>2
<1> QED
  BY <1>1, <1>2, <1>4, Before, BeginKeeps

LEMMA ManualKeeps ==
    ASSUME AdvisorAssumption, AdvisorInv, NEW t \in Tasks, Manual(t)
    PROVE  AdvisorInv'
<1>1. Begin(t, "manual") /\ UNCHANGED session /\ starts < MaxStarts
  BY DEF Manual, Begin
<1> DEFINE w == New("manual")
<1>2. w \in Task /\ w.no = starts + 1
  BY <1>1, Before, NewTyped DEF Jobs
<1>3. Goes(t, w) \/ UNCHANGED task \/ \E q \in Questions :
          Goes(t, [w EXCEPT !.pc = "dialog", !.question = q])
  BY DEF Manual
<1> HIDE DEF w
<1>4. \E r \in Task : r.no = starts + 1 /\ (Goes(t, r) \/ UNCHANGED task)
  <2>1. \A q \in Questions : LET r == [w EXCEPT !.pc = "dialog", !.question = q]
                             IN  r \in Task /\ r.no = starts + 1
    BY <1>2 DEF Task
  <2> QED
    BY <1>2, <1>3, <2>1
<1> QED
  BY <1>1, <1>4, Before, BeginsQuietly

LEMMA SubmitKeeps ==
    ASSUME AdvisorAssumption, AdvisorInv, NEW t \in Tasks, Submit(t)
    PROVE  AdvisorInv'
<1>1. task[t].pc = "dialog" /\ UNCHANGED starts /\ Other
  BY DEF Submit
<1>2. t \notin session.reservations
  BY <1>1, Before DEF Reserving
<1> DEFINE k == [u \in Tasks |->
                    IF u = t THEN [task[t] EXCEPT !.pc = "consult"]
                    ELSE IF task[u].job = "manual" /\ task[u].pc = "consult"
                    THEN [task[u] EXCEPT !.aborted = TRUE] ELSE task[u]]
<1>3. CASE UNCHANGED session /\ Ends(t)
  BY <1>1, <1>2, <1>3, Before, EndsKeeps
<1>4. CASE canConsult(session, None) /\ session' = consume(session, None) /\ task' = k
  <2>1. /\ k \in [Tasks -> Task] /\ k[t].pc = "consult"
        /\ \A u \in Tasks : k[u].no = task[u].no /\ (u # t => k[u].pc = task[u].pc)
    BY Before DEF Task
  <2>2. /\ session' \in Session
        /\ session' = [session EXCEPT !.reservations = session.reservations \ {None},
                                      !.consumed = session.consumed + 1]
    BY <1>4, Before, ConsumeTyped
  <2>3. /\ session'.reservations = session.reservations \ {None}
        /\ session'.consumed = session.consumed + 1
        /\ session'.issued = session.issued /\ session'.pending = session.pending
        /\ session'.reported = session.reported
    BY <2>2, Before DEF Session
  <2> HIDE DEF k
  <2>4. \A u \in session'.reservations : k[u].pc \in Reserving
    BY <1>2, <2>1, <2>3, Before
  <2>5. Affords(session', task')
    BY <1>4, <2>2, <2>3, <2>4, Before, AffordsSpent
  <2>6. \A u \in Tasks : task'[u].pc # "idle" =>
            /\ task[u].pc # "idle" /\ task'[u].no = task[u].no
            /\ task[u].pc = "append" => task'[u].pc = "append"
    BY <1>1, <1>4, <2>1
  <2>7. task' \in [Tasks -> Task]
    BY <1>4, <2>1
  <2> QED
    BY <1>1, <2>2, <2>3, <2>5, <2>6, <2>7, GoesOnKeeps
<1> QED
  BY <1>3, <1>4 DEF Submit

\* The answer: the number of the task is that of the advice from here on.
LEMMA AnswerKeeps ==
    ASSUME AdvisorAssumption, AdvisorInv, NEW t \in Tasks, Answer(t)
    PROVE  AdvisorInv'
<1> DEFINE advice == [no |-> task[t].no, question |-> task[t].question]
<1>1. task[t].pc = "consult" /\ Ends(t) /\ UNCHANGED starts /\ Other
  BY DEF Answer
<1>2. t \notin session.reservations
  BY <1>1, Before DEF Reserving
<1>3. \E n \in Nat : session' \in {[session EXCEPT !.since = n],
          [session EXCEPT !.issued = session.issued \cup {advice}, !.handoff = TRUE, !.since = n]}
  BY Before DEF Answer, Session
<1>4. /\ task[t].no \in Numbers /\ task[t].no \in 1 .. starts /\ told[task[t].no] = 0
      /\ advice \in [no: Numbers, question: Questions \cup {None}]
  BY <1>1, Before DEF Counted, Numbers, Task, AdvisorAssumption
<1>5. PICK n \in Nat : session' \in {[session EXCEPT !.since = n],
          [session EXCEPT !.issued = session.issued \cup {advice}, !.handoff = TRUE, !.since = n]}
  BY <1>3
<1> HIDE DEF advice
<1>6. CASE session' = [session EXCEPT !.since = n]
  <2>1. /\ session' \in Session /\ session'.consumed = session.consumed
        /\ session'.reservations = session.reservations
        /\ session'.issued = session.issued /\ session'.pending = session.pending
        /\ session'.reported = session.reported
    BY <1>6, Before DEF Session
  <2> QED
    BY <1>1, <1>2, <2>1, EndsKeeps
<1>7. CASE session' = [session EXCEPT !.issued = session.issued \cup {advice},
                                      !.handoff = TRUE, !.since = n]
  <2>1. /\ session' \in Session /\ session'.consumed = session.consumed
        /\ session'.reservations = session.reservations
        /\ session'.issued = session.issued \cup {advice}
        /\ session'.pending = session.pending /\ session'.reported = session.reported
    BY <1>4, <1>7, Before DEF Session
  <2>2. /\ task' \in [Tasks -> Task] /\ task'[t] = Idle /\ Idle.pc = "idle"
        /\ \A u \in Tasks : u # t => task'[u] = task[u]
    BY <1>1, Before, Gone, IdleTyped DEF Ends
  <2>3. Affords(session', task')
    BY <1>2, <2>1, <2>2, Before, AffordsFewer
  <2>4. Counted(session', task', starts, told)
    <3>1. \A a \in session'.issued :
             a.no \in 1 .. starts /\ (told[a.no] = 0 \/ a.no \in session'.reported)
      BY <1>4, <2>1, Before DEF Counted, advice
    <3>2. \A u \in Tasks, a \in session'.issued :
             task'[u].pc # "idle" /\ task'[u].no = a.no
               => task'[u].pc = "append" /\ a.no \in session'.pending
      BY <1>1, <2>1, <2>2, Before DEF Counted, advice
    <3> QED
      BY <2>2, <3>1, <3>2, Before DEF Counted
  <2> QED
    BY <1>1, <2>1, <2>2, <2>3, <2>4, Before, KeptIsEnough DEF Kept, Other
<1> QED
  BY <1>5, <1>6, <1>7

-----------------------------------------------------------------------------
(* The gates.                                                                *)

LEMMA ToolCallKeeps ==
    ASSUME AdvisorAssumption, AdvisorInv, NEW t \in Tasks, ToolCall(t)
    PROVE  AdvisorInv'
<1>1. Begin(t, "loop") /\ starts < MaxStarts
  BY DEF ToolCall, Begin
<1> DEFINE w == New("loop")
           r == [w EXCEPT !.pc = "gate"]
           s(c) == [session EXCEPT !.count = c]
<1>2. w \in Task /\ w.no = starts + 1
  BY <1>1, Before, NewTyped DEF Jobs
<1>3. \E c \in Nat :
         \/ session' = s(c) /\ UNCHANGED task
         \/ /\ canConsult(s(c), None)
            /\ session' = [consume(s(c), None) EXCEPT !.since = 0] /\ Goes(t, r)
         \/ \E b \in BOOLEAN : session' = [s(c) EXCEPT !.blocked = b] /\ UNCHANGED task
  <2>1. \A same \in BOOLEAN : (IF same THEN session.count + 1 ELSE 1) \in Nat
    BY Before DEF Session
  <2>2. PICK same \in BOOLEAN :
          LET z == [session EXCEPT !.count = IF same THEN @ + 1 ELSE 1]
          IN  IF z.count < loopThreshold
              THEN session' = z /\ UNCHANGED task
              ELSE IF canConsult(z, None)
              THEN /\ session' = [consume(z, None) EXCEPT !.since = 0]
                   /\ Goes(t, [New("loop") EXCEPT !.pc = "gate"])
              ELSE \E block \in BOOLEAN :
                      session' = [z EXCEPT !.blocked = block] /\ UNCHANGED task
    BY DEF ToolCall
  <2> DEFINE c == IF same THEN session.count + 1 ELSE 1
  <2>3. [session EXCEPT !.count = IF same THEN @ + 1 ELSE 1] = s(c)
    BY Before DEF Session
  <2>4. c \in Nat
    BY <2>1
  <2> HIDE DEF s
  <2> WITNESS c \in Nat
  <2> QED
    BY <2>2, <2>3
<1>4. PICK c \in Nat :
         \/ session' = s(c) /\ UNCHANGED task
         \/ /\ canConsult(s(c), None)
            /\ session' = [consume(s(c), None) EXCEPT !.since = 0] /\ Goes(t, r)
         \/ \E b \in BOOLEAN : session' = [s(c) EXCEPT !.blocked = b] /\ UNCHANGED task
  BY <1>3
<1> HIDE DEF w
<1>5. r \in Task /\ r.no = starts + 1
  BY <1>2 DEF Task
<1> HIDE DEF r
<1> DEFINE y == s(c)
<1>6. /\ y \in Session /\ y.consumed = session.consumed /\ y.reservations = session.reservations
      /\ y.issued = session.issued /\ y.pending = session.pending
      /\ y.reported = session.reported
  BY Before DEF Session
<1>7. \/ session' = y /\ UNCHANGED task
      \/ /\ canConsult(y, None) /\ session' = [consume(y, None) EXCEPT !.since = 0] /\ Goes(t, r)
      \/ \E b \in BOOLEAN : session' = [y EXCEPT !.blocked = b] /\ UNCHANGED task
  BY <1>4
<1> HIDE DEF y, s
<1>8. canConsult(y, None) => canConsult(session, None)
  BY <1>6 DEF canConsult
<1>9. Affords(y, task)
  BY <1>6, Before DEF Affords
<1>10. CASE session' = y /\ UNCHANGED task
  BY <1>1, <1>5, <1>6, <1>9, <1>10, BeginsQuietly
<1>11. CASE /\ canConsult(y, None) /\ session' = [consume(y, None) EXCEPT !.since = 0]
            /\ Goes(t, r)
  <2> DEFINE n == y.reservations \ {None}
             m == y.consumed + 1
             z == consume(y, None)
  <2>1. z \in Session /\ z = [y EXCEPT !.reservations = n, !.consumed = m]
    BY <1>6, ConsumeTyped
  <2> HIDE DEF n, m, z
  <2>2. /\ z.reservations = n /\ z.consumed = m /\ z.issued = y.issued
        /\ z.pending = y.pending /\ z.reported = y.reported
    BY <1>6, <2>1 DEF Session
  <2>3. session' = [z EXCEPT !.since = 0]
    BY <1>11 DEF z
  <2>4. /\ session' \in Session /\ session'.reservations = n /\ session'.consumed = m
        /\ session'.issued = y.issued /\ session'.pending = y.pending
        /\ session'.reported = y.reported
    BY <2>1, <2>2, <2>3 DEF Session
  <2>5. /\ canConsult(session, None) /\ session'.consumed = session.consumed + 1
        /\ session'.reservations = session.reservations \ {None}
    BY <1>6, <1>8, <1>11, <2>4 DEF n, m
  <2> QED
    BY <1>1, <1>5, <1>6, <1>11, <2>4, <2>5, BeginsQuietly
<1>12. CASE \E b \in BOOLEAN : session' = [y EXCEPT !.blocked = b] /\ UNCHANGED task
  <2>1. /\ session' \in Session /\ session'.reservations = y.reservations
        /\ session'.consumed = y.consumed /\ session'.issued = y.issued
        /\ session'.pending = y.pending /\ session'.reported = y.reported
    BY <1>6, <1>12 DEF Session
  <2>2. Affords(session', task)
    BY <1>9, <2>1 DEF Affords
  <2> QED
    BY <1>1, <1>5, <1>6, <1>12, <2>1, <2>2, BeginsQuietly
<1> QED
  BY <1>7, <1>10, <1>11, <1>12

LEMMA GateDecidesKeeps ==
    ASSUME AdvisorAssumption, AdvisorInv, NEW t \in Tasks, GateDecides(t)
    PROVE  AdvisorInv'
<1>1. task[t].pc = "gate" /\ Ends(t) /\ UNCHANGED starts /\ Other
  BY DEF GateDecides
<1>2. t \notin session.reservations
  BY <1>1, Before DEF Reserving
<1>3. session' \in {session, [session EXCEPT !.count = 0], [session EXCEPT !.blocked = TRUE]}
  BY DEF GateDecides
<1>4. /\ session' \in Session /\ session'.consumed = session.consumed
      /\ session'.reservations = session.reservations
      /\ session'.issued = session.issued /\ session'.pending = session.pending
      /\ session'.reported = session.reported
  <2>1. CASE session' = session
    BY <2>1, Before DEF Session
  <2>2. CASE session' = [session EXCEPT !.count = 0]
    BY <2>2, Before DEF Session
  <2>3. CASE session' = [session EXCEPT !.blocked = TRUE]
    BY <2>3, Before DEF Session
  <2> QED
    BY <1>3, <2>1, <2>2, <2>3
<1> QED
  BY <1>1, <1>2, <1>4, EndsKeeps

LEMMA TurnEndKeeps ==
    ASSUME AdvisorAssumption, AdvisorInv, NEW t \in Tasks, TurnEnd(t)
    PROVE  AdvisorInv'
<1>1. Begin(t, "turn") /\ starts < MaxStarts
  BY DEF TurnEnd, Begin
<1> DEFINE w == New("turn")
           r == [w EXCEPT !.pc = "classify"]
<1>2. w \in Task /\ w.no = starts + 1
  BY <1>1, Before, NewTyped DEF Jobs
<1>3. session' = [session EXCEPT !.turn = @ + 1, !.since = @ + 1]
  BY DEF TurnEnd
<1>4. Goes(t, r) \/ UNCHANGED task
  BY DEF TurnEnd
<1> HIDE DEF w
<1>5. r \in Task /\ r.no = starts + 1
  BY <1>2 DEF Task
<1> HIDE DEF r
<1>6. /\ session' \in Session /\ session'.consumed = session.consumed
      /\ session'.reservations = session.reservations
      /\ session'.issued = session.issued /\ session'.pending = session.pending
      /\ session'.reported = session.reported
  <2> DEFINE m == session.turn + 1
             n == session.since + 1
  <2>1. m \in Nat /\ n \in Nat /\ session \in Session
    BY Before DEF Session
  <2>2. session' = [session EXCEPT !.turn = m, !.since = n]
    BY <1>3
  <2> HIDE DEF m, n
  <2> QED
    BY <2>1, <2>2 DEF Session
<1>7. Affords(session', task)
  BY <1>6, Before DEF Affords
<1> QED
  BY <1>1, <1>4, <1>5, <1>6, <1>7, BeginsQuietly

LEMMA ClassifiedKeeps ==
    ASSUME AdvisorAssumption, AdvisorInv, NEW t \in Tasks, Classified(t)
    PROVE  AdvisorInv'
<1> DEFINE r == [task[t] EXCEPT !.pc = "consult"]
<1>1. task[t].pc = "classify" /\ UNCHANGED starts /\ Other
  BY DEF Classified
<1>2. t \notin session.reservations
  BY <1>1, Before DEF Reserving
<1>3. r \in Task /\ r.no = task[t].no
  BY Before DEF Task
<1>4. \/ UNCHANGED session /\ Ends(t)
      \/ canConsult(session, None) /\ session' = consume(session, None) /\ Goes(t, r)
  BY DEF Classified
<1> HIDE DEF r
<1>5. CASE UNCHANGED session /\ Ends(t)
  BY <1>1, <1>2, <1>5, Before, EndsKeeps
<1>6. CASE canConsult(session, None) /\ session' = consume(session, None) /\ Goes(t, r)
  <2>1. /\ session' \in Session
        /\ session' = [session EXCEPT !.reservations = session.reservations \ {None},
                                      !.consumed = session.consumed + 1]
    BY <1>6, Before, ConsumeTyped
  <2>2. /\ session'.reservations = session.reservations \ {None}
        /\ session'.consumed = session.consumed + 1
        /\ session'.issued = session.issued /\ session'.pending = session.pending
        /\ session'.reported = session.reported
    BY <2>1, Before DEF Session
  <2> QED
    BY <1>1, <1>2, <1>3, <1>6, <2>1, <2>2, SpendsKeeps
<1> QED
  BY <1>4, <1>5, <1>6

LEMMA TurnAnswerKeeps ==
    ASSUME AdvisorAssumption, AdvisorInv, NEW t \in Tasks, TurnAnswer(t)
    PROVE  AdvisorInv'
<1>1. task[t].pc = "consult" /\ Ends(t) /\ UNCHANGED starts /\ Other
  BY DEF TurnAnswer
<1>2. t \notin session.reservations
  BY <1>1, Before DEF Reserving
<1>3. session' \in {session, [session EXCEPT !.since = 0]}
  BY DEF TurnAnswer
<1>4. /\ session' \in Session /\ session'.consumed = session.consumed
      /\ session'.reservations = session.reservations
      /\ session'.issued = session.issued /\ session'.pending = session.pending
      /\ session'.reported = session.reported
  <2>1. CASE session' = session
    BY <2>1, Before DEF Session
  <2>2. CASE session' = [session EXCEPT !.since = 0]
    BY <2>2, Before DEF Session
  <2> QED
    BY <1>3, <2>1, <2>2
<1> QED
  BY <1>1, <1>2, <1>4, EndsKeeps

-----------------------------------------------------------------------------
(* Outcomes.                                                                 *)

\* A recording begins for an advice that has no outcome and none pending: no
\* task has its number.
LEMMA RecordOutcomeKeeps ==
    ASSUME AdvisorAssumption, AdvisorInv, NEW t \in Tasks, RecordOutcome(t)
    PROVE  AdvisorInv'
<1>1. PICK a \in session.issued :
        /\ a.no \notin session.reported \cup session.pending
        /\ session' = [session EXCEPT !.pending = @ \cup {a.no}]
        /\ Goes(t, [New("outcome") EXCEPT !.pc = "append", !.no = a.no])
  BY DEF RecordOutcome
<1>2. /\ task[t].pc = "idle" /\ starts' = starts + 1 /\ starts < MaxStarts
      /\ told' = told /\ begun' = begun
  BY DEF RecordOutcome, Begin, Other
<1> DEFINE w == New("outcome")
           r == [w EXCEPT !.pc = "append", !.no = a.no]
<1>3. w \in Task
  BY <1>2, Before, NewTyped DEF Jobs
<1>4. /\ a.no \in Numbers /\ a.no \in 1 .. starts /\ told[a.no] = 0 /\ a.no \in 0 .. MaxStarts
      /\ MaxStarts \in Nat
  BY <1>1, Before DEF Counted, AdvisorAssumption, Numbers
<1> HIDE DEF w
<1>5. r \in Task /\ r.pc = "append" /\ r.no = a.no
  BY <1>3, <1>4 DEF Task
<1>6. Goes(t, r)
  BY <1>1 DEF w
<1> HIDE DEF r
<1>7. /\ task' \in [Tasks -> Task] /\ task'[t] = r
      /\ \A u \in Tasks : u # t => task'[u] = task[u]
  BY <1>5, <1>6, Before, Gone
<1>8. /\ session' \in Session /\ session'.consumed = session.consumed
      /\ session'.reservations = session.reservations /\ session'.issued = session.issued
      /\ session'.pending = session.pending \cup {a.no}
      /\ session'.reported = session.reported
  BY <1>1, <1>4, Before DEF Session
<1>9. Affords(session', task')
  <2>1. t \notin session.reservations
    BY <1>2, Before DEF Reserving
  <2> QED
    BY <1>7, <1>8, <2>1, Before, AffordsFewer
<1>10. \A u \in Tasks : task[u].pc # "idle" => task[u].no # a.no
  BY <1>1, Before DEF Counted
<1>11. Counted(session', task', starts + 1, told)
  <2>1. \A u \in Tasks : task'[u].pc # "idle" => task'[u].no \in 1 .. starts /\ told[task'[u].no] = 0
    BY <1>4, <1>5, <1>7, Before DEF Counted
  <2>2. \A u, v \in Tasks : u # v /\ task'[u].pc # "idle" /\ task'[v].pc # "idle"
                              => task'[u].no # task'[v].no
    BY <1>5, <1>7, <1>10, Before DEF Counted
  <2>3. \A b \in session'.issued :
           b.no \in 1 .. starts /\ (told[b.no] = 0 \/ b.no \in session'.reported)
    BY <1>8, Before DEF Counted
  <2>4. \A u \in Tasks, b \in session'.issued :
           task'[u].pc # "idle" /\ task'[u].no = b.no
             => task'[u].pc = "append" /\ b.no \in session'.pending
    BY <1>5, <1>7, <1>8, Before DEF Counted
  <2>5. \A n \in Numbers : told[n] <= 1 /\ (n > starts + 1 => told[n] = 0)
    BY Before DEF Counted, Numbers
  <2>6. \A n \in 1 .. starts : n \in 1 .. (starts + 1)
    BY Before
  <2> QED
    BY <2>1, <2>2, <2>3, <2>4, <2>5, <2>6 DEF Counted
<1> QED
  <2>1. starts' \in 0 .. MaxStarts
    BY <1>2, <1>4, Before
  <2> QED
    BY <1>2, <1>7, <1>8, <1>9, <1>11, <2>1, Before, KeptIsEnough DEF Kept

\* The recording ends: what it logged is reported, unless its session is gone,
\* where the advice is not known.
LEMMA AppendedKeeps ==
    ASSUME AdvisorAssumption, AdvisorInv, NEW t \in Tasks, Appended(t)
    PROVE  AdvisorInv'
<1> DEFINE a == task[t].no
           s == [session EXCEPT !.pending = @ \ {a}]
<1>1. task[t].pc = "append" /\ Ends(t) /\ starts' = starts /\ begun' = begun
  BY DEF Appended
<1>2. \/ session' = s /\ told' = told
      \/ /\ session' = IF a \in session.pending THEN [s EXCEPT !.reported = @ \cup {a}] ELSE s
         /\ told' = [told EXCEPT ![a] = @ + 1]
  BY DEF Appended
<1>3. /\ a \in Numbers /\ a \in 1 .. starts /\ told[a] = 0
  BY <1>1, Before DEF Counted, Numbers, AdvisorAssumption
<1>4. /\ task' \in [Tasks -> Task] /\ task'[t] = Idle /\ Idle.pc = "idle"
      /\ \A u \in Tasks : u # t => task'[u] = task[u]
  BY <1>1, Before, Gone, IdleTyped DEF Ends
<1>5. \A u \in Tasks : task'[u].pc # "idle" => u # t /\ task'[u] = task[u] /\ task[u].no # a
  BY <1>1, <1>4, Before DEF Counted
<1> HIDE DEF a
<1>6. /\ s \in Session /\ s.consumed = session.consumed
      /\ s.reservations = session.reservations /\ s.issued = session.issued
      /\ s.pending = session.pending \ {a} /\ s.reported = session.reported
  BY Before DEF Session
<1> HIDE DEF s
<1>7. /\ session' \in Session /\ session'.consumed = session.consumed
      /\ session'.reservations = session.reservations /\ session'.issued = session.issued
      /\ session'.pending = session.pending \ {a}
      /\ \/ told' = told /\ session'.reported = session.reported
         \/ /\ told' = [told EXCEPT ![a] = 1]
            /\ session'.reported = IF a \in session.pending THEN session.reported \cup {a}
                                                            ELSE session.reported
  <2>1. CASE session' = s /\ told' = told
    BY <1>6, <2>1
  <2>2. CASE /\ session' = IF a \in session.pending THEN [s EXCEPT !.reported = @ \cup {a}] ELSE s
             /\ told' = [told EXCEPT ![a] = @ + 1]
    <3>1. told' = [told EXCEPT ![a] = 1]
      BY <1>3, <2>2, Before
    <3>2. CASE a \in session.pending
      <4>1. session' = [s EXCEPT !.reported = s.reported \cup {a}]
        BY <2>2, <3>2
      <4>2. /\ session' \in Session /\ session'.consumed = s.consumed
            /\ session'.reservations = s.reservations /\ session'.issued = s.issued
            /\ session'.pending = s.pending /\ session'.reported = s.reported \cup {a}
        BY <1>3, <1>6, <4>1 DEF Session
      <4> QED
        BY <1>6, <3>1, <3>2, <4>2
    <3>3. CASE a \notin session.pending
      BY <1>6, <2>2, <3>1, <3>3
    <3> QED
      BY <3>2, <3>3
  <2> QED
    BY <1>2, <2>1, <2>2
<1>8. Affords(session', task')
  <2>1. t \notin session.reservations
    BY <1>1, Before DEF Reserving
  <2> QED
    BY <1>4, <1>7, <2>1, Before, AffordsFewer
<1>9. /\ told' \in [Numbers -> Nat] /\ told'[a] \in {0, 1}
      /\ \A n \in Numbers : n # a => told'[n] = told[n]
  BY <1>3, <1>7, Before
<1>10. Counted(session', task', starts, told')
  <2>1. \A u \in Tasks : task'[u].pc # "idle" =>
           task'[u].no \in 1 .. starts /\ task'[u].no \in Numbers /\ told'[task'[u].no] = 0
    BY <1>5, <1>9, Before DEF Counted, Numbers, AdvisorAssumption
  <2>2. \A u, v \in Tasks : u # v /\ task'[u].pc # "idle" /\ task'[v].pc # "idle"
                              => task'[u].no # task'[v].no
    BY <1>5, Before DEF Counted
  <2>3. \A b \in session'.issued :
           b.no \in 1 .. starts /\ (told'[b.no] = 0 \/ b.no \in session'.reported)
    <3> SUFFICES ASSUME NEW b \in session.issued
                 PROVE  b.no \in 1 .. starts /\ (told'[b.no] = 0 \/ b.no \in session'.reported)
      BY <1>7
    <3>1. /\ b.no \in 1 .. starts /\ b.no \in Numbers
          /\ told[b.no] = 0 \/ b.no \in session.reported
      BY Before DEF Counted
    <3>2. b.no = a => a \in session.pending
      BY <1>1, Before DEF Counted, a
    <3>3. session.reported \subseteq session'.reported
      BY <1>7
    <3>4. CASE b.no # a
      BY <1>9, <3>1, <3>3, <3>4
    <3>5. CASE b.no = a
      BY <1>3, <1>7, <3>1, <3>2, <3>5
    <3> QED
      BY <3>4, <3>5
  <2>4. \A u \in Tasks, b \in session'.issued :
           task'[u].pc # "idle" /\ task'[u].no = b.no
             => task'[u].pc = "append" /\ b.no \in session'.pending
    BY <1>5, <1>7, Before DEF Counted
  <2>5. \A n \in Numbers : told'[n] <= 1 /\ (n > starts => told'[n] = 0)
    BY <1>3, <1>9, Before DEF Counted, Numbers
  <2> QED
    BY <2>1, <2>2, <2>3, <2>4, <2>5 DEF Counted
<1> QED
  BY <1>1, <1>4, <1>7, <1>8, <1>9, <1>10, Before, KeptIsEnough DEF Kept

-----------------------------------------------------------------------------
(* Pi's session.                                                             *)

LEMMA SettledKeeps ==
    ASSUME AdvisorAssumption, AdvisorInv, Settled
    PROVE  AdvisorInv'
<1>1. /\ session' = [session EXCEPT !.reservations = {}]
      /\ task' = [t \in Tasks |-> IF task[t].pc = "lost" THEN Idle ELSE task[t]]
      /\ UNCHANGED starts /\ Other
  BY DEF Settled
<1>2. /\ session' \in Session /\ session'.consumed = session.consumed
      /\ session'.reservations = {}
      /\ session'.issued = session.issued /\ session'.pending = session.pending
      /\ session'.reported = session.reported
  BY <1>1, Before DEF Session
<1>3. /\ task' \in [Tasks -> Task]
      /\ \A u \in Tasks : task'[u].pc # "idle" => task'[u] = task[u]
  BY <1>1, Before, IdleTyped
<1>4. Affords(session', task')
  BY <1>2, Before, AffordsFewer
<1> QED
  BY <1>1, <1>2, <1>3, <1>4, GoesOnKeeps

\* Tasks of the old session go on, and the new one knows no advice.
LEMMA NewSessionKeeps ==
    ASSUME AdvisorAssumption, AdvisorInv, NewSession
    PROVE  AdvisorInv'
<1>1. /\ begun' = begun + 1 /\ session' = FreshSession /\ starts' = starts /\ told' = told
      /\ task' = [t \in Tasks |->
            IF task[t].pc \in {"lost", "reserved"} THEN Idle
            ELSE IF task[t].job = "manual" THEN [task[t] EXCEPT !.aborted = TRUE]
            ELSE task[t]]
  BY DEF NewSession
<1>2. /\ session' \in Session /\ session'.consumed = 0 /\ session'.reservations = {}
      /\ session'.issued = {}
  BY <1>1, IdleTyped DEF FreshSession
<1>3. /\ task' \in [Tasks -> Task]
      /\ \A u \in Tasks : task'[u].pc # "idle" =>
            task[u].pc = task'[u].pc /\ task'[u].no = task[u].no
  BY <1>1, Before, IdleTyped DEF Task
<1>4. Affords(session', task')
  BY <1>2, FS_EmptySet DEF Affords, AdvisorAssumption
<1>5. Counted(session', task', starts, told)
  BY <1>2, <1>3, Before DEF Counted
<1>6. begun' \in Nat
  BY <1>1, Before
<1> QED
  BY <1>1, <1>2, <1>3, <1>4, <1>5, <1>6, Before, KeptIsEnough DEF Kept

-----------------------------------------------------------------------------
LEMMA AdvisorInit ==
    ASSUME AdvisorAssumption, Init
    PROVE  AdvisorInv
<1>1. /\ session \in Session /\ task \in [Tasks -> Task] /\ starts = 0 /\ begun = 0
      /\ told = [a \in Numbers |-> 0] /\ told \in [Numbers -> Nat]
  BY IdleTyped DEF Init
<1>2. /\ session.consumed = 0 /\ session.reservations = {} /\ session.issued = {}
      /\ \A t \in Tasks : task[t].pc = "idle"
  BY IdleTyped DEF Init, FreshSession
<1>3. Affords(session, task)
  BY <1>2, FS_EmptySet DEF Affords, AdvisorAssumption
<1>4. Counted(session, task, starts, told)
  BY <1>1, <1>2 DEF Counted
<1>5. starts \in 0 .. MaxStarts
  BY <1>1 DEF AdvisorAssumption
<1> QED
  BY <1>1, <1>3, <1>4, <1>5 DEF AdvisorInv, TypeOK, BudgetKept

LEMMA AdvisorNext ==
    ASSUME AdvisorAssumption, AdvisorInv, [Next]_advars
    PROVE  AdvisorInv'
<1>1. CASE UNCHANGED advars
  BY <1>1 DEF advars, AdvisorInv, TypeOK, BudgetKept
<1>2. CASE \E t \in Tasks : Start(t) \/ Step(t)
  <2> PICK t \in Tasks : Start(t) \/ Step(t)
    BY <1>2
  <2>1. CASE Start(t)
    BY <2>1, AnnounceKeeps, ManualKeeps, ToolCallKeeps, TurnEndKeeps, RecordOutcomeKeeps
       DEF Start
  <2>2. CASE Step(t)
    BY <2>2, NeverExecutedKeeps, ExecuteKeeps, ScreenedKeeps, SubmitKeeps, AnswerKeeps,
       GateDecidesKeeps, ClassifiedKeeps, TurnAnswerKeeps, AppendedKeeps DEF Step
  <2> QED
    BY <2>1, <2>2
<1> QED
  BY <1>1, <1>2, SettledKeeps, NewSessionKeeps DEF Next

\* The inductive invariant: the state is well formed, what is spent and
\* reserved is affordable, and numbers of tasks and of advice are told apart
\* (session-state.ts).
THEOREM AdvisorHolds ==
    ASSUME AdvisorAssumption
    PROVE  Spec => []AdvisorInv
BY AdvisorInit, AdvisorNext, PTL DEF Spec

\* Whatever is screened, skipped, aborted, replaced or refused meanwhile, the
\* calls spent and reserved stay within the budget of a session, and only a
\* call that may still be executed keeps a reservation (canConsult).
THEOREM BudgetHolds ==
    ASSUME AdvisorAssumption
    PROVE  Spec => []BudgetKept
<1>1. AdvisorInv => BudgetKept
  BY DEF AdvisorInv
<1> QED
  BY <1>1, AdvisorHolds, PTL

\* An outcome is logged once for an advice, in whatever order recordings of it
\* begin, fail and end, and whatever tasks of an earlier session still do
\* (reserveAdvice, commitAdvice, releaseAdvice).
THEOREM OutcomesOnce ==
    ASSUME AdvisorAssumption
    PROVE  Spec => []OutcomeOnce
<1>1. AdvisorInv => OutcomeOnce
  BY DEF AdvisorInv, Counted, OutcomeOnce
<1> QED
  BY <1>1, AdvisorHolds, PTL

-----------------------------------------------------------------------------
(* The end of a goal: what its ledger, its record and its focus become.      *)

\* A ledger that gives the same advice.
SameAdvice(a) ==
  /\ a = [f \in Outcome!Shapes |-> a[f]]
  /\ \A f \in Outcome!Shapes : Outcome!AdviceFits(a[f]) /\ a[f].result = counsel[f].result

LEMMA FollowedSame ==
    ASSUME Outcome!RecordsFit, NEW events
    PROVE  SameAdvice(Outcome!Followed(events)) /\ SameAdvice(counsel)
<1>1. ASSUME NEW f \in Outcome!Shapes
      PROVE  /\ Outcome!AdviceFits(Outcome!Followed(events)[f])
             /\ Outcome!Followed(events)[f].result = counsel[f].result
  <2>1. Outcome!AdviceFits(counsel[f])
        /\ Outcome!Followed(events)[f] = [counsel[f] EXCEPT !.followed = @ \/ f \in events]
    BY DEF Outcome!RecordsFit, Outcome!Followed
  <2> QED
    BY <2>1 DEF Outcome!AdviceFits
<1>2. Outcome!Followed(events) = [f \in Outcome!Shapes |-> Outcome!Followed(events)[f]]
  BY DEF Outcome!Followed
<1> QED
  BY <1>1, <1>2 DEF SameAdvice, Outcome!RecordsFit

LEMMA ToldSame ==
    ASSUME Outcome!RecordsFit
    PROVE  SameAdvice(Outcome!Told)
BY FollowedSame DEF Outcome!Told

LEMMA FlushedSame ==
    ASSUME Outcome!RecordsFit, NEW written \in BOOLEAN
    PROVE  SameAdvice(Outcome!Flushed(written))
BY FollowedSame DEF Outcome!Flushed

LEMMA FailedSame ==
    ASSUME NEW a, SameAdvice(a), NEW s
    PROVE  SameAdvice([a EXCEPT ![s].failed = @ + 1])
<1> DEFINE b == [a EXCEPT ![s].failed = @ + 1]
<1>1. b = [f \in Outcome!Shapes |-> b[f]]
  BY DEF SameAdvice
<1>2. ASSUME NEW f \in Outcome!Shapes
      PROVE  Outcome!AdviceFits(b[f]) /\ b[f].result = counsel[f].result
  <2>1. Outcome!AdviceFits(a[f]) /\ a[f].result = counsel[f].result
    BY DEF SameAdvice
  <2>2. b[f] = a[f] \/ b[f] = [a[f] EXCEPT !.failed = @ + 1]
    BY DEF SameAdvice
  <2> QED
    BY <2>1, <2>2 DEF Outcome!AdviceFits
<1> QED
  BY <1>1, <1>2 DEF SameAdvice

-----------------------------------------------------------------------------
\* The goal stays, or goes to another revision.
GoalMoves ==
  /\ outcome' \in [status : Outcome!Statuses, rev : Nat, shape : Nat]
  /\ outcome' = outcome \/ outcome'.rev = outcome.rev + 1

FocusMoves ==
  /\ goFocus' \in [on : BOOLEAN, rev : Nat]
  /\ goFocus' = goFocus \/ goFocus'.rev = goFocus.rev + 1

LEMMA RevisionSet ==
    ASSUME NEW g \in [status : Outcome!Statuses, rev : Nat, shape : Nat], NEW r \in Nat,
           NEW k, k = [g EXCEPT !.rev = r]
    PROVE  /\ k \in [status : Outcome!Statuses, rev : Nat, shape : Nat]
           /\ k.rev = r /\ k.status = g.status /\ k.shape = g.shape
OBVIOUS

LEMMA ShapeSet ==
    ASSUME NEW g \in [status : Outcome!Statuses, rev : Nat, shape : Nat], NEW h \in Nat,
           NEW k, k = [g EXCEPT !.shape = h]
    PROVE  /\ k \in [status : Outcome!Statuses, rev : Nat, shape : Nat]
           /\ k.rev = g.rev /\ k.status = g.status /\ k.shape = h
OBVIOUS

LEMMA StatusSet ==
    ASSUME NEW g \in [status : Outcome!Statuses, rev : Nat, shape : Nat],
           NEW s \in Outcome!Statuses,
           NEW k, k = [g EXCEPT !.status = s]
    PROVE  /\ k \in [status : Outcome!Statuses, rev : Nat, shape : Nat]
           /\ k.rev = g.rev /\ k.status = s /\ k.shape = g.shape
OBVIOUS

LEMMA GoalNext ==
    ASSUME Outcome!RecordsFit
    PROVE  /\ Outcome!Edited => GoalMoves /\ outcome'.status = outcome.status
           /\ \A s \in Outcome!Statuses : Outcome!Becomes(s) =>
                /\ GoalMoves /\ outcome'.status = s /\ outcome'.rev = outcome.rev + 1
                /\ outcome'.shape = outcome.shape
           /\ UNCHANGED outcome => GoalMoves
           /\ Outcome!CommitBlocked => GoalMoves /\ outcome'.status = "blocked"
<1>0. /\ outcome \in [status : Outcome!Statuses, rev : Nat, shape : Nat]
      /\ outcome.rev + 1 \in Nat /\ outcome.shape + 1 \in Nat
  BY DEF Outcome!RecordsFit
<1>1. Outcome!Edited => GoalMoves /\ outcome'.status = outcome.status
  <2> HAVE Outcome!Edited
  <2> PICK g : g = [outcome EXCEPT !.rev = outcome.rev + 1]
    OBVIOUS
  <2>1. outcome' = [g EXCEPT !.shape = outcome.shape + 1]
    BY DEF Outcome!Edited
  <2>2. /\ g \in [status : Outcome!Statuses, rev : Nat, shape : Nat]
        /\ g.rev = outcome.rev + 1 /\ g.status = outcome.status
    BY <1>0, RevisionSet
  <2>3. /\ outcome' \in [status : Outcome!Statuses, rev : Nat, shape : Nat]
        /\ outcome'.rev = g.rev /\ outcome'.status = g.status
    BY <1>0, <2>1, <2>2, ShapeSet
  <2> QED
    BY <2>2, <2>3 DEF GoalMoves
<1>2. ASSUME NEW s \in Outcome!Statuses, Outcome!Becomes(s)
      PROVE  /\ GoalMoves /\ outcome'.status = s /\ outcome'.rev = outcome.rev + 1
             /\ outcome'.shape = outcome.shape
  <2> PICK g : g = [outcome EXCEPT !.status = s]
    OBVIOUS
  <2>1. outcome' = [g EXCEPT !.rev = outcome.rev + 1]
    BY <1>2 DEF Outcome!Becomes
  <2>2. /\ g \in [status : Outcome!Statuses, rev : Nat, shape : Nat]
        /\ g.rev = outcome.rev /\ g.status = s /\ g.shape = outcome.shape
    BY <1>0, StatusSet
  <2>3. /\ outcome' \in [status : Outcome!Statuses, rev : Nat, shape : Nat]
        /\ outcome'.rev = outcome.rev + 1 /\ outcome'.status = s
        /\ outcome'.shape = outcome.shape
    BY <1>0, <2>1, <2>2, RevisionSet
  <2> QED
    BY <2>3 DEF GoalMoves
<1>3. "blocked" \in Outcome!Statuses
  BY DEF Outcome!Statuses
<1> QED
  BY <1>0, <1>1, <1>2, <1>3 DEF Outcome!CommitBlocked, GoalMoves

LEMMA AuditAges ==
    ASSUME Outcome!RecordsFit, GoalMoves, NEW x, Outcome!AuditFits(x, outcome)
    PROVE  Outcome!AuditFits(x, outcome')
<1>1. x.rev \in Nat /\ outcome.rev \in Nat
  BY DEF Outcome!AuditFits, Outcome!Audits, Outcome!RecordsFit
<1> QED
  BY <1>1 DEF Outcome!AuditFits, GoalMoves

LEMMA RecordsNext ==
    ASSUME counsel' = [f \in Outcome!Shapes |-> counsel'[f]],
           \A f \in Outcome!Shapes : Outcome!AdviceFits(counsel'[f]),
           GoalMoves, FocusMoves
    PROVE  Outcome!RecordsFit'
BY DEF GoalMoves, FocusMoves, Outcome!RecordsFit

LEMMA CompletionStays ==
    ASSUME Outcome!OutcomeInv, outcome' = outcome \/ outcome'.status # "complete",
           \A n \in DOMAIN audits :
             n \in DOMAIN audits' /\ (audits[n].ends = 1 => audits'[n] = audits[n])
    PROVE  Outcome!AuditedCompletion'
BY DEF Outcome!OutcomeInv, Outcome!AuditedCompletion

LEMMA CallsStay ==
    ASSUME Outcome!OutcomeInv, UNCHANGED goCalls, SameAdvice(counsel'), FocusMoves
    PROVE  Outcome!CallsFit'
<1>1. ASSUME NEW t \in OutcomeTasks, goCalls[t] # None
      PROVE  Outcome!CallFits(t)'
  <2>1. Outcome!CallFits(t) /\ goFocus.rev \in Nat /\ goCalls[t].focus \in Nat
    BY <1>1
       DEF Outcome!OutcomeInv, Outcome!CallsFit, Outcome!RecordsFit, Outcome!CallFits,
           Outcome!Calls
  <2>2. Outcome!Current(t)' => Outcome!Current(t)
    BY <2>1 DEF FocusMoves, Outcome!Current, Outcome!CallFits
  <2> QED
    BY <2>1, <2>2 DEF FocusMoves, Outcome!CallFits, SameAdvice
<1> QED
  BY <1>1 DEF Outcome!OutcomeInv, Outcome!CallsFit

LEMMA AuditsStay ==
    ASSUME Outcome!OutcomeInv, GoalMoves, UNCHANGED <<audits, active>>,
           \A n \in DOMAIN audits : Outcome!Unsettled(n) => Outcome!Awaited(n)'
    PROVE  Outcome!AuditsFit'
<1>1. \A n \in DOMAIN audits : Outcome!AuditFits(audits[n], outcome')
  BY AuditAges DEF Outcome!OutcomeInv, Outcome!AuditsFit
<1> QED
  BY <1>1 DEF Outcome!OutcomeInv, Outcome!AuditsFit, Outcome!Unsettled

LEMMA AuditsEnd ==
    ASSUME Outcome!OutcomeInv, GoalMoves, audits' \in Seq(Outcome!Audits),
           active' \in 0..Len(audits'),
           \A n \in DOMAIN audits' :
             /\ Outcome!AuditFits(audits'[n], outcome)
             /\ audits'[n].phase \notin {"running", "awaiting-choice"}
    PROVE  Outcome!AuditsFit'
<1>1. \A n \in DOMAIN audits' : Outcome!AuditFits(audits'[n], outcome')
  BY AuditAges DEF Outcome!OutcomeInv
<1> QED
  BY <1>1 DEF Outcome!AuditsFit, Outcome!Unsettled

\* What changes neither audits, nor calls, nor the focus.
LEMMA Quiet ==
    ASSUME Outcome!OutcomeInv, SameAdvice(counsel'), UNCHANGED <<goInst, goFocus, audits,
           active, goCalls>>,
           GoalMoves, outcome' = outcome \/ outcome'.status # "complete"
    PROVE  Outcome!OutcomeInv'
<1>1. FocusMoves
  BY DEF FocusMoves, Outcome!OutcomeInv, Outcome!RecordsFit
<1>2. Outcome!AuditsFit'
  <2>1. \A n \in DOMAIN audits : Outcome!Unsettled(n) => Outcome!Awaited(n)'
    BY DEF Outcome!OutcomeInv, Outcome!AuditsFit, Outcome!Awaited, Outcome!Current
  <2> QED
    BY <2>1, AuditsStay
<1> QED
  BY <1>1, <1>2, RecordsNext, CompletionStays, CallsStay DEF Outcome!OutcomeInv, SameAdvice

LEMMA TurnStartKeeps ==
    ASSUME Outcome!OutcomeInv, Outcome!TurnStart PROVE Outcome!OutcomeInv'
<1>1. SameAdvice(counsel')
  <2>1. SameAdvice(Outcome!Flushed(FALSE))
    BY FlushedSame DEF Outcome!OutcomeInv
  <2> QED
    BY <2>1 DEF Outcome!TurnStart
<1> QED
  BY <1>1, Quiet, GoalNext
     DEF Outcome!TurnStart, Outcome!KeepGoal, Outcome!KeepAudits, Outcome!OutcomeInv

LEMMA WorkKeeps ==
    ASSUME Outcome!OutcomeInv, Outcome!Work PROVE Outcome!OutcomeInv'
<1>1. /\ UNCHANGED <<goInst, goFocus, goCalls, audits, active>>
      /\ counsel' = counsel \/ counsel' = Outcome!Followed(Outcome!Attempted)
      /\ UNCHANGED outcome \/ (Outcome!Edited /\ outcome.status = "active")
  BY DEF Outcome!Work, Outcome!KeepAudits
<1>2. SameAdvice(counsel')
  BY <1>1, FollowedSame DEF Outcome!OutcomeInv
<1>3. GoalMoves /\ (outcome' = outcome \/ outcome'.status # "complete")
  BY <1>1, GoalNext DEF Outcome!OutcomeInv
<1> QED
  BY <1>1, <1>2, <1>3, Quiet

LEMMA PausedKeeps ==
    ASSUME Outcome!OutcomeInv, Outcome!Paused PROVE Outcome!OutcomeInv'
<1>1. /\ UNCHANGED <<goInst, goFocus, goCalls, audits, active>> /\ counsel' = Outcome!Told
      /\ UNCHANGED outcome \/ Outcome!Becomes("paused")
  BY DEF Outcome!Paused, Outcome!KeepAudits
<1>2. SameAdvice(counsel')
  BY <1>1, ToldSame DEF Outcome!OutcomeInv
<1>3. GoalMoves /\ (outcome' = outcome \/ outcome'.status # "complete")
  BY <1>1, GoalNext DEF Outcome!OutcomeInv, Outcome!Statuses
<1> QED
  BY <1>1, <1>2, <1>3, Quiet

LEMMA ChangesKeeps ==
    ASSUME Outcome!OutcomeInv, Outcome!Changes PROVE Outcome!OutcomeInv'
<1>1. /\ UNCHANGED <<goInst, goFocus, goCalls, audits, active>>
      /\ counsel' = counsel \/ \E written \in BOOLEAN : counsel' = Outcome!Flushed(written)
      /\ \/ Outcome!Becomes("paused") \/ Outcome!Becomes("active")
         \/ Outcome!Becomes("budget_limited") \/ (Outcome!Edited /\ outcome.status # "complete")
  BY DEF Outcome!Changes, Outcome!KeepAudits, Outcome!Flush, Outcome!Buffer, Outcome!Open
<1>2. SameAdvice(counsel')
  BY <1>1, FlushedSame, FollowedSame DEF Outcome!OutcomeInv
<1>3. GoalMoves /\ (outcome' = outcome \/ outcome'.status # "complete")
  BY <1>1, GoalNext DEF Outcome!OutcomeInv, Outcome!Statuses
<1> QED
  BY <1>1, <1>2, <1>3, Quiet

-----------------------------------------------------------------------------
\* settle, of a record.
LEMMA SettlingFits ==
    ASSUME NEW x, NEW g, Outcome!AuditFits(x, g), x.ends = 0, NEW v \in Outcome!Verdicts,
           NEW ok \in BOOLEAN,
           NEW y, y = Outcome!Settling(x, v, ok)
    PROVE  /\ y \in Outcome!Audits /\ Outcome!AuditFits(y, g) /\ y.phase = "settled"
           /\ y.rev = x.rev
           /\ y.shape = x.shape /\ (ok => y.verdict = v /\ y.ends = 1)
<1> PICK w \in Outcome!Verdicts \cup {None} : w = IF ok THEN v ELSE x.verdict
  BY DEF Outcome!AuditFits, Outcome!Audits
<1> PICK e \in Nat : e <= 1 /\ e = IF ok THEN x.ends + 1 ELSE x.ends
  BY DEF Outcome!AuditFits, Outcome!Audits
<1> PICK p : p = [x EXCEPT !.phase = "settled"]
  OBVIOUS
<1>1. /\ p \in Outcome!Audits /\ p.phase = "settled" /\ p.rev = x.rev /\ p.shape = x.shape
      /\ p.ends = x.ends /\ p.verdict = x.verdict
  BY DEF Outcome!AuditFits, Outcome!Audits
<1> PICK q : q = [p EXCEPT !.verdict = w]
  OBVIOUS
<1>2. /\ q \in Outcome!Audits /\ q.phase = "settled" /\ q.rev = x.rev /\ q.shape = x.shape
      /\ q.ends = x.ends /\ q.verdict = w
  BY <1>1 DEF Outcome!Audits
<1>3. y = [q EXCEPT !.ends = e]
  BY <1>1, <1>2 DEF Outcome!Settling
<1>4. /\ y \in Outcome!Audits /\ y.phase = "settled" /\ y.rev = x.rev /\ y.shape = x.shape
      /\ y.ends = e /\ y.verdict = w
  BY <1>2, <1>3 DEF Outcome!Audits
<1> QED
  BY <1>4 DEF Outcome!AuditFits

LEMMA SettledIs ==
    ASSUME Outcome!AuditsFit, NEW n \in DOMAIN audits, Outcome!Unsettled(n),
           NEW v \in Outcome!Verdicts, NEW ok \in BOOLEAN,
           NEW a, a = Outcome!Settled(n, v, ok)
    PROVE  /\ a \in Seq(Outcome!Audits) /\ Len(a) = Len(audits) /\ DOMAIN a = DOMAIN audits
           /\ \A m \in DOMAIN audits : m # n => a[m] = audits[m]
           /\ Outcome!AuditFits(a[n], outcome) /\ a[n].phase = "settled"
           /\ a[n].rev = audits[n].rev
           /\ a[n].shape = audits[n].shape /\ (ok => a[n].ends = 1 /\ a[n].verdict = v)
<1>1. audits \in Seq(Outcome!Audits) /\ Outcome!AuditFits(audits[n], outcome)
      /\ audits[n].ends = 0
  BY DEF Outcome!AuditsFit, Outcome!Unsettled, Outcome!AuditFits
<1> PICK y : y = Outcome!Settling(audits[n], v, ok)
  OBVIOUS
<1>2. /\ y \in Outcome!Audits /\ Outcome!AuditFits(y, outcome) /\ y.phase = "settled"
      /\ y.rev = audits[n].rev
      /\ y.shape = audits[n].shape /\ (ok => y.verdict = v /\ y.ends = 1)
  BY <1>1, SettlingFits
<1>3. a = [audits EXCEPT ![n] = y]
  BY DEF Outcome!Settled
<1>4. a \in Seq(Outcome!Audits) /\ Len(a) = Len(audits) /\ DOMAIN a = DOMAIN audits /\ a[n] = y
      /\ \A m \in DOMAIN audits : m # n => a[m] = audits[m]
  BY <1>1, <1>2, <1>3
<1> QED
  BY <1>2, <1>4

\* No audit goes on once the active one is cancelled.
LEMMA CancelledIs ==
    ASSUME Outcome!AuditsFit, NEW ok \in BOOLEAN, NEW a, a = Outcome!Cancelled(active, ok)
    PROVE  /\ a \in Seq(Outcome!Audits) /\ Len(a) = Len(audits) /\ DOMAIN a = DOMAIN audits
           /\ \A n \in DOMAIN audits :
                /\ Outcome!AuditFits(a[n], outcome)
                /\ a[n].phase \notin {"running", "awaiting-choice"}
                /\ audits[n].ends = 1 => a[n] = audits[n]
<1>1. /\ audits \in Seq(Outcome!Audits) /\ active \in 0..Len(audits)
      /\ \A n \in DOMAIN audits :
           Outcome!AuditFits(audits[n], outcome) /\ (Outcome!Unsettled(n) => active = n)
  BY DEF Outcome!AuditsFit
<1>2. CASE Outcome!Unsettled(active)
  <2>1. active \in DOMAIN audits /\ audits[active].ends = 0
    BY <1>1, <1>2 DEF Outcome!Unsettled, Outcome!AuditFits
  <2>2. a = Outcome!Settled(active, "error", ok) /\ "error" \in Outcome!Verdicts
    BY <1>2 DEF Outcome!Cancelled, Outcome!Verdicts
  <2> QED
    BY <1>1, <1>2, <2>1, <2>2, SettledIs DEF Outcome!Unsettled
<1>3. CASE ~Outcome!Unsettled(active)
  BY <1>1, <1>3 DEF Outcome!Cancelled, Outcome!Unsettled
<1> QED
  BY <1>2, <1>3

LEMMA CancelKeeps ==
    ASSUME Outcome!OutcomeAssumption, Outcome!OutcomeInv, Outcome!CancelActive, GoalMoves,
           outcome' = outcome \/ outcome'.status # "complete"
    PROVE  Outcome!AuditsFit' /\ Outcome!AuditedCompletion'
<1>1. PICK ok \in BOOLEAN : audits' = Outcome!Cancelled(active, ok) /\ active' = 0
  BY DEF Outcome!CancelActive, Outcome!OutcomeAssumption, Outcome!OutcomeInv
<1>2. /\ audits' \in Seq(Outcome!Audits) /\ DOMAIN audits' = DOMAIN audits
      /\ \A n \in DOMAIN audits :
           /\ Outcome!AuditFits(audits'[n], outcome)
           /\ audits'[n].phase \notin {"running", "awaiting-choice"}
           /\ audits[n].ends = 1 => audits'[n] = audits[n]
  BY <1>1, CancelledIs DEF Outcome!OutcomeInv
<1> QED
  BY <1>1, <1>2, AuditsEnd, CompletionStays

\* Whoever waited before the focus changed is no longer current.
LEMMA Refocused ==
    ASSUME Outcome!OutcomeAssumption, Outcome!OutcomeInv, SameAdvice(counsel'),
           NEW on \in BOOLEAN,
           Outcome!Refocus(on), UNCHANGED goInst, GoalMoves,
           outcome' = outcome \/ outcome'.status # "complete",
           \/ UNCHANGED goCalls
           \/ goCalls' = [t \in OutcomeTasks |->
                          IF goCalls[t] = None THEN None ELSE [goCalls[t] EXCEPT !.live = FALSE]]
    PROVE  Outcome!OutcomeInv'
<1>1. /\ goFocus \in [on : BOOLEAN, rev : Nat] /\ goFocus' = [on |-> on, rev |-> goFocus.rev + 1]
      /\ goFocus'.rev = goFocus.rev + 1 /\ goFocus.rev \in Nat /\ FocusMoves
  BY DEF Outcome!Refocus, Outcome!OutcomeInv, Outcome!RecordsFit, FocusMoves
<1>2. Outcome!AuditsFit' /\ Outcome!AuditedCompletion'
  BY CancelKeeps DEF Outcome!Refocus
<1>3. Outcome!CallsFit'
  <2>1. CASE UNCHANGED goCalls
    BY <1>1, <2>1, CallsStay
  <2>2. CASE goCalls' = [t \in OutcomeTasks |->
                          IF goCalls[t] = None THEN None ELSE [goCalls[t] EXCEPT !.live = FALSE]]
    <3>1. ASSUME NEW t \in OutcomeTasks, goCalls'[t] # None
          PROVE  Outcome!CallFits(t)' /\ ~goCalls'[t].live
      <4>1. Outcome!CallFits(t) /\ goCalls'[t] = [goCalls[t] EXCEPT !.live = FALSE]
        BY <2>2, <3>1 DEF Outcome!OutcomeInv, Outcome!CallsFit
      <4>2. /\ goCalls'[t] \in Outcome!Calls /\ ~goCalls'[t].live
            /\ goCalls'[t].focus = goCalls[t].focus
            /\ goCalls[t].focus \in Nat /\ goCalls[t].focus <= goFocus.rev
        BY <4>1 DEF Outcome!CallFits, Outcome!Calls
      <4> QED
        BY <1>1, <4>2 DEF Outcome!CallFits, Outcome!Current
    <3>2. goCalls' = [t \in OutcomeTasks |-> goCalls'[t]]
      BY <2>2
    <3> QED
      BY <3>1, <3>2 DEF Outcome!CallsFit
  <2> QED
    BY <2>1, <2>2
<1> QED
  BY <1>1, <1>2, <1>3, RecordsNext DEF Outcome!OutcomeInv, SameAdvice

LEMMA GoalTurnEndKeeps ==
    ASSUME Outcome!OutcomeAssumption, Outcome!OutcomeInv,
           Outcome!TurnEnd PROVE Outcome!OutcomeInv'
<1>1. /\ UNCHANGED <<goInst, goCalls>>
      /\ counsel' = counsel \/ \E written \in BOOLEAN : counsel' = Outcome!Flushed(written)
      /\ \/ UNCHANGED <<outcome, goFocus, audits, active>>
         \/ Outcome!Becomes("archived") /\ \E on \in BOOLEAN : Outcome!Refocus(on)
  <2>1. \A charged \in BOOLEAN : (charged \/ outcome.status = "complete") \in BOOLEAN
    OBVIOUS
  <2> QED
    BY <2>1 DEF Outcome!TurnEnd
<1>2. SameAdvice(counsel')
  BY <1>1, FlushedSame, FollowedSame DEF Outcome!OutcomeInv
<1>3. CASE UNCHANGED <<outcome, goFocus, audits, active>>
  BY <1>1, <1>2, <1>3, Quiet, GoalNext DEF Outcome!OutcomeInv
<1>4. CASE Outcome!Becomes("archived") /\ \E on \in BOOLEAN : Outcome!Refocus(on)
  <2>1. GoalMoves /\ outcome'.status # "complete"
    BY <1>4, GoalNext DEF Outcome!OutcomeInv, Outcome!Statuses
  <2> PICK on \in BOOLEAN : Outcome!Refocus(on)
    BY <1>4
  <2> QED
    BY <1>1, <1>2, <2>1, Refocused
<1> QED
  BY <1>1, <1>3, <1>4

LEMMA FocusKeeps ==
    ASSUME Outcome!OutcomeAssumption, Outcome!OutcomeInv,
           Outcome!Leaves \/ Outcome!Focuses \/ Outcome!ReplaceSession PROVE Outcome!OutcomeInv'
<1>1. /\ \E written \in BOOLEAN : counsel' = Outcome!Flushed(written)
      /\ UNCHANGED goInst /\ (UNCHANGED outcome \/ Outcome!Becomes("archived"))
      /\ \/ UNCHANGED goCalls
         \/ goCalls' = [t \in OutcomeTasks |->
                        IF goCalls[t] = None THEN None ELSE [goCalls[t] EXCEPT !.live = FALSE]]
      /\ \E on \in BOOLEAN : Outcome!Refocus(on)
  BY DEF Outcome!Leaves, Outcome!Focuses, Outcome!ReplaceSession, Outcome!Flush
<1>2. SameAdvice(counsel')
  BY <1>1, FlushedSame DEF Outcome!OutcomeInv
<1>3. GoalMoves /\ (outcome' = outcome \/ outcome'.status # "complete")
  BY <1>1, GoalNext DEF Outcome!OutcomeInv, Outcome!Statuses
<1> QED
  BY <1>1, <1>2, <1>3, Refocused

LEMMA RestartKeeps ==
    ASSUME Outcome!OutcomeInv, Outcome!Restart PROVE Outcome!OutcomeInv'
<1>1. /\ UNCHANGED <<goInst, outcome, counsel>> /\ active' = 0
      /\ goCalls' = [t \in OutcomeTasks |-> None]
      /\ goFocus'.rev = goFocus.rev + 1 /\ goFocus' \in [on : BOOLEAN, rev : Nat]
      /\ audits' = [n \in DOMAIN audits |->
                      IF Outcome!Unsettled(n) THEN [audits[n] EXCEPT !.phase = "died"]
                      ELSE audits[n]]
  BY DEF Outcome!Restart, Outcome!OutcomeInv, Outcome!RecordsFit
<1>2. GoalMoves /\ FocusMoves /\ SameAdvice(counsel')
  BY <1>1, FollowedSame, GoalNext DEF Outcome!OutcomeInv, FocusMoves
<1>3. ASSUME NEW n \in DOMAIN audits
      PROVE  /\ Outcome!AuditFits(audits'[n], outcome) /\ audits'[n] \in Outcome!Audits
             /\ audits'[n].phase \notin {"running", "awaiting-choice"}
             /\ audits[n].ends = 1 => audits'[n] = audits[n]
  <2>1. Outcome!AuditFits(audits[n], outcome) /\ n # 0 /\ audits[n] \in Outcome!Audits
    BY DEF Outcome!OutcomeInv, Outcome!AuditsFit, Outcome!AuditFits
  <2>2. CASE Outcome!Unsettled(n)
    <3>1. audits'[n] = [audits[n] EXCEPT !.phase = "died"] /\ audits[n].ends = 0
      BY <1>1, <2>1, <2>2 DEF Outcome!Unsettled, Outcome!AuditFits
    <3> QED
      BY <2>1, <3>1 DEF Outcome!AuditFits, Outcome!Audits
  <2>3. CASE ~Outcome!Unsettled(n)
    BY <1>1, <2>1, <2>3 DEF Outcome!Unsettled, Outcome!AuditFits
  <2> QED
    BY <2>2, <2>3
<1>4. audits' \in Seq(Outcome!Audits) /\ DOMAIN audits' = DOMAIN audits
      /\ active' \in 0..Len(audits')
  BY <1>1, <1>3 DEF Outcome!OutcomeInv, Outcome!AuditsFit
<1>5. Outcome!AuditsFit'
  BY <1>2, <1>3, <1>4, AuditsEnd
<1>6. Outcome!AuditedCompletion'
  BY <1>1, <1>3, <1>4, CompletionStays
<1>7. Outcome!CallsFit'
  BY <1>1 DEF Outcome!CallsFit
<1> QED
  BY <1>1, <1>2, <1>5, <1>6, <1>7, RecordsNext DEF Outcome!OutcomeInv, SameAdvice

-----------------------------------------------------------------------------
(* Calls.                                                                    *)

LEMMA NobodyAudits ==
    ASSUME Outcome!OutcomeInv, Outcome!NoLiveCall
    PROVE  \A n \in DOMAIN audits : audits[n].phase \notin {"running", "awaiting-choice"}
BY
   DEF Outcome!OutcomeInv, Outcome!AuditsFit, Outcome!Unsettled, Outcome!Awaited,
       Outcome!NoLiveCall

LEMMA CallWaits ==
    ASSUME Outcome!OutcomeAssumption, Outcome!OutcomeInv, NEW t \in OutcomeTasks,
           NEW at \in {"oracle", "audit", "dialog"},
           NEW audit \in Nat, Outcome!Waits(t, at, audit), Outcome!NoLiveCall, UNCHANGED goFocus,
           SameAdvice(counsel'),
           at = "oracle" /\ outcome.shape \in Outcome!Shapes =>
             counsel[outcome.shape].result = None
    PROVE  /\ Outcome!CallsFit' /\ goCalls'[t] # None /\ goCalls'[t].live
           /\ goCalls'[t].audit = audit
           /\ goCalls'[t].at = at /\ goCalls'[t].focus = goFocus.rev
<1> DEFINE c == [at |-> at, live |-> TRUE, focus |-> goFocus.rev, shape |-> outcome.shape,
                 audit |-> audit]
<1>1. outcome.shape \in Nat /\ goFocus.rev \in Nat
      /\ goCalls = [u \in OutcomeTasks |-> goCalls[u]]
  BY DEF Outcome!OutcomeInv, Outcome!RecordsFit, Outcome!CallsFit
<1>2. /\ c \in Outcome!Calls /\ c # None /\ c.live /\ c.audit = audit /\ c.at = at
      /\ c.focus = goFocus.rev
      /\ c.shape = outcome.shape
  <2>1. c \in Outcome!Calls
    BY <1>1 DEF Outcome!Calls
  <2> QED
    BY <2>1 DEF Outcome!OutcomeAssumption
<1>3. goCalls' = [u \in OutcomeTasks |-> IF u = t THEN c ELSE goCalls[u]]
  BY <1>1 DEF Outcome!Waits
<1> HIDE DEF c
<1>4. Outcome!CallFits(t)'
  BY <1>1, <1>2, <1>3 DEF Outcome!CallFits, SameAdvice
<1>5. ASSUME NEW u \in OutcomeTasks, u # t, goCalls'[u] # None
      PROVE  Outcome!CallFits(u)' /\ ~goCalls'[u].live
  <2>1. Outcome!CallFits(u) /\ goCalls'[u] = goCalls[u] /\ ~goCalls[u].live
    BY <1>3, <1>5 DEF Outcome!OutcomeInv, Outcome!CallsFit, Outcome!NoLiveCall
  <2>2. Outcome!Current(u)' => Outcome!Current(u)
    BY <2>1 DEF Outcome!Current
  <2> QED
    BY <2>1, <2>2 DEF Outcome!CallFits, SameAdvice
<1> QED
  BY <1>2, <1>3, <1>4, <1>5 DEF Outcome!CallsFit

\* A call that comes back leaves the others as they were, if what it brings
\* does not concern a current one.
LEMMA CallReturns ==
    ASSUME Outcome!OutcomeInv, NEW t \in OutcomeTasks, Outcome!Returns(t), UNCHANGED goFocus,
           \A u \in OutcomeTasks :
             u # t /\ goCalls[u] # None /\ Outcome!Current(u) /\ goCalls[u].shape \in Outcome!Shapes =>
               counsel'[goCalls[u].shape].result = counsel[goCalls[u].shape].result
    PROVE  Outcome!CallsFit' /\ \A u \in OutcomeTasks : u # t => goCalls'[u] = goCalls[u]
<1>1. goCalls' = [u \in OutcomeTasks |-> IF u = t THEN None ELSE goCalls[u]]
  BY DEF Outcome!OutcomeInv, Outcome!CallsFit, Outcome!Returns
<1>2. ASSUME NEW u \in OutcomeTasks, goCalls'[u] # None
      PROVE  Outcome!CallFits(u)' /\ u # t /\ goCalls'[u] = goCalls[u]
  <2>1. Outcome!CallFits(u) /\ goCalls'[u] = goCalls[u] /\ u # t /\ goCalls[u] # None
    BY <1>1, <1>2 DEF Outcome!OutcomeInv, Outcome!CallsFit
  <2>2. Outcome!Current(u)' => Outcome!Current(u)
    BY <2>1 DEF Outcome!Current
  <2> QED
    BY <2>1, <2>2 DEF Outcome!CallFits
<1> QED
  BY <1>1, <1>2 DEF Outcome!CallsFit, Outcome!OutcomeInv

LEMMA AuditsWait ==
    ASSUME Outcome!OutcomeInv, NEW t \in OutcomeTasks, UNCHANGED <<audits, active, goFocus>>,
           GoalMoves,
           \A u \in OutcomeTasks : u # t => goCalls'[u] = goCalls[u],
           goCalls[t] # None, goCalls[t].at = "oracle" \/ ~Outcome!AuditCurrent(t)
    PROVE  Outcome!AuditsFit'
<1>1. ASSUME NEW n \in DOMAIN audits, Outcome!Unsettled(n)
      PROVE  Outcome!Awaited(n)'
  <2>1. active = n /\ Outcome!Awaited(n)
    BY <1>1 DEF Outcome!OutcomeInv, Outcome!AuditsFit
  <2>2. PICK u \in OutcomeTasks :
          /\ goCalls[u] # None /\ goCalls[u].live /\ goCalls[u].audit = n
          /\ goCalls[u].at # "oracle" /\ Outcome!Current(u)
    BY <2>1 DEF Outcome!Awaited
  <2>3. u # t
    BY <1>1, <2>1, <2>2 DEF Outcome!AuditCurrent
  <2> QED
    BY <2>2, <2>3 DEF Outcome!Awaited, Outcome!Current
<1> QED
  BY <1>1, AuditsStay

\* Of two current calls, one would be of a session that was replaced.
LEMMA OneCurrent ==
    ASSUME Outcome!OutcomeInv, NEW t \in OutcomeTasks, NEW u \in OutcomeTasks,
           goCalls[t] # None, goCalls[u] # None,
           Outcome!Current(t), Outcome!Current(u)
    PROVE  t = u /\ goCalls[t].live
<1>1. \A v \in OutcomeTasks : goCalls[v] # None /\ Outcome!Current(v) => goCalls[v].live
  <2> SUFFICES ASSUME NEW v \in OutcomeTasks, goCalls[v] # None, Outcome!Current(v)
               PROVE  goCalls[v].live
    OBVIOUS
  <2>1. Outcome!CallFits(v) /\ goCalls[v].focus \in Nat
    BY DEF Outcome!OutcomeInv, Outcome!CallsFit, Outcome!CallFits, Outcome!Calls
  <2> QED
    BY <2>1 DEF Outcome!CallFits, Outcome!Current, Outcome!Calls
<1> QED
  BY <1>1 DEF Outcome!OutcomeInv, Outcome!CallsFit

LEMMA BlockedKeeps ==
    ASSUME Outcome!OutcomeAssumption, Outcome!OutcomeInv, NEW t \in OutcomeTasks,
           Outcome!Blocked(t) PROVE Outcome!OutcomeInv'
<1>1. UNCHANGED <<goInst, goFocus, audits, active>> /\ SameAdvice(Outcome!Told)
  BY ToldSame DEF Outcome!Blocked, Outcome!KeepAudits, Outcome!OutcomeInv
<1>2. CASE counsel' = Outcome!Told /\ UNCHANGED <<outcome, goCalls>>
  BY <1>1, <1>2, Quiet, GoalNext DEF Outcome!OutcomeInv
<1>3. CASE /\ Outcome!CommitBlocked /\ UNCHANGED goCalls
           /\ \/ counsel' = Outcome!Told
              \/ counsel' = [Outcome!Told EXCEPT ![outcome.shape].failed = @ + 1]
  <2>1. SameAdvice(counsel')
    BY <1>1, <1>3, FailedSame
  <2> QED
    BY <1>1, <1>3, <2>1, Quiet, GoalNext DEF Outcome!OutcomeInv
<1>4. CASE /\ Outcome!Told[outcome.shape].result = None /\ counsel' = Outcome!Told
           /\ Outcome!Waits(t, "oracle", 0) /\ UNCHANGED outcome /\ Outcome!NoLiveCall
  <2>1. outcome.shape \in Outcome!Shapes => counsel[outcome.shape].result = None
    BY <1>1, <1>4 DEF SameAdvice
  <2>2. GoalMoves /\ FocusMoves
    BY <1>1, <1>4, GoalNext DEF Outcome!OutcomeInv, FocusMoves, Outcome!RecordsFit
  <2>3. Outcome!CallsFit'
    BY <1>1, <1>4, <2>1, CallWaits
  <2>4. Outcome!AuditsFit'
    BY <1>1, <1>4, <2>2, NobodyAudits, AuditsStay DEF Outcome!Unsettled
  <2>5. Outcome!AuditedCompletion'
    BY <1>1, <1>4, CompletionStays
  <2> QED
    BY <1>1, <1>4, <2>2, <2>3, <2>4, <2>5, RecordsNext DEF Outcome!OutcomeInv, SameAdvice
<1> QED
  BY <1>2, <1>3, <1>4 DEF Outcome!Blocked, Outcome!UpdateGoal, Outcome!CanCall

LEMMA AdvisingFits ==
    ASSUME Outcome!OutcomeAssumption, NEW x, Outcome!AdviceFits(x), x.result = None,
           NEW d \in Outcome!Dispositions,
           NEW y, y = Outcome!Advising(x, d)
    PROVE  Outcome!AdviceFits(y)
<1> PICK w : w = [x EXCEPT !.result = d]
  OBVIOUS
<1>1. x.results = 0 /\ d # None
  BY DEF Outcome!AdviceFits, Outcome!OutcomeAssumption
<1>2. /\ w \in [result : Outcome!Dispositions \cup {None}, results : Nat, failed : Nat,
               followed : BOOLEAN]
      /\ w.results = 0 /\ w.result = d
  BY <1>1 DEF Outcome!AdviceFits
<1> PICK one \in Nat : one = 1
  OBVIOUS
<1>3. y = [w EXCEPT !.results = one]
  BY <1>1, <1>2 DEF Outcome!Advising
<1>4. /\ y \in [result : Outcome!Dispositions \cup {None}, results : Nat, failed : Nat,
               followed : BOOLEAN]
      /\ y.results = one /\ y.result = d
  BY <1>2, <1>3
<1> QED
  BY <1>1, <1>4 DEF Outcome!AdviceFits

\* The oracle is asked about what it has said nothing about.
LEMMA AdvisedFits ==
    ASSUME Outcome!OutcomeAssumption, Outcome!RecordsFit, NEW f,
           f \in Outcome!Shapes => counsel[f].result = None,
           NEW d \in Outcome!Dispositions, Outcome!Advised(f, d)
    PROVE  /\ counsel' = [g \in Outcome!Shapes |-> counsel'[g]]
           /\ \A g \in Outcome!Shapes : Outcome!AdviceFits(counsel'[g])
           /\ \A g \in Outcome!Shapes : g # f => counsel'[g] = counsel[g]
<1> PICK y : y = Outcome!Advising(counsel[f], d)
  OBVIOUS
<1>1. counsel' = [counsel EXCEPT ![f] = y]
  BY DEF Outcome!Advised
<1>2. counsel = [g \in Outcome!Shapes |-> counsel[g]]
      /\ \A g \in Outcome!Shapes : Outcome!AdviceFits(counsel[g])
  BY DEF Outcome!RecordsFit
<1>3. counsel' = [g \in Outcome!Shapes |-> counsel'[g]] /\ \A g \in Outcome!Shapes : g # f =>
        counsel'[g] = counsel[g]
  BY <1>1, <1>2
<1>4. f \in Outcome!Shapes => counsel'[f] = y /\ Outcome!AdviceFits(y)
  BY <1>1, <1>2, AdvisingFits
<1> QED
  BY <1>2, <1>3, <1>4

LEMMA OracleAnswersKeeps ==
    ASSUME Outcome!OutcomeAssumption, Outcome!OutcomeInv, NEW t \in OutcomeTasks,
           Outcome!OracleAnswers(t) PROVE Outcome!OutcomeInv'
<1> DEFINE f == goCalls[t].shape
<1>1. /\ goCalls[t] # None /\ goCalls[t].at = "oracle" /\ Outcome!Returns(t)
      /\ UNCHANGED <<goInst, goFocus, audits, active>>
  BY DEF Outcome!OracleAnswers, Outcome!KeepAudits
<1>2. FocusMoves
  BY <1>1 DEF FocusMoves, Outcome!OutcomeInv, Outcome!RecordsFit
<1>3. CASE /\ UNCHANGED outcome
           /\ UNCHANGED counsel \/ counsel' = [counsel EXCEPT ![f].failed = @ + 1]
  <2>1. GoalMoves /\ SameAdvice(counsel')
    BY <1>3, GoalNext, FollowedSame, FailedSame DEF Outcome!OutcomeInv
  <2>2. Outcome!CallsFit' /\ \A u \in OutcomeTasks : u # t => goCalls'[u] = goCalls[u]
    BY <1>1, <2>1, CallReturns DEF SameAdvice
  <2>3. Outcome!AuditsFit' /\ Outcome!AuditedCompletion'
    BY <1>1, <1>3, <2>1, <2>2, AuditsWait, CompletionStays
  <2> QED
    BY <1>1, <1>2, <2>1, <2>2, <2>3, RecordsNext DEF Outcome!OutcomeInv, SameAdvice
<1>4. CASE /\ Outcome!Current(t) /\ \E d \in Outcome!Dispositions : Outcome!Advised(f, d)
           /\ UNCHANGED outcome \/ Outcome!CommitBlocked
  <2>1. GoalMoves /\ (outcome' = outcome \/ outcome'.status # "complete")
    BY <1>4, GoalNext DEF Outcome!OutcomeInv
  <2>2. f \in Outcome!Shapes => counsel[f].result = None
    BY <1>1, <1>4 DEF Outcome!OutcomeInv, Outcome!CallsFit, Outcome!CallFits
  <2>3. /\ counsel' = [g \in Outcome!Shapes |-> counsel'[g]]
        /\ \A g \in Outcome!Shapes : Outcome!AdviceFits(counsel'[g])
    BY <1>4, <2>2, AdvisedFits DEF Outcome!OutcomeInv
  <2>4. Outcome!CallsFit' /\ \A u \in OutcomeTasks : u # t => goCalls'[u] = goCalls[u]
    BY <1>1, <1>4, OneCurrent, CallReturns
  <2>5. Outcome!AuditsFit' /\ Outcome!AuditedCompletion'
    BY <1>1, <2>1, <2>4, AuditsWait, CompletionStays
  <2> QED
    BY <1>1, <1>2, <2>1, <2>3, <2>4, <2>5, RecordsNext DEF Outcome!OutcomeInv
<1> QED
  <2>1. /\ "actionable" \in Outcome!Dispositions /\ "needs_human" \in Outcome!Dispositions
        /\ "insufficient_context" \in Outcome!Dispositions
    BY DEF Outcome!Dispositions
  <2> HIDE DEF f
  <2>2. Outcome!OracleAnswers(t) =>
          \/ /\ UNCHANGED outcome
             /\ UNCHANGED counsel \/ counsel' = [counsel EXCEPT ![f].failed = @ + 1]
          \/ /\ Outcome!Current(t) /\ \E d \in Outcome!Dispositions : Outcome!Advised(f, d)
             /\ UNCHANGED outcome \/ Outcome!CommitBlocked
    BY <2>1 DEF Outcome!OracleAnswers, f
  <2> QED
    BY <1>3, <1>4, <2>2

LEMMA EscapeKeeps ==
    ASSUME Outcome!OutcomeInv, Outcome!Escape PROVE Outcome!OutcomeInv'
<1>1. /\ active \in DOMAIN audits /\ audits[active].phase = "running"
      /\ audits \in Seq(Outcome!Audits)
      /\ UNCHANGED <<goInst, outcome, goFocus, counsel, active, goCalls>>
      /\ Outcome!AuditFits(audits[active], outcome)
  BY DEF Outcome!Escape, Outcome!KeepGoal, Outcome!OutcomeInv, Outcome!AuditsFit
<1> PICK x : x = [audits[active] EXCEPT !.phase = "awaiting-choice"]
  OBVIOUS
<1> PICK y : y = [x EXCEPT !.aborted = TRUE]
  OBVIOUS
<1>2. /\ x \in Outcome!Audits /\ x.ends = audits[active].ends /\ x.rev = audits[active].rev
      /\ x.shape = audits[active].shape /\ x.phase = "awaiting-choice"
  BY <1>1 DEF Outcome!AuditFits, Outcome!Audits
<1>3. /\ y \in Outcome!Audits /\ Outcome!AuditFits(y, outcome)
  BY <1>1, <1>2 DEF Outcome!AuditFits, Outcome!Audits
<1>4. audits' = [audits EXCEPT ![active] = y]
  <2> PICK a : a = [audits EXCEPT ![active].phase = "awaiting-choice"]
    OBVIOUS
  <2>1. a = [audits EXCEPT ![active] = x]
    BY <1>1
  <2>2. audits' = [a EXCEPT ![active].aborted = TRUE]
    BY DEF Outcome!Escape
  <2>3. a[active] = x
    BY <1>1, <2>1
  <2> QED
    BY <1>1, <2>1, <2>2, <2>3
<1>5. /\ audits' \in Seq(Outcome!Audits) /\ Len(audits') = Len(audits)
      /\ DOMAIN audits' = DOMAIN audits
      /\ audits'[active] = y /\ \A n \in DOMAIN audits : n # active => audits'[n] = audits[n]
  BY <1>1, <1>3, <1>4
<1>6. GoalMoves /\ FocusMoves /\ SameAdvice(counsel')
  BY <1>1, FollowedSame, GoalNext DEF Outcome!OutcomeInv, FocusMoves, Outcome!RecordsFit
<1>7. Outcome!AuditsFit'
  <2>1. \A n \in DOMAIN audits' : Outcome!AuditFits(audits'[n], outcome')
    BY <1>1, <1>3, <1>5 DEF Outcome!OutcomeInv, Outcome!AuditsFit
  <2>2. Outcome!Unsettled(active)
    BY <1>1 DEF Outcome!Unsettled
  <2>3. \A n \in DOMAIN audits' : Outcome!Unsettled(n)' => Outcome!Unsettled(n)
    BY <1>5, <2>2 DEF Outcome!Unsettled
  <2>4. \A n \in DOMAIN audits' : Outcome!Unsettled(n)' => active' = n /\ Outcome!Awaited(n)'
    BY <1>1, <1>5, <2>3
       DEF Outcome!OutcomeInv, Outcome!AuditsFit, Outcome!Awaited, Outcome!Current
  <2> QED
    BY <1>1, <1>5, <2>1, <2>4 DEF Outcome!OutcomeInv, Outcome!AuditsFit
<1>8. Outcome!AuditedCompletion'
  <2>1. audits[active].ends = 0
    BY <1>1 DEF Outcome!AuditFits
  <2> QED
    BY <1>1, <1>5, <2>1, CompletionStays
<1> QED
  BY <1>1, <1>6, <1>7, <1>8, RecordsNext, CallsStay DEF Outcome!OutcomeInv, SameAdvice

-----------------------------------------------------------------------------
(* "complete" and the audits.                                                *)

LEMMA CompletesNext ==
    ASSUME Outcome!OutcomeInv, NEW allowed, Outcome!Completes(allowed)
    PROVE  /\ GoalMoves
           /\ \/ outcome' = outcome \/ outcome'.status # "complete"
              \/ /\ allowed /\ outcome'.status = "complete" /\ outcome'.rev = outcome.rev + 1
                 /\ outcome'.shape = outcome.shape
BY GoalNext DEF Outcome!OutcomeInv, Outcome!Completes, Outcome!Statuses

\* An audit that begins, or that the setting excuses.
LEMMA AuditIs ==
    ASSUME Outcome!OutcomeInv, NEW phase \in {"running", "settled"},
           NEW verdict \in Outcome!Verdicts \cup {None},
           phase = "running" => verdict = None, NEW x, x = Outcome!Audit(phase, verdict)
    PROVE  /\ x \in Outcome!Audits /\ Outcome!AuditFits(x, outcome) /\ x.phase = phase
           /\ x.verdict = verdict
           /\ x.rev = outcome.rev /\ x.shape = outcome.shape /\ (verdict # None => x.ends = 1)
<1>1. outcome.rev \in Nat /\ outcome.shape \in Nat
  BY DEF Outcome!OutcomeInv, Outcome!RecordsFit
<1> QED
  BY <1>1 DEF Outcome!Audit, Outcome!Audits, Outcome!AuditFits

LEMMA CompleteKeeps ==
    ASSUME Outcome!OutcomeAssumption, Outcome!OutcomeInv, NEW t \in OutcomeTasks,
           Outcome!Complete(t) PROVE Outcome!OutcomeInv'
<1>1. /\ UNCHANGED <<goInst, goFocus>> /\ counsel' = Outcome!Told /\ Outcome!NoLiveCall
      /\ goInst.appends \subseteq BOOLEAN
  BY
     DEF Outcome!Complete, Outcome!UpdateGoal, Outcome!CanCall, Outcome!OutcomeInv,
         Outcome!OutcomeAssumption
<1>2. SameAdvice(counsel') /\ FocusMoves
  BY <1>1, ToldSame DEF Outcome!OutcomeInv, FocusMoves, Outcome!RecordsFit
<1>3. CASE UNCHANGED <<outcome, audits, active, goCalls>>
  BY <1>1, <1>2, <1>3, Quiet, GoalNext DEF Outcome!OutcomeInv
<1>4. ASSUME NEW ok \in BOOLEAN, NEW a, a = Outcome!Cancelled(active, ok),
             NEW x, x \in Outcome!Audits, Outcome!AuditFits(x, outcome), audits' = Append(a, x)
      PROVE  /\ audits' \in Seq(Outcome!Audits) /\ Len(audits') = Len(audits) + 1
             /\ Len(audits) \in Nat
             /\ DOMAIN audits' = 1..(Len(audits) + 1) /\ DOMAIN audits = 1..Len(audits)
             /\ audits'[Len(audits) + 1] = x
             /\ \A n \in DOMAIN audits :
                  /\ Outcome!AuditFits(audits'[n], outcome)
                  /\ audits'[n].phase \notin {"running", "awaiting-choice"}
                  /\ audits[n].ends = 1 => audits'[n] = audits[n]
  <2>1. /\ a \in Seq(Outcome!Audits) /\ Len(a) = Len(audits) /\ DOMAIN a = DOMAIN audits
        /\ audits \in Seq(Outcome!Audits)
        /\ \A n \in DOMAIN audits :
             /\ Outcome!AuditFits(a[n], outcome)
             /\ a[n].phase \notin {"running", "awaiting-choice"}
             /\ audits[n].ends = 1 => a[n] = audits[n]
    BY <1>4, CancelledIs DEF Outcome!OutcomeInv, Outcome!AuditsFit
  <2>2. /\ audits' \in Seq(Outcome!Audits) /\ Len(audits') = Len(audits) + 1
        /\ audits'[Len(audits) + 1] = x /\ \A n \in 1..Len(audits) : audits'[n] = a[n]
    BY <1>4, <2>1
  <2> QED
    BY <2>1, <2>2
\* Nothing goes on: the setting excuses the audit, or it cannot be recorded.
<1>5. CASE \E ok, started \in BOOLEAN :
             /\ UNCHANGED goCalls /\ active' = 0
             /\ \/ /\ audits' = Append(Outcome!Cancelled(active, ok),
                          Outcome!Audit("settled", IF started THEN "disabled" ELSE None))
                   /\ Outcome!Completes(started)
                \/ /\ audits' = Append(Outcome!Cancelled(active, ok),
                          Outcome!Audit("settled", IF ok THEN "error" ELSE None))
                   /\ UNCHANGED outcome
  <2> PICK ok \in BOOLEAN, started \in BOOLEAN :
             /\ UNCHANGED goCalls /\ active' = 0
             /\ \/ /\ audits' = Append(Outcome!Cancelled(active, ok),
                          Outcome!Audit("settled", IF started THEN "disabled" ELSE None))
                   /\ Outcome!Completes(started)
                \/ /\ audits' = Append(Outcome!Cancelled(active, ok),
                          Outcome!Audit("settled", IF ok THEN "error" ELSE None))
                   /\ UNCHANGED outcome
    BY <1>5
  <2> PICK verdict \in Outcome!Verdicts \cup {None} :
        /\ audits' = Append(Outcome!Cancelled(active, ok), Outcome!Audit("settled", verdict))
        /\ \/ UNCHANGED outcome
           \/ Outcome!Completes(started) /\ verdict = IF started THEN "disabled" ELSE None
    BY DEF Outcome!Verdicts
  <2> PICK x : x = Outcome!Audit("settled", verdict)
    OBVIOUS
  <2>1. /\ x \in Outcome!Audits /\ Outcome!AuditFits(x, outcome) /\ x.phase = "settled"
        /\ x.verdict = verdict
        /\ x.rev = outcome.rev /\ x.shape = outcome.shape /\ (verdict # None => x.ends = 1)
    BY AuditIs
  <2> PICK a : a = Outcome!Cancelled(active, ok)
    OBVIOUS
  <2>2. /\ audits' \in Seq(Outcome!Audits) /\ Len(audits') = Len(audits) + 1
        /\ Len(audits) \in Nat
        /\ DOMAIN audits' = 1..(Len(audits) + 1) /\ DOMAIN audits = 1..Len(audits)
        /\ audits'[Len(audits) + 1] = x
        /\ \A n \in DOMAIN audits :
             /\ Outcome!AuditFits(audits'[n], outcome)
             /\ audits'[n].phase \notin {"running", "awaiting-choice"}
             /\ audits[n].ends = 1 => audits'[n] = audits[n]
    BY <1>4, <2>1
  <2>3. /\ GoalMoves
        /\ \/ outcome' = outcome \/ outcome'.status # "complete"
           \/ /\ verdict = "disabled" /\ outcome'.status = "complete"
              /\ outcome'.rev = outcome.rev + 1 /\ outcome'.shape = outcome.shape
    BY CompletesNext, GoalNext DEF Outcome!OutcomeInv
  <2>4. Outcome!AuditsFit'
    <3>1. \A n \in DOMAIN audits' :
            /\ Outcome!AuditFits(audits'[n], outcome)
            /\ audits'[n].phase \notin {"running", "awaiting-choice"}
      BY <2>1, <2>2
    <3> QED
      BY <2>2, <2>3, <3>1, AuditsEnd
  <2>5. Outcome!AuditedCompletion'
    <3>1. CASE outcome' = outcome \/ outcome'.status # "complete"
      BY <2>2, <3>1, CompletionStays
    <3>2. CASE /\ verdict = "disabled" /\ outcome'.rev = outcome.rev + 1
               /\ outcome'.shape = outcome.shape
      <4>1. verdict # None
        BY <3>2 DEF Outcome!OutcomeAssumption, Outcome!Verdicts
      <4> QED
        BY <2>1, <2>2, <3>2, <4>1 DEF Outcome!AuditedCompletion
    <3> QED
      BY <2>3, <3>1, <3>2
  <2>6. Outcome!CallsFit'
    BY <1>2, CallsStay
  <2> QED
    BY <1>1, <1>2, <2>3, <2>4, <2>5, <2>6, RecordsNext DEF Outcome!OutcomeInv, SameAdvice
\* An audit begins, and a call waits for it.
<1>6. CASE \E ok \in BOOLEAN :
             /\ UNCHANGED outcome /\ goFocus.on
             /\ audits' = Append(Outcome!Cancelled(active, ok), Outcome!Audit("running", None))
             /\ active' = Len(audits) + 1 /\ Outcome!Waits(t, "audit", Len(audits) + 1)
  <2> PICK ok \in BOOLEAN :
             /\ UNCHANGED outcome /\ goFocus.on
             /\ audits' = Append(Outcome!Cancelled(active, ok), Outcome!Audit("running", None))
             /\ active' = Len(audits) + 1 /\ Outcome!Waits(t, "audit", Len(audits) + 1)
    BY <1>6
  <2> PICK x : x = Outcome!Audit("running", None)
    OBVIOUS
  <2>1. x \in Outcome!Audits /\ Outcome!AuditFits(x, outcome)
    BY AuditIs
  <2> PICK a : a = Outcome!Cancelled(active, ok)
    OBVIOUS
  <2>2. /\ audits' \in Seq(Outcome!Audits) /\ Len(audits') = Len(audits) + 1
        /\ Len(audits) \in Nat
        /\ DOMAIN audits' = 1..(Len(audits) + 1) /\ DOMAIN audits = 1..Len(audits)
        /\ audits'[Len(audits) + 1] = x
        /\ \A n \in DOMAIN audits :
             /\ Outcome!AuditFits(audits'[n], outcome)
             /\ audits'[n].phase \notin {"running", "awaiting-choice"}
             /\ audits[n].ends = 1 => audits'[n] = audits[n]
    BY <1>4, <2>1
  <2>3. GoalMoves
    BY GoalNext DEF Outcome!OutcomeInv
  <2>4. /\ Outcome!CallsFit' /\ goCalls'[t] # None /\ goCalls'[t].live
        /\ goCalls'[t].audit = Len(audits) + 1
        /\ goCalls'[t].at = "audit" /\ goCalls'[t].focus = goFocus.rev
    BY <1>1, <1>2, <2>2, CallWaits
  <2>5. Outcome!AuditedCompletion'
    BY <2>2, CompletionStays
  <2>6. Outcome!AuditsFit'
    <3>1. \A n \in DOMAIN audits' : Outcome!AuditFits(audits'[n], outcome')
      BY <2>1, <2>2, <2>3, AuditAges DEF Outcome!OutcomeInv
    <3> PICK m \in Nat : m = Len(audits) + 1
      BY <2>2
    <3>2. Outcome!Awaited(m)'
      BY <1>1, <2>4 DEF Outcome!Awaited, Outcome!Current
    <3>3. \A n \in DOMAIN audits' : Outcome!Unsettled(n)' => n = m
      BY <2>2 DEF Outcome!Unsettled
    <3>4. active' = m /\ active' \in 0..Len(audits')
      BY <2>2
    <3> QED
      BY <2>2, <3>1, <3>2, <3>3, <3>4 DEF Outcome!AuditsFit
  <2> QED
    BY <1>1, <1>2, <2>3, <2>4, <2>5, <2>6, RecordsNext DEF Outcome!OutcomeInv, SameAdvice
<1> QED
  BY <1>1, <1>3, <1>5, <1>6 DEF Outcome!Complete

LEMMA SupersededKeeps ==
    ASSUME Outcome!OutcomeInv, NEW t \in OutcomeTasks, goCalls[t] # None, Outcome!Superseded(t),
           UNCHANGED <<goInst, goFocus, counsel>>
    PROVE  Outcome!OutcomeInv'
<1>1. GoalMoves /\ FocusMoves /\ SameAdvice(counsel')
  BY FollowedSame, GoalNext
     DEF Outcome!OutcomeInv, FocusMoves, Outcome!RecordsFit, Outcome!Superseded
<1>2. Outcome!CallsFit' /\ \A u \in OutcomeTasks : u # t => goCalls'[u] = goCalls[u]
  BY CallReturns DEF Outcome!Superseded
<1>3. Outcome!AuditsFit'
  BY <1>1, <1>2, AuditsWait DEF Outcome!Superseded
<1>4. Outcome!AuditedCompletion'
  BY CompletionStays DEF Outcome!Superseded
<1> QED
  BY <1>1, <1>2, <1>3, <1>4, RecordsNext DEF Outcome!OutcomeInv, SameAdvice

\* The verdict on the active audit: what completes the goal is in the ledger,
\* and was of this revision.
LEMMA OutcomeKeeps ==
    ASSUME Outcome!OutcomeAssumption, Outcome!OutcomeInv, NEW t \in OutcomeTasks,
           Outcome!AuditCurrent(t),
           NEW verdict \in Outcome!Verdicts, NEW completes \in BOOLEAN,
           Outcome!Outcome(t, verdict, completes),
           completes => verdict \in {"approved", "user_aborted"},
           UNCHANGED <<goInst, goFocus, counsel>>
    PROVE  Outcome!OutcomeInv'
<1> DEFINE n == goCalls[t].audit
<1>0. goInst.appends \subseteq BOOLEAN
  BY DEF Outcome!OutcomeInv, Outcome!OutcomeAssumption
<1>2. PICK ok \in BOOLEAN :
        audits' = Outcome!Settled(n, verdict, ok) /\ Outcome!Completes(ok /\ completes /\ Outcome!Commits(n))
  BY <1>0, Zenon DEF Outcome!Outcome
<1> PICK allowed \in BOOLEAN :
      Outcome!Completes(allowed) /\ (allowed => ok /\ completes /\ Outcome!Commits(n))
  BY <1>2 DEF Outcome!Commits
<1>1. /\ active = n /\ Outcome!Unsettled(n) /\ n \in DOMAIN audits
      /\ Outcome!AuditFits(audits[n], outcome)
      /\ audits \in Seq(Outcome!Audits) /\ audits[n].ends = 0
  BY
     DEF Outcome!AuditCurrent, Outcome!OutcomeInv, Outcome!AuditsFit, Outcome!Unsettled,
         Outcome!AuditFits
<1> HIDE DEF n
<1>3. /\ audits' \in Seq(Outcome!Audits) /\ Len(audits') = Len(audits)
      /\ DOMAIN audits' = DOMAIN audits
      /\ \A m \in DOMAIN audits : m # n => audits'[m] = audits[m]
      /\ Outcome!AuditFits(audits'[n], outcome) /\ audits'[n].phase = "settled"
      /\ audits'[n].rev = audits[n].rev /\ audits'[n].shape = audits[n].shape
      /\ ok => audits'[n].ends = 1 /\ audits'[n].verdict = verdict
  BY <1>1, <1>2, SettledIs DEF Outcome!OutcomeInv
<1>4. /\ GoalMoves
      /\ \/ outcome' = outcome \/ outcome'.status # "complete"
         \/ /\ ok /\ completes /\ Outcome!Commits(n)
            /\ outcome'.rev = outcome.rev + 1 /\ outcome'.shape = outcome.shape
  BY CompletesNext
<1>5. FocusMoves /\ SameAdvice(counsel') /\ active' = 0 /\ Outcome!Returns(t)
  BY FollowedSame DEF Outcome!OutcomeInv, FocusMoves, Outcome!RecordsFit, Outcome!Outcome
<1>6. Outcome!CallsFit'
  BY <1>5, CallReturns
<1>7. Outcome!AuditsFit'
  <2>1. \A m \in DOMAIN audits' :
          /\ Outcome!AuditFits(audits'[m], outcome)
          /\ audits'[m].phase \notin {"running", "awaiting-choice"}
    <3> SUFFICES ASSUME NEW m \in DOMAIN audits'
                 PROVE  Outcome!AuditFits(audits'[m], outcome)
                        /\ audits'[m].phase \notin {"running", "awaiting-choice"}
      OBVIOUS
    <3>1. CASE m = n
      BY <1>3, <3>1
    <3>2. CASE m # n
      BY <1>1, <1>3, <3>2 DEF Outcome!OutcomeInv, Outcome!AuditsFit, Outcome!Unsettled
    <3> QED
      BY <3>1, <3>2
  <2> QED
    BY <1>3, <1>4, <1>5, <2>1, AuditsEnd
<1>8. Outcome!AuditedCompletion'
  <2>1. CASE outcome' = outcome \/ outcome'.status # "complete"
    <3>1. \A m \in DOMAIN audits :
            m \in DOMAIN audits' /\ (audits[m].ends = 1 => audits'[m] = audits[m])
      BY <1>1, <1>3
    <3> QED
      BY <2>1, <3>1, CompletionStays
  <2>2. CASE /\ ok /\ completes /\ Outcome!Commits(n)
             /\ outcome'.rev = outcome.rev + 1 /\ outcome'.shape = outcome.shape
    <3>1. audits[n].rev = outcome.rev /\ audits[n].shape = outcome.shape
      BY <1>1, <2>2 DEF Outcome!Commits, Outcome!AuditFits
    <3> QED
      BY <1>1, <1>3, <2>2, <3>1 DEF Outcome!AuditedCompletion
  <2> QED
    BY <1>4, <2>1, <2>2
<1> QED
  BY <1>4, <1>5, <1>6, <1>7, <1>8, RecordsNext DEF Outcome!OutcomeInv, SameAdvice

\* Escape was pressed: the call goes on to ask the user.
LEMMA DialogKeeps ==
    ASSUME Outcome!OutcomeAssumption, Outcome!OutcomeInv, NEW t \in OutcomeTasks,
           goCalls[t] # None,
           goCalls' = [goCalls EXCEPT ![t].at = "dialog"],
           UNCHANGED <<goInst, goFocus, counsel, audits, active, outcome>>
    PROVE  Outcome!OutcomeInv'
<1> PICK c : c = [goCalls[t] EXCEPT !.at = "dialog"]
  OBVIOUS
<1>1. Outcome!CallFits(t) /\ goCalls[t] \in Outcome!Calls
  BY DEF Outcome!OutcomeInv, Outcome!CallsFit, Outcome!CallFits
<1>2. /\ c \in Outcome!Calls /\ c.at = "dialog" /\ c.live = goCalls[t].live
      /\ c.focus = goCalls[t].focus
      /\ c.audit = goCalls[t].audit /\ c # None
  <2>1. c \in Outcome!Calls
    BY <1>1 DEF Outcome!Calls
  <2> QED
    BY <1>1, <2>1 DEF Outcome!Calls, Outcome!OutcomeAssumption
<1>3. goCalls' = [u \in OutcomeTasks |-> IF u = t THEN c ELSE goCalls[u]]
  BY DEF Outcome!OutcomeInv, Outcome!CallsFit
<1>4. GoalMoves /\ FocusMoves /\ SameAdvice(counsel')
  BY FollowedSame, GoalNext DEF Outcome!OutcomeInv, FocusMoves, Outcome!RecordsFit
<1>5. Outcome!CallsFit'
  <2>1. Outcome!CallFits(t)'
    BY <1>1, <1>2, <1>3 DEF Outcome!CallFits
  <2>2. ASSUME NEW u \in OutcomeTasks, u # t, goCalls[u] # None
        PROVE  Outcome!CallFits(u)'
    <3>1. /\ Outcome!CallFits(u) /\ goCalls'[u] = goCalls[u]
          /\ Outcome!Current(u)' <=> Outcome!Current(u)
      BY <1>3, <2>2 DEF Outcome!OutcomeInv, Outcome!CallsFit, Outcome!Current
    <3> QED
      BY <3>1 DEF Outcome!CallFits
  <2>3. \A u \in OutcomeTasks : goCalls'[u] # None =>
          goCalls[u] # None /\ goCalls'[u].live = goCalls[u].live
    BY <1>2, <1>3
  <2>4. \A u \in OutcomeTasks : goCalls'[u] = None \/ Outcome!CallFits(u)'
    BY <1>3, <2>1, <2>2
  <2> QED
    BY <1>3, <2>3, <2>4 DEF Outcome!OutcomeInv, Outcome!CallsFit
<1>6. Outcome!AuditsFit'
  <2>1. ASSUME NEW n \in DOMAIN audits, Outcome!Unsettled(n)
        PROVE  Outcome!Awaited(n)'
    <3>1. PICK u \in OutcomeTasks :
            /\ goCalls[u] # None /\ goCalls[u].live /\ goCalls[u].audit = n
            /\ goCalls[u].at # "oracle" /\ Outcome!Current(u)
      BY <2>1 DEF Outcome!OutcomeInv, Outcome!AuditsFit, Outcome!Awaited
    <3>2. /\ goCalls'[u] # None /\ goCalls'[u].live /\ goCalls'[u].audit = n
          /\ goCalls'[u].at # "oracle" /\ goCalls'[u].focus = goCalls[u].focus
      BY <1>2, <1>3, <3>1
    <3> QED
      BY <3>1, <3>2 DEF Outcome!Awaited, Outcome!Current
  <2> QED
    BY <1>4, <2>1, AuditsStay
<1>7. Outcome!AuditedCompletion'
  BY CompletionStays
<1> QED
  BY <1>4, <1>5, <1>6, <1>7, RecordsNext DEF Outcome!OutcomeInv, SameAdvice

LEMMA AuditorAnswersKeeps ==
    ASSUME Outcome!OutcomeAssumption, Outcome!OutcomeInv, NEW t \in OutcomeTasks,
           Outcome!AuditorAnswers(t) \/ Outcome!Choose(t)
    PROVE  Outcome!OutcomeInv'
<1>1. goCalls[t] # None /\ UNCHANGED <<goInst, goFocus, counsel>>
  BY DEF Outcome!AuditorAnswers, Outcome!Choose
<1>2. CASE Outcome!Superseded(t)
  BY <1>1, <1>2, SupersededKeeps
<1>3. CASE goCalls' = [goCalls EXCEPT ![t].at = "dialog"] /\ UNCHANGED <<audits, active, outcome>>
  BY <1>1, <1>3, DialogKeeps
<1>4. CASE /\ Outcome!AuditCurrent(t)
           /\ \E verdict \in Outcome!Verdicts, completes \in BOOLEAN :
                /\ Outcome!Outcome(t, verdict, completes)
                /\ completes => verdict \in {"approved", "user_aborted"}
  BY <1>1, <1>4, OutcomeKeeps
<1>5. \/ Outcome!Superseded(t)
      \/ goCalls' = [goCalls EXCEPT ![t].at = "dialog"] /\ UNCHANGED <<audits, active, outcome>>
      \/ /\ Outcome!AuditCurrent(t)
         /\ \/ \E verdict \in {"approved", "disapproved", "error"} :
                 Outcome!Outcome(t, verdict, verdict = "approved")
            \/ Outcome!Outcome(t, "user_aborted", TRUE) \/ Outcome!Outcome(t, "error", FALSE)
  BY DEF Outcome!AuditorAnswers, Outcome!Choose
<1> QED
  <2>1. ASSUME Outcome!AuditCurrent(t), NEW verdict \in {"approved", "disapproved", "error"},
               Outcome!Outcome(t, verdict, verdict = "approved")
        PROVE  Outcome!OutcomeInv'
    <3> PICK completes \in BOOLEAN : completes = (verdict = "approved")
      OBVIOUS
    <3>1. Outcome!Outcome(t, verdict, completes) /\ verdict \in Outcome!Verdicts
      BY <2>1 DEF Outcome!Verdicts
    <3> QED
      BY <1>1, <2>1, <3>1, OutcomeKeeps
  <2>2. ASSUME Outcome!AuditCurrent(t), Outcome!Outcome(t, "user_aborted", TRUE)
        PROVE  Outcome!OutcomeInv'
    <3> PICK completes \in BOOLEAN : completes = TRUE
      OBVIOUS
    <3>1. Outcome!Outcome(t, "user_aborted", completes) /\ "user_aborted" \in Outcome!Verdicts
      BY <2>2 DEF Outcome!Verdicts
    <3> QED
      BY <1>1, <2>2, <3>1, OutcomeKeeps
  <2>3. ASSUME Outcome!AuditCurrent(t), Outcome!Outcome(t, "error", FALSE)
        PROVE  Outcome!OutcomeInv'
    <3> PICK completes \in BOOLEAN : completes = FALSE
      OBVIOUS
    <3>1. Outcome!Outcome(t, "error", completes) /\ "error" \in Outcome!Verdicts
      BY <2>3 DEF Outcome!Verdicts
    <3> QED
      BY <1>1, <2>3, <3>1, OutcomeKeeps
  <2> QED
    BY <1>2, <1>3, <1>5, <2>1, <2>2, <2>3

-----------------------------------------------------------------------------
LEMMA OutcomeInit ==
    ASSUME Outcome!OutcomeAssumption, Outcome!GOInit PROVE Outcome!OutcomeInv
<1>1. /\ goInst \in OutcomeInstances /\ outcome = [status |-> "active", rev |-> 1, shape |-> 0]
      /\ goFocus = [on |-> TRUE, rev |-> 0] /\ audits = <<>> /\ active = 0
      /\ goCalls = [t \in OutcomeTasks |-> None]
      /\ counsel = [f \in Outcome!Shapes |->
                     [result |-> None, results |-> 0, failed |-> 0, followed |-> FALSE]]
  BY DEF Outcome!GOInit
<1>2. Outcome!RecordsFit
  <2>1. \A f \in Outcome!Shapes : Outcome!AdviceFits(counsel[f])
    BY <1>1 DEF Outcome!AdviceFits
  <2>2. outcome \in [status : Outcome!Statuses, rev : Nat, shape : Nat]
    BY <1>1 DEF Outcome!Statuses
  <2> QED
    BY <1>1, <2>1, <2>2 DEF Outcome!RecordsFit
<1>3. Outcome!AuditsFit /\ Outcome!CallsFit /\ Outcome!AuditedCompletion
  BY <1>1 DEF Outcome!AuditsFit, Outcome!CallsFit, Outcome!AuditedCompletion
<1> QED
  BY <1>1, <1>2, <1>3 DEF Outcome!OutcomeInv

LEMMA OutcomeNext ==
    ASSUME Outcome!OutcomeAssumption, Outcome!OutcomeInv,
           [Outcome!GONext]_outcomeVars PROVE Outcome!OutcomeInv'
<1>1. CASE UNCHANGED outcomeVars
  <2>1. UNCHANGED <<goInst, outcome, goFocus, counsel, audits, active, goCalls>>
    BY <1>1 DEF outcomeVars
  <2>2. SameAdvice(counsel') /\ GoalMoves
    BY <2>1, FollowedSame, GoalNext DEF Outcome!OutcomeInv
  <2> QED
    BY <2>1, <2>2, Quiet
<1>2. CASE Outcome!GONext
  BY <1>2, TurnStartKeeps, GoalTurnEndKeeps, WorkKeeps, PausedKeeps, EscapeKeeps, ChangesKeeps,
     FocusKeeps, RestartKeeps, BlockedKeeps, OracleAnswersKeeps, CompleteKeeps,
     AuditorAnswersKeeps DEF Outcome!GONext
<1> QED
  BY <1>1, <1>2

LEMMA OutcomeSound ==
    ASSUME Outcome!OutcomeInv
    PROVE  Outcome!AuditedCompletion /\ Outcome!AuditsEndOnce /\ Outcome!OneConsultation
<1>1. Outcome!AuditsEndOnce
  BY
     DEF Outcome!OutcomeInv, Outcome!AuditsFit, Outcome!AuditFits, Outcome!Awaited,
         Outcome!AuditsEndOnce
<1>2. Outcome!OneConsultation
  BY DEF Outcome!OutcomeInv, Outcome!RecordsFit, Outcome!AdviceFits, Outcome!OneConsultation
<1> QED
  BY <1>1, <1>2 DEF Outcome!OutcomeInv

-----------------------------------------------------------------------------
(* Settings: what the operators make of a process.                          *)

LEMMA ConfigKeys ==
         /\ Config!DialogKeys \subseteq Config!Keys /\ Config!SavedKeys \subseteq Config!Keys
         /\ Config!References \subseteq Config!SavedKeys
         /\ Config!DialogKeys \cap Config!References = {} /\ Config!Switches \subseteq Config!Keys
         /\ Config!ActivationKeys \subseteq Config!SavedKeys /\ "logging" \notin Config!SavedKeys
         /\ Config!Keys \ Config!SavedKeys = {"logging"}
  BY DEF Config!DialogKeys, Config!Keys, Config!SavedKeys, Config!References, Config!Switches,
     Config!ActivationKeys

LEMMA StoredIs ==
  ASSUME NEW s
  PROVE  s \in Config!Stored
           <=> s \in [Config!Keys -> Values] /\ \A k \in Config!Switches : s[k] \in BOOLEAN
  BY DEF Config!Stored

LEMMA DefaultsStored ==
  ASSUME Config!ConfigAssumption
  PROVE  Config!Defaults \in Config!Stored
  <1>1. \A k \in Config!Keys : Config!Defaults[k] \in Values
    BY DEF Config!ConfigAssumption, Config!Defaults
  <1>2. \A k \in Config!Switches : Config!Defaults[k] \in BOOLEAN
    BY ConfigKeys DEF Config!Defaults, Config!Switches
  <1>3. Config!Defaults \in [Config!Keys -> Values]
    BY <1>1 DEF Config!Defaults
  <1> QED BY <1>2, <1>3, StoredIs

\* One key of what is stored is set.
LEMMA StoredWith ==
  ASSUME NEW s \in Config!Stored, NEW k \in Config!Keys, NEW v \in Values,
         k \in Config!Switches => v \in BOOLEAN
  PROVE  /\ [s EXCEPT ![k] = v] \in Config!Stored /\ [s EXCEPT ![k] = v][k] = v
         /\ \A j \in Config!Keys : j # k => [s EXCEPT ![k] = v][j] = s[j]
  <1>1. s \in [Config!Keys -> Values] /\ \A j \in Config!Switches : s[j] \in BOOLEAN
    BY StoredIs
  <1>2. [s EXCEPT ![k] = v] \in [Config!Keys -> Values]
    BY <1>1
  <1>3. \A j \in Config!Switches : [s EXCEPT ![k] = v][j] \in BOOLEAN
    BY <1>1, ConfigKeys
  <1> QED BY <1>1, <1>2, <1>3, StoredIs

LEMMA StoredOn ==
  ASSUME Config!ConfigAssumption, NEW s \in Config!Stored, NEW on \in BOOLEAN
  PROVE  /\ [s EXCEPT !.tools = on] \in Config!Stored /\ [s EXCEPT !.tools = on].tools = on
         /\ \A j \in Config!Keys : j # "tools" => [s EXCEPT !.tools = on][j] = s[j]
         /\ [s EXCEPT !.alwaysOn = on] \in Config!Stored
         /\ [s EXCEPT !.alwaysOn = on].alwaysOn = on
         /\ \A j \in Config!Keys : j # "alwaysOn" => [s EXCEPT !.alwaysOn = on][j] = s[j]
  <1>1. on \in Values
    BY DEF Config!ConfigAssumption
  <1>2. /\ [s EXCEPT !.tools = on] \in Config!Stored /\ [s EXCEPT !.tools = on].tools = on
        /\ \A j \in Config!Keys : j # "tools" => [s EXCEPT !.tools = on][j] = s[j]
    <2>1. "tools" \in Config!Keys
      BY DEF Config!Keys, Config!SavedKeys
    <2>2. /\ [s EXCEPT !["tools"] = on] \in Config!Stored
          /\ [s EXCEPT !["tools"] = on]["tools"] = on
          /\ \A j \in Config!Keys : j # "tools" => [s EXCEPT !["tools"] = on][j] = s[j]
      BY <1>1, <2>1, StoredWith
    <2> QED BY <2>2
  <1>3. /\ [s EXCEPT !.alwaysOn = on] \in Config!Stored
        /\ [s EXCEPT !.alwaysOn = on].alwaysOn = on
        /\ \A j \in Config!Keys : j # "alwaysOn" => [s EXCEPT !.alwaysOn = on][j] = s[j]
    <2>1. "alwaysOn" \in Config!Keys
      BY DEF Config!Keys, Config!SavedKeys
    <2>2. /\ [s EXCEPT !["alwaysOn"] = on] \in Config!Stored
          /\ [s EXCEPT !["alwaysOn"] = on]["alwaysOn"] = on
          /\ \A j \in Config!Keys : j # "alwaysOn" => [s EXCEPT !["alwaysOn"] = on][j] = s[j]
      BY <1>1, <2>1, StoredWith
    <2> QED BY <2>2
  <1> QED BY <1>2, <1>3

\* The tools are off, and no session is always on.
LEMMA StoredOff ==
  ASSUME NEW s \in Config!Stored, NEW t \in [Config!Keys -> Values], t.tools \in BOOLEAN,
         t.alwaysOn \in BOOLEAN,
         \A k \in Config!Keys \ {"tools", "alwaysOn"} : t[k] = s[k]
  PROVE  t \in Config!Stored
  <1>1. \A k \in Config!Switches : t[k] \in BOOLEAN
    BY StoredIs, ConfigKeys
  <1> QED BY <1>1, StoredIs

\* What is picked key by key from two that are stored.
LEMMA StoredMix ==
  ASSUME NEW s \in Config!Stored, NEW t \in Config!Stored, NEW K, NEW m,
         m = [k \in Config!Keys |-> IF k \in K THEN s[k] ELSE t[k]]
  PROVE  m \in Config!Stored /\ \A k \in Config!Keys : m[k] = IF k \in K THEN s[k] ELSE t[k]
  <1>1. /\ s \in [Config!Keys -> Values] /\ \A j \in Config!Switches : s[j] \in BOOLEAN
        /\ t \in [Config!Keys -> Values] /\ \A j \in Config!Switches : t[j] \in BOOLEAN
    BY StoredIs
  <1>2. m \in [Config!Keys -> Values]
    BY <1>1
  <1>3. \A j \in Config!Switches : m[j] \in BOOLEAN
    BY <1>1, ConfigKeys
  <1> QED BY <1>2, <1>3, StoredIs

LEMMA MutatedStored ==
  ASSUME Config!ConfigAssumption, NEW s \in Config!Stored, NEW c \in Config!Setting
  PROVE  Config!Mutated(s, c.key, c.value) \in Config!Stored
  <1>1. c.key \in Config!Keys /\ c.value \in Values
          /\ (c.key \in Config!Switches => c.value \in BOOLEAN)
    BY DEF Config!Setting
  <1> DEFINE a == [s EXCEPT ![c.key] = c.value]
             x == IF c.key = "tools" /\ ~c.value THEN FALSE
                  ELSE IF c.key = "alwaysOn" THEN c.value ELSE a.alwaysOn
             y == IF c.key = "alwaysOn" /\ c.value THEN TRUE
                  ELSE IF c.key = "tools" THEN c.value ELSE a.tools
  <1>2. a \in Config!Stored
    BY <1>1, StoredWith
  <1>3. {"tools", "alwaysOn"} \subseteq Config!Switches
    BY DEF Config!Switches
  <1>4. a.alwaysOn \in BOOLEAN /\ a.tools \in BOOLEAN
    BY <1>2, <1>3, StoredIs
  <1>5. x \in BOOLEAN /\ y \in BOOLEAN
    BY <1>1, <1>3, <1>4
  <1>6. [[a EXCEPT !.alwaysOn = x] EXCEPT !.tools = y] \in Config!Stored
    BY <1>2, <1>5, StoredOn
  <1>7. Config!Mutated(s, c.key, c.value) = [[a EXCEPT !.alwaysOn = x] EXCEPT !.tools = y]
    BY <1>1, StoredIs DEF Config!Mutated, Config!Keys, Config!SavedKeys
  <1> QED BY <1>6, <1>7

-----------------------------------------------------------------------------
(* A process whose settings are its own.                                     *)

Owned(r, T, disabled) ==
  r \in Config!Process /\ Config!OwnChanges(r, T) /\ Config!Outdated(r, disabled)
    /\ Config!Begun(r, disabled)
Rest(r) == <<r.started, r.dialog, r.picker, r.activation, r.revision, r.active>>

LEMMA ProcessHas ==
  ASSUME NEW r \in Config!Process
  PROVE  /\ r.started \in BOOLEAN /\ r.refs \in Config!Stored
         /\ r.baseline \in Config!Stored \cup {None}
         /\ r.persisted \in SUBSET Config!References /\ r.dialog \in Config!Stored \cup {None}
         /\ r.stale \in BOOLEAN /\ r.picker \in BOOLEAN /\ r.activation \in Config!Activation
         /\ r.revision \in Nat /\ r.pendingModel \in Models \cup {None} /\ r.active \in BOOLEAN
  BY DEF Config!Process

LEMMA RestSame ==
  ASSUME NEW r, NEW q, Rest(q) = Rest(r), NEW disabled
  PROVE  /\ Config!Outdated(q, disabled) <=> Config!Outdated(r, disabled)
         /\ Config!Begun(q, disabled) <=> Config!Begun(r, disabled)
         /\ q.started = r.started /\ q.dialog = r.dialog /\ q.picker = r.picker
         /\ q.activation = r.activation /\ q.revision = r.revision /\ q.active = r.active
  BY DEF Rest, Config!Outdated, Config!Begun, Config!Modal

LEMMA LoadedIs ==
  ASSUME Config!ConfigAssumption, cfFile.keys \in Config!Stored, NEW r \in Config!Process
  PROVE  /\ Config!Loaded(r) \in Config!Process /\ Rest(Config!Loaded(r)) = Rest(r)
         /\ Config!Loaded(r).pendingModel = r.pendingModel
         /\ Config!Loads
              => Config!Loaded(r).refs = cfFile.keys /\ Config!Loaded(r).baseline = cfFile.keys
                     /\ (r.dialog # None => Config!Loaded(r).stale)
  <1>1. Config!PersistedOf(cfFile.keys) \in SUBSET Config!References
    BY DEF Config!PersistedOf
  <1>2. Config!Defaults \in Config!Stored
    BY DefaultsStored
  <1>3. PICK at : at = Config!PersistedOf(cfFile.keys)
    OBVIOUS
  <1>4. PICK old \in BOOLEAN : old = (r.dialog # None)
    OBVIOUS
  <1>5. CASE Config!Loads
    <2>1. Config!Loaded(r)
            = [r EXCEPT !.refs = cfFile.keys, !.baseline = cfFile.keys, !.persisted = at,
                                !.stale = old]
      BY <1>3, <1>4, <1>5 DEF Config!Loaded
    <2> QED BY <1>1, <1>3, <1>4, <1>5, <2>1 DEF Config!Process, Rest
  <1>6. CASE ~Config!Loads
    <2>1. Config!Loaded(r) = [r EXCEPT !.refs = Config!Defaults, !.persisted = {}]
      BY <1>6 DEF Config!Loaded
    <2>2. {} \in SUBSET Config!References
      OBVIOUS
    <2> QED BY <1>2, <1>6, <2>1, <2>2 DEF Config!Process, Rest
  <1> QED BY <1>5, <1>6

LEMMA LoadedFine ==
  ASSUME Config!ConfigAssumption, cfFile.keys \in Config!Stored, NEW r, NEW T, NEW disabled,
         Owned(r, T, disabled), NEW K
  PROVE  Owned(Config!Loaded(r), (IF Config!Loads THEN {} ELSE Config!Keys) \cup K, disabled)
  <1> DEFINE q == Config!Loaded(r)
  <1>1. r \in Config!Process
    BY DEF Owned
  <1>2. /\ q \in Config!Process /\ Rest(q) = Rest(r)
        /\ Config!Loads
             => q.refs = cfFile.keys /\ q.baseline = cfFile.keys /\ (r.dialog # None => q.stale)
    BY <1>1, LoadedIs
  <1> HIDE DEF q
  <1>3. Config!Outdated(q, disabled) /\ Config!Begun(q, disabled) /\ q.dialog = r.dialog
    BY <1>2, RestSame DEF Owned
  <1>4. CASE Config!Loads
    <2>1. cfFile.keys # None
      BY DEF Config!ConfigAssumption
    <2>2. Config!Changed(q) = {}
      BY <1>2, <1>4, <2>1 DEF Config!Changed
    <2>3. Config!OwnChanges(q, (IF Config!Loads THEN {} ELSE Config!Keys) \cup K)
      BY <1>2, <1>3, <1>4, <2>2 DEF Config!OwnChanges
    <2> QED BY <1>2, <1>3, <2>3 DEF Owned, q
  <1>5. CASE ~Config!Loads
    <2>1. Config!Changed(q) \subseteq Config!Keys
            /\ Config!DialogKeys \cap Config!SavedKeys \subseteq Config!Keys
      BY ConfigKeys DEF Config!Changed
    <2>2. Config!OwnChanges(q, (IF Config!Loads THEN {} ELSE Config!Keys) \cup K)
      BY <1>5, <2>1 DEF Config!OwnChanges
    <2> QED BY <1>2, <1>3, <2>2 DEF Owned, q
  <1> QED BY <1>4, <1>5

\* More may be counted as set; what is counted may be set.
LEMMA FineMore ==
  ASSUME NEW r, NEW T, NEW S, T \subseteq S, NEW disabled, Owned(r, T, disabled)
  PROVE  Owned(r, S, disabled)
  BY DEF Owned, Config!OwnChanges

LEMMA SetRefs ==
  ASSUME NEW r, NEW T, NEW disabled, Owned(r, T, disabled), NEW s \in Config!Stored,
         \A k \in Config!SavedKeys \ T : s[k] = r.refs[k]
  PROVE  /\ Owned([r EXCEPT !.refs = s], T, disabled)
         /\ Rest([r EXCEPT !.refs = s]) = Rest(r) /\ [r EXCEPT !.refs = s].refs = s
         /\ [r EXCEPT !.refs = s].baseline = r.baseline
         /\ [r EXCEPT !.refs = s].stale = r.stale
         /\ [r EXCEPT !.refs = s].persisted = r.persisted
         /\ [r EXCEPT !.refs = s].pendingModel = r.pendingModel
  <1> DEFINE q == [r EXCEPT !.refs = s]
  <1>1. r \in Config!Process
    BY DEF Owned
  <1>2. /\ q \in Config!Process /\ Rest(q) = Rest(r) /\ q.refs = s /\ q.baseline = r.baseline
        /\ q.stale = r.stale /\ q.persisted = r.persisted /\ q.pendingModel = r.pendingModel
    BY <1>1 DEF Config!Process, Rest
  <1> HIDE DEF q
  <1>3. Config!Outdated(q, disabled) /\ Config!Begun(q, disabled) /\ q.dialog = r.dialog
          /\ q.started = r.started
    BY <1>2, RestSame DEF Owned
  <1>4. Config!OwnChanges(r, T)
    BY DEF Owned
  <1>5. Config!Changed(q) \subseteq Config!Changed(r) \cup T
    BY <1>2 DEF Config!Changed
  <1>6. Config!OwnChanges(q, T)
    BY <1>2, <1>3, <1>4, <1>5 DEF Config!OwnChanges
  <1> QED BY <1>2, <1>3, <1>6 DEF Owned, q

-----------------------------------------------------------------------------
(* A save.                                                                   *)

LEMMA MergedOwn ==
  ASSUME Config!ConfigAssumption, cfFile.keys \in Config!Stored, NEW r \in Config!Process,
         NEW T, Config!Changed(r) \subseteq T,
         NEW P
  PROVE  /\ Config!Merged(r, P) \in Config!Stored
         /\ {k \in Config!Keys : Config!Merged(r, P)[k] # cfFile.keys[k]} \subseteq T
  <1>1. r.refs \in Config!Stored
    BY ProcessHas
  <1>2. PICK K : K = Config!Changed(r) \cap Config!Wanted(P)
    OBVIOUS
  <1>3. Config!Merged(r, P)
          = [k \in Config!Keys |-> IF k \in K THEN r.refs[k] ELSE cfFile.keys[k]]
    BY <1>2 DEF Config!Merged
  <1>4. /\ Config!Merged(r, P) \in Config!Stored
        /\ \A k \in Config!Keys : Config!Merged(r, P)[k] = IF k \in K THEN r.refs[k]
             ELSE cfFile.keys[k]
    BY <1>1, <1>3, StoredMix
  <1> QED BY <1>2, <1>4

\* The baseline after a save is what is live, of the keys that are written.
LEMMA SavedIs ==
  ASSUME Config!ConfigAssumption, cfFile.keys \in Config!Stored, NEW r \in Config!Process, NEW P
  PROVE  /\ Config!Saved(r, P) \in Config!Process /\ Rest(Config!Saved(r, P)) = Rest(r)
         /\ Config!Saved(r, P).refs = r.refs /\ Config!Saved(r, P).stale = r.stale
         /\ Config!Saved(r, P).pendingModel = r.pendingModel
         /\ \/ Config!Saved(r, P).baseline = r.baseline
            \/ /\ Config!Changed(r) # {} /\ Config!Saved(r, P).baseline \in Config!Stored
               /\ \A k \in Config!SavedKeys : \/ Config!Saved(r, P).baseline[k] = r.refs[k]
                                       \/ /\ r.baseline # None /\ k \in Config!References
                                          /\ Config!Saved(r, P).baseline[k] = r.baseline[k]
                                       \/ r.baseline = None
         /\ \A k \in Config!DialogKeys \cap Config!SavedKeys :
               \/ Config!Saved(r, P).baseline = r.baseline
               \/ Config!Saved(r, P).baseline[k] = r.refs[k]
  <1>1. r.refs \in Config!Stored /\ r.baseline \in Config!Stored \cup {None}
          /\ r.persisted \in SUBSET Config!References
    BY ProcessHas
  <1>2. PICK other \in Config!Stored : other = IF r.baseline # None THEN r.baseline
               ELSE cfFile.keys
    BY <1>1
  <1>3. PICK K : K = Config!Wanted(P) \cup (Config!Keys \ Config!SavedKeys)
    OBVIOUS
  <1>4. PICK new : new = [k \in Config!Keys |-> IF k \in K THEN r.refs[k] ELSE other[k]]
    OBVIOUS
  <1>5. Config!SavedKeys \ Config!References \subseteq K
    BY <1>3 DEF Config!Wanted
  <1>6. [k \in Config!Keys |-> IF k \in Config!Wanted(P) \/ k \notin Config!SavedKeys
          THEN r.refs[k]
                         ELSE IF r.baseline # None THEN r.baseline[k] ELSE cfFile.keys[k]] = new
    BY <1>2, <1>3, <1>4
  <1>7. PICK at \in SUBSET Config!References : at = Config!PersistedOf(new)
    BY DEF Config!PersistedOf
  <1>8. Config!Saved(r, P) = IF Config!Changed(r) = {} THEN r
          ELSE [r EXCEPT !.baseline = new, !.persisted = at]
    BY <1>6, <1>7 DEF Config!Saved
  <1>9. new \in Config!Stored /\ \A k \in Config!Keys : new[k] = IF k \in K THEN r.refs[k]
          ELSE other[k]
    BY <1>1, <1>4, StoredMix
  <1>10. r.baseline # None => other = r.baseline
    BY <1>2
  <1>11. \A k \in Config!SavedKeys : \/ new[k] = r.refs[k]
                              \/ /\ r.baseline # None /\ k \in Config!References
                                 /\ new[k] = r.baseline[k]
                              \/ r.baseline = None
    BY <1>5, <1>9, <1>10, ConfigKeys
  <1>12. \A k \in Config!DialogKeys \cap Config!SavedKeys : new[k] = r.refs[k]
    BY <1>5, <1>9, ConfigKeys
  <1>13. CASE Config!Changed(r) = {}
    BY <1>8, <1>13 DEF Rest
  <1>14. CASE Config!Changed(r) # {}
    <2>1. Config!Saved(r, P) = [r EXCEPT !.baseline = new, !.persisted = at]
      BY <1>8, <1>14
    <2>2. /\ Config!Saved(r, P) \in Config!Process /\ Rest(Config!Saved(r, P)) = Rest(r)
          /\ Config!Saved(r, P).refs = r.refs /\ Config!Saved(r, P).stale = r.stale
          /\ Config!Saved(r, P).pendingModel = r.pendingModel /\ Config!Saved(r, P).baseline = new
      BY <1>9, <2>1 DEF Config!Process, Rest
    <2> QED BY <1>9, <1>11, <1>12, <1>14, <2>2
  <1> QED BY <1>13, <1>14

\* A save leaves no change that was not set.
LEMMA SavedFine ==
  ASSUME Config!ConfigAssumption, cfFile.keys \in Config!Stored, NEW r, NEW T, NEW disabled,
         Owned(r, T, disabled), r.started, NEW P
  PROVE  Owned(Config!Saved(r, P), T, disabled)
  <1> DEFINE q == Config!Saved(r, P)
  <1>1. r \in Config!Process /\ Config!OwnChanges(r, T) /\ r.refs \in Config!Stored
          /\ r.baseline \in Config!Stored \cup {None}
    BY ProcessHas DEF Owned
  <1>2. /\ q \in Config!Process /\ Rest(q) = Rest(r) /\ q.refs = r.refs /\ q.stale = r.stale
        /\ \/ q.baseline = r.baseline
           \/ /\ Config!Changed(r) # {} /\ q.baseline \in Config!Stored
              /\ \A k \in Config!SavedKeys : \/ q.baseline[k] = r.refs[k]
                                      \/ /\ r.baseline # None /\ k \in Config!References
                                         /\ q.baseline[k] = r.baseline[k]
                                      \/ r.baseline = None
        /\ \A k \in Config!DialogKeys \cap Config!SavedKeys :
              q.baseline = r.baseline \/ q.baseline[k] = r.refs[k]
    BY <1>1, SavedIs
  <1> HIDE DEF q
  <1>3. Config!Outdated(q, disabled) /\ Config!Begun(q, disabled) /\ q.dialog = r.dialog
          /\ q.started
    BY <1>2, RestSame DEF Owned
  <1>4. Config!Changed(r) \subseteq T
    BY <1>1 DEF Config!OwnChanges
  <1>5. None \notin Config!Stored
    BY DEF Config!ConfigAssumption
  <1>6. Config!Changed(q) \subseteq T
    <2>1. CASE q.baseline = r.baseline
      BY <1>2, <1>4, <2>1 DEF Config!Changed
    <2>2. CASE q.baseline # r.baseline
      BY <1>2, <1>4, <1>5, <2>2 DEF Config!Changed
    <2> QED BY <2>1, <2>2
  <1>7. ASSUME q.dialog # None, ~q.stale, q.baseline # None
        PROVE  {k \in Config!DialogKeys \cap Config!SavedKeys : q.dialog[k] # q.baseline[k]}
                 \subseteq T
    <2>1. CASE q.baseline = r.baseline
      BY <1>1, <1>2, <1>3, <1>7, <2>1 DEF Config!OwnChanges
    <2>2. CASE q.baseline # r.baseline
      <3>1. ASSUME NEW k \in Config!DialogKeys \cap Config!SavedKeys, q.dialog[k] # q.baseline[k]
            PROVE  k \in T
        <4>1. q.baseline[k] = r.refs[k]
          BY <1>2, <2>2
        <4>2. CASE r.baseline = None
          BY <1>4, <4>2 DEF Config!Changed
        <4>3. CASE r.baseline # None
          <5>1. r.refs[k] # r.baseline[k] \/ r.dialog[k] # r.baseline[k]
            BY <1>3, <3>1, <4>1
          <5> QED BY <1>1, <1>2, <1>3, <1>4, <1>7, <4>3, <5>1 DEF Config!Changed,
                  Config!OwnChanges
        <4> QED BY <4>2, <4>3
      <3> QED BY <3>1
    <2> QED BY <2>1, <2>2
  <1> QED BY <1>2, <1>3, <1>6, <1>7 DEF Owned, Config!OwnChanges, q

-----------------------------------------------------------------------------
(* What else is changed of a process.                                        *)

LEMMA Switched ==
  ASSUME NEW r, NEW T, NEW was, Owned(r, T, was), r.started, NEW up \in BOOLEAN,
         NEW on \in BOOLEAN, NEW disabled \in BOOLEAN, disabled => ~on /\ (up \/ was)
  PROVE  Owned([r EXCEPT !.revision = IF up THEN @ + 1 ELSE @, !.active = on], T, disabled)
  <1>1. r \in Config!Process /\ r.revision \in Nat /\ r.activation.revision \in Nat
    BY ProcessHas DEF Owned, Config!Activation
  <1>2. PICK n \in Nat : n = IF up THEN r.revision + 1 ELSE r.revision
    BY <1>1
  <1>3. PICK q : q = [r EXCEPT !.revision = n, !.active = on]
    OBVIOUS
  <1>4. [r EXCEPT !.revision = IF up THEN @ + 1 ELSE @, !.active = on] = q
    BY <1>2, <1>3
  <1>5. /\ q \in Config!Process /\ q.started = r.started /\ q.refs = r.refs
        /\ q.baseline = r.baseline
        /\ q.dialog = r.dialog /\ q.stale = r.stale /\ q.picker = r.picker
        /\ q.activation = r.activation /\ q.revision = n /\ q.active = on
    BY <1>1, <1>2, <1>3 DEF Config!Process
  <1>6. Config!OwnChanges(q, T)
    BY <1>5 DEF Owned, Config!OwnChanges, Config!Changed
  <1>7. Config!Outdated(q, disabled)
    BY <1>1, <1>2, <1>5 DEF Owned, Config!Outdated
  <1>8. Config!Begun(q, disabled)
    BY <1>5 DEF Config!Begun
  <1> QED BY <1>4, <1>5, <1>6, <1>7, <1>8 DEF Owned

LEMMA WithDialog ==
  ASSUME NEW r, NEW T, NEW disabled, Owned(r, T, disabled), r.started,
         NEW d \in Config!Stored \cup {None}, NEW old \in BOOLEAN,
         d # None /\ ~old /\ r.baseline # None =>
           {k \in Config!DialogKeys \cap Config!SavedKeys : d[k] # r.baseline[k]} \subseteq T
  PROVE  Owned([r EXCEPT !.dialog = d, !.stale = old], T, disabled)
  <1>1. r \in Config!Process
    BY DEF Owned
  <1>2. PICK q : q = [r EXCEPT !.dialog = d, !.stale = old]
    OBVIOUS
  <1>3. /\ q \in Config!Process /\ q.started = r.started /\ q.refs = r.refs
        /\ q.baseline = r.baseline
        /\ q.dialog = d /\ q.stale = old /\ q.picker = r.picker
        /\ q.activation = r.activation /\ q.revision = r.revision /\ q.active = r.active
    BY <1>1, <1>2 DEF Config!Process
  <1>4. Config!OwnChanges(q, T)
    BY <1>3 DEF Owned, Config!OwnChanges, Config!Changed
  <1>5. Config!Outdated(q, disabled) /\ Config!Begun(q, disabled)
    BY <1>3 DEF Owned, Config!Outdated, Config!Begun
  <1> QED BY <1>2, <1>3, <1>4, <1>5 DEF Owned

\* The picker, and the model that waits.
LEMMA WithPicker ==
  ASSUME NEW r, NEW T, NEW disabled, Owned(r, T, disabled), r.started, NEW open \in BOOLEAN,
         NEW m \in Models \cup {None}
  PROVE  /\ Owned([r EXCEPT !.picker = open, !.pendingModel = m], T, disabled)
         /\ [r EXCEPT !.picker = open, !.pendingModel = m].refs = r.refs
  <1>1. r \in Config!Process
    BY DEF Owned
  <1>2. PICK q : q = [r EXCEPT !.picker = open, !.pendingModel = m]
    OBVIOUS
  <1>3. /\ q \in Config!Process /\ q.started = r.started /\ q.refs = r.refs
        /\ q.baseline = r.baseline
        /\ q.dialog = r.dialog /\ q.stale = r.stale
        /\ q.activation = r.activation /\ q.revision = r.revision /\ q.active = r.active
    BY <1>1, <1>2 DEF Config!Process
  <1>4. Config!OwnChanges(q, T)
    BY <1>3 DEF Owned, Config!OwnChanges, Config!Changed
  <1>5. Config!Outdated(q, disabled) /\ Config!Begun(q, disabled)
    BY <1>3 DEF Owned, Config!Outdated, Config!Begun
  <1> QED BY <1>2, <1>3, <1>4, <1>5 DEF Owned

LEMMA WithActivation ==
  ASSUME NEW r, NEW T, NEW disabled, Owned(r, T, disabled), r.started,
         NEW a \in Config!Activation,
         a.pc # "none" => /\ a.previous = a.attempted /\ a.revision <= r.revision
                          /\ disabled => a.revision # r.revision
  PROVE  Owned([r EXCEPT !.activation = a], T, disabled)
  <1>1. r \in Config!Process
    BY DEF Owned
  <1>2. PICK q : q = [r EXCEPT !.activation = a]
    OBVIOUS
  <1>3. /\ q \in Config!Process /\ q.started = r.started /\ q.refs = r.refs
        /\ q.baseline = r.baseline
        /\ q.dialog = r.dialog /\ q.stale = r.stale /\ q.picker = r.picker
        /\ q.activation = a /\ q.revision = r.revision /\ q.active = r.active
    BY <1>1, <1>2 DEF Config!Process
  <1>4. Config!OwnChanges(q, T)
    BY <1>3 DEF Owned, Config!OwnChanges, Config!Changed
  <1>5. Config!Outdated(q, disabled) /\ Config!Begun(q, disabled)
    BY <1>3 DEF Owned, Config!Outdated, Config!Begun
  <1> QED BY <1>2, <1>3, <1>4, <1>5 DEF Owned

LEMMA NoneYet ==
  ASSUME Config!ConfigAssumption
  PROVE  Config!NoActivation \in Config!Activation /\ Config!NoActivation.pc = "none"
  <1>0. Config!Defaults \in Config!Stored /\ None \in Values
    BY DefaultsStored DEF Config!ConfigAssumption
  <1>1. PICK d \in Config!Stored : d = Config!Defaults
    BY <1>0
  <1>2. PICK zero \in Nat : zero = 0
    OBVIOUS
  <1>3. PICK off0 \in BOOLEAN : off0 = FALSE
    OBVIOUS
  <1>4. PICK on0 \in BOOLEAN : on0 = TRUE
    OBVIOUS
  <1>5. Config!NoActivation = [pc |-> "none", announce |-> on0, args |-> off0, picked |-> off0,
                        pending |-> off0, executor |-> None, advisor |-> None,
                        previous |-> d, attempted |-> d, revision |-> zero]
    BY <1>1, <1>2, <1>3, <1>4 DEF Config!NoActivation
  <1> QED BY <1>0, <1>5 DEF Config!Activation

LEMMA StopsFine ==
  ASSUME Config!ConfigAssumption, NEW r, NEW T, NEW disabled, Owned(r, T, disabled), r.started
  PROVE  Owned(Config!Stops(r), T, disabled) /\ Config!Stops(r).started
  <1>2. Config!NoActivation \in Config!Activation /\ Config!NoActivation.pc = "none"
    BY NoneYet
  <1>3. Config!Stops(r) = [r EXCEPT !.activation = Config!NoActivation]
    BY DEF Config!Stops
  <1>4. Owned([r EXCEPT !.activation = Config!NoActivation], T, disabled)
    BY <1>2, WithActivation
  <1>5. r \in Config!Process
    BY DEF Owned
  <1> QED BY <1>3, <1>4, <1>5 DEF Config!Process

\* What is put back are keys of an activation, to what was stored before.
LEMMA RestoredFine ==
  ASSUME NEW r, NEW T, NEW disabled, Owned(r, T, disabled), NEW a \in Config!Stored,
         \A k \in Config!ActivationKeys \ T : r.refs[k] = a[k]
           => r.activation.previous[k] = r.refs[k]
  PROVE  Owned(Config!Restored(r, a), T, disabled) /\ Rest(Config!Restored(r, a)) = Rest(r)
  <1>1. r \in Config!Process /\ r.refs \in Config!Stored /\ r.activation \in Config!Activation
    BY ProcessHas DEF Owned
  <1>2. r.activation.previous \in Config!Stored
    BY <1>1 DEF Config!Activation
  <1>3. PICK K : K = {k \in Config!ActivationKeys : r.refs[k] = a[k]}
    OBVIOUS
  <1>4. PICK s : s = [k \in Config!Keys |-> IF k \in K THEN r.activation.previous[k]
               ELSE r.refs[k]]
    OBVIOUS
  <1>5. s \in Config!Stored /\ \A k \in Config!Keys : s[k] = IF k \in K
          THEN r.activation.previous[k]
                                                ELSE r.refs[k]
    BY <1>1, <1>2, <1>4, StoredMix
  <1>6. Config!Restored(r, a) = [r EXCEPT !.refs = s]
    <2>1. [k \in Config!Keys |-> IF k \in Config!ActivationKeys /\ r.refs[k] = a[k]
                          THEN r.activation.previous[k] ELSE r.refs[k]] = s
      BY <1>3, <1>4
    <2> QED BY <1>1, <2>1 DEF Config!Restored, Config!Process
  <1>7. \A k \in Config!SavedKeys \ T : s[k] = r.refs[k]
    BY <1>3, <1>5, ConfigKeys
  <1> QED BY <1>5, <1>6, <1>7, SetRefs

-----------------------------------------------------------------------------
(* A step of one process.                                                    *)

LEMMA ConfigFine ==
  ASSUME Config!ConfigInv, NEW p \in ConfigProcesses
  PROVE  /\ Owned(cfProc[p], cfTouched[p], cfOff[p]) /\ cfFile.keys \in Config!Stored
         /\ cfFile.malformed \in BOOLEAN
         /\ cfTouched[p] \subseteq Config!Keys /\ cfOff[p] \in BOOLEAN
         /\ cfProc[p] \in Config!Process
         /\ cfProc[p].started
              \/ ~(Config!Modal(cfProc[p]) \/ cfProc[p].activation.pc # "none" \/ cfOff[p])
  BY DEF Config!ConfigInv, Config!ConfigTypeOK, Owned, Config!Begun

SetOf(p, T) == cfTouched' = [cfTouched EXCEPT ![p] = T]
  \/ (cfTouched' = cfTouched /\ T = cfTouched[p])
OffOf(p, o) == cfOff' = [cfOff EXCEPT ![p] = o] \/ (cfOff' = cfOff /\ o = cfOff[p])
FileStep(T) ==
  /\ cfFile' \in [keys : Config!Stored, malformed : BOOLEAN]
  /\ {k \in Config!Keys : cfFile'.keys[k] # cfFile.keys[k]} \subseteq T
SettingsStep == Config!ConfigInv' /\ Config!SavesOwn /\ Config!OffStays'

LEMMA StepKeeps ==
  ASSUME Config!ConfigInv, NEW p \in ConfigProcesses, cfInst' = cfInst, NEW r, NEW T, NEW o,
         o \in BOOLEAN,
         T \subseteq Config!Keys, Owned(r, T, o), Config!Becomes(p, r), SetOf(p, T),
         OffOf(p, o), FileStep(T)
  PROVE  SettingsStep
  <1>1. /\ cfProc \in [ConfigProcesses -> Config!Process]
        /\ cfTouched \in [ConfigProcesses -> SUBSET Config!Keys]
        /\ cfOff \in [ConfigProcesses -> BOOLEAN] /\ cfInst \in ConfigInstances
    BY DEF Config!ConfigInv, Config!ConfigTypeOK
  <1>2. /\ cfProc' \in [ConfigProcesses -> Config!Process] /\ cfProc'[p] = r
        /\ \A q \in ConfigProcesses \ {p} : cfProc'[q] = cfProc[q]
    BY <1>1 DEF Config!Becomes, Owned
  <1>3. /\ cfTouched' \in [ConfigProcesses -> SUBSET Config!Keys] /\ cfTouched'[p] = T
        /\ \A q \in ConfigProcesses \ {p} : cfTouched'[q] = cfTouched[q]
    BY <1>1 DEF SetOf
  <1>4. /\ cfOff' \in [ConfigProcesses -> BOOLEAN] /\ cfOff'[p] = o
        /\ \A q \in ConfigProcesses \ {p} : cfOff'[q] = cfOff[q]
    BY <1>1 DEF OffOf
  <1>5. Config!ConfigTypeOK'
    BY <1>1, <1>2, <1>3, <1>4 DEF Config!ConfigTypeOK, FileStep
  <1>6. \A q \in ConfigProcesses : Owned(cfProc'[q], cfTouched'[q], cfOff'[q])
    <2>1. \A q \in ConfigProcesses \ {p} : Owned(cfProc'[q], cfTouched'[q], cfOff'[q])
      BY <1>1, <1>2, <1>3, <1>4, ConfigFine
    <2> QED BY <1>2, <1>3, <1>4, <2>1
  <1>7. Config!ConfigInv'
    BY <1>5, <1>6 DEF Config!ConfigInv, Owned
  <1>8. Config!SavesOwn
    BY <1>2, <1>3 DEF Config!SavesOwn, FileStep
  <1>9. Config!OffStays'
    BY <1>6 DEF Config!OffStays, Owned, Config!Outdated
  <1> QED BY <1>7, <1>8, <1>9 DEF SettingsStep

LEMMA FileStays ==
  ASSUME Config!ConfigInv, cfFile' = cfFile, NEW T
  PROVE  FileStep(T)
  BY DEF Config!ConfigInv, Config!ConfigTypeOK, FileStep

\* A save that is made or fails.
LEMMA SaveStep ==
  ASSUME Config!ConfigAssumption, Config!ConfigInv, NEW p \in ConfigProcesses,
         NEW r \in Config!Process, NEW P, NEW after,
         NEW T, Config!Changed(r) \subseteq T, Config!Saves(p, r, P, after)
  PROVE  FileStep(T) /\ Config!Becomes(p, after)
  <1>1. cfFile \in [keys : Config!Stored, malformed : BOOLEAN]
    BY DEF Config!ConfigInv, Config!ConfigTypeOK
  <1>2. PICK s : s = Config!Merged(r, P)
    OBVIOUS
  <1>3. s \in Config!Stored /\ {k \in Config!Keys : s[k] # cfFile.keys[k]} \subseteq T
    BY <1>1, <1>2, MergedOwn
  <1>4. cfFile' = [cfFile EXCEPT !.keys = s] /\ Config!Becomes(p, after)
    BY <1>2 DEF Config!Saves
  <1> QED BY <1>1, <1>3, <1>4 DEF FileStep

LEMMA SaveFailStep ==
  ASSUME Config!ConfigInv, NEW p \in ConfigProcesses, NEW r, NEW otherwise, NEW T,
         Config!SaveFails(p, r, otherwise)
  PROVE  FileStep(T) /\ Config!Becomes(p, otherwise)
  <1>1. cfFile' = cfFile /\ Config!Becomes(p, otherwise)
    BY DEF Config!SaveFails
  <1> QED BY <1>1, FileStays

Anew == IF Config!Loads THEN {} ELSE Config!Keys

LEMMA LoadedNow ==
  ASSUME Config!ConfigAssumption, Config!ConfigInv, NEW p \in ConfigProcesses, NEW K
  PROVE  /\ Owned(Config!Loaded(cfProc[p]), Anew \cup K, cfOff[p])
         /\ Config!Loaded(cfProc[p]) \in Config!Process
         /\ Rest(Config!Loaded(cfProc[p])) = Rest(cfProc[p])
         /\ Config!Loads => Config!Loaded(cfProc[p]).refs = Config!Loaded(cfProc[p]).baseline
         /\ Config!Loaded(cfProc[p]).pendingModel = cfProc[p].pendingModel
         /\ Config!Loaded(cfProc[p]).started = cfProc[p].started
         /\ Anew \subseteq Config!Keys
  <1>1. /\ Owned(cfProc[p], cfTouched[p], cfOff[p]) /\ cfFile.keys \in Config!Stored
        /\ cfProc[p] \in Config!Process
    BY ConfigFine
  <1>2. Owned(Config!Loaded(cfProc[p]), Anew \cup K, cfOff[p])
    BY <1>1, LoadedFine DEF Anew
  <1>3. Rest(Config!Loaded(cfProc[p])) = Rest(cfProc[p])
    BY <1>1, LoadedIs
  <1>4. Config!Loaded(cfProc[p]).started = cfProc[p].started
    BY <1>3 DEF Rest
  <1> QED BY <1>1, <1>2, <1>3, <1>4, LoadedIs DEF Anew

LEMMA AfterLoadIs ==
  ASSUME NEW p, NEW K, Config!AfterLoad(p, K)
  PROVE  SetOf(p, Anew \cup K)
  BY DEF Config!AfterLoad, SetOf, Anew

LEMMA TouchesIs ==
  ASSUME NEW p, NEW K, Config!Touches(p, K)
  PROVE  SetOf(p, cfTouched[p] \cup K)
  BY DEF Config!Touches, SetOf

LEMMA ConfigToolCallKeeps ==
  ASSUME Config!ConfigAssumption, Config!ConfigInv, cfInst' = cfInst, NEW p \in ConfigProcesses,
         Config!ToolCall(p)
  PROVE  SettingsStep
  <1>1. /\ Config!Becomes(p, Config!Loaded(cfProc[p])) /\ cfFile' = cfFile
        /\ SetOf(p, Anew \cup {}) /\ OffOf(p, cfOff[p])
    BY AfterLoadIs DEF Config!ToolCall, OffOf
  <1>2. cfOff[p] \in BOOLEAN
    BY ConfigFine
  <1> QED BY <1>1, <1>2, LoadedNow, StepKeeps, FileStays

LEMMA OpenDialogKeeps ==
  ASSUME Config!ConfigAssumption, Config!ConfigInv, cfInst' = cfInst, NEW p \in ConfigProcesses,
         Config!OpenDialog(p)
  PROVE  SettingsStep
  <1>1. PICK q : q = Config!Loaded(cfProc[p])
    OBVIOUS
  <1>2. /\ cfFile' = cfFile /\ SetOf(p, Anew \cup {}) /\ OffOf(p, cfOff[p]) /\ cfProc[p].started
        /\ Config!Becomes(p, IF Config!Loads THEN [q EXCEPT !.dialog = q.refs, !.stale = FALSE]
             ELSE q)
    BY <1>1, AfterLoadIs DEF Config!OpenDialog, OffOf, Config!Command
  <1>3. cfOff[p] \in BOOLEAN
    BY ConfigFine
  <1>4. /\ Owned(q, Anew \cup {}, cfOff[p]) /\ q \in Config!Process /\ q.started
        /\ Anew \cup {} \subseteq Config!Keys
        /\ Config!Loads => q.refs = q.baseline
    BY <1>1, <1>2, LoadedNow
  <1>5. CASE Config!Loads
    <2>1. PICK d \in Config!Stored : d = q.refs
      BY <1>4, ProcessHas
    <2>2. PICK old \in BOOLEAN : old = FALSE
      OBVIOUS
    <2>3. Config!Becomes(p, [q EXCEPT !.dialog = d, !.stale = old])
      BY <1>2, <1>5, <2>1, <2>2
    <2>4. {k \in Config!DialogKeys \cap Config!SavedKeys : d[k] # q.baseline[k]}
            \subseteq Anew \cup {}
      BY <1>4, <1>5, <2>1
    <2>5. Owned([q EXCEPT !.dialog = d, !.stale = old], Anew \cup {}, cfOff[p])
      BY <1>4, <2>4, WithDialog
    <2> QED BY <1>2, <1>3, <1>4, <2>3, <2>5, StepKeeps, FileStays
  <1>6. CASE ~Config!Loads
    <2>1. Config!Becomes(p, q)
      BY <1>2, <1>6
    <2> QED BY <1>2, <1>3, <1>4, <2>1, StepKeeps, FileStays
  <1> QED BY <1>5, <1>6

LEMMA CloseDialogKeeps ==
  ASSUME Config!ConfigAssumption, Config!ConfigInv, cfInst' = cfInst, NEW p \in ConfigProcesses,
         Config!CloseDialog(p)
  PROVE  SettingsStep
  <1>1. PICK r : r = cfProc[p]
    OBVIOUS
  <1>2. PICK old \in BOOLEAN : old = FALSE
    OBVIOUS
  <1>3. /\ cfFile' = cfFile /\ SetOf(p, cfTouched[p]) /\ OffOf(p, cfOff[p]) /\ r.dialog # None
        /\ Config!Becomes(p, [r EXCEPT !.dialog = None, !.stale = old])
    BY <1>1, <1>2 DEF Config!CloseDialog, OffOf, SetOf
  <1>4. /\ Owned(r, cfTouched[p], cfOff[p]) /\ cfTouched[p] \subseteq Config!Keys
        /\ cfOff[p] \in BOOLEAN
    BY <1>1, ConfigFine
  <1>5. r.started
    BY <1>1, <1>3, ConfigFine DEF Config!Modal
  <1>6. Owned([r EXCEPT !.dialog = None, !.stale = old], cfTouched[p], cfOff[p])
    BY <1>4, <1>5, WithDialog
  <1> QED BY <1>3, <1>4, <1>6, StepKeeps, FileStays

LEMMA AdvisorOffKeeps ==
  ASSUME Config!ConfigAssumption, Config!ConfigInv, cfInst' = cfInst, NEW p \in ConfigProcesses,
         Config!AdvisorOff(p)
  PROVE  SettingsStep
  <1>1. PICK q : q = Config!Loaded(cfProc[p])
    OBVIOUS
  <1>2. PICK T : T = Anew \cup {"tools", "alwaysOn"}
    OBVIOUS
  <1>3. PICK no \in Values : no = FALSE
    BY DEF Config!ConfigAssumption
  <1>4. PICK up \in BOOLEAN : up = TRUE
    OBVIOUS
  <1>5. cfOff[p] \in BOOLEAN /\ T \subseteq Config!Keys
    BY <1>2, ConfigFine, LoadedNow DEF Config!Keys, Config!SavedKeys
  <1>6. PICK s : s = [[q.refs EXCEPT !.tools = no] EXCEPT !.alwaysOn = no]
    OBVIOUS
  <1>7. PICK r : r = [[q EXCEPT !.refs = s] EXCEPT !.revision = IF up THEN @ + 1 ELSE @,
                                                   !.active = no]
    OBVIOUS
  <1>8. Owned(q, T, cfOff[p]) /\ q \in Config!Process /\ q.refs \in Config!Stored
    BY <1>1, <1>2, LoadedNow, ProcessHas
  <1>9. s \in Config!Stored /\ \A k \in Config!SavedKeys \ T : s[k] = q.refs[k]
    <2>1. PICK b \in Config!Stored : b = q.refs
      BY <1>8
    <2>2. s = [[b EXCEPT !.tools = no] EXCEPT !.alwaysOn = no] /\ no \in BOOLEAN
      BY <1>3, <1>6, <2>1
    <2>3. b \in [Config!Keys -> Values] /\ {"tools", "alwaysOn"} \subseteq Config!Keys
      BY StoredIs DEF Config!Keys, Config!SavedKeys
    <2>4. /\ s \in [Config!Keys -> Values] /\ s.tools = no /\ s.alwaysOn = no
          /\ \A k \in Config!Keys \ {"tools", "alwaysOn"} : s[k] = b[k]
      BY <2>2, <2>3
    <2>5. s \in Config!Stored
      BY <2>2, <2>4, StoredOff
    <2> QED BY <1>2, <2>1, <2>4, <2>5, ConfigKeys
  <1>10. [Config!Loaded(cfProc[p]) EXCEPT !.revision = @ + 1, !.active = FALSE,
             !.refs.tools = FALSE,
                                 !.refs.alwaysOn = FALSE] = r
    BY <1>1, <1>3, <1>4, <1>6, <1>7, <1>8 DEF Config!Process
  <1>11. /\ cfFile' = cfFile \/ Config!Loads
         /\ SetOf(p, T) /\ OffOf(p, up) /\ cfProc[p].started
         /\ IF Config!Loads
              THEN Config!Saves(p, r, r.persisted, Config!Saved(r, r.persisted))
                \/ Config!SaveFails(p, r, r)
            ELSE Config!Becomes(p, r) /\ cfFile' = cfFile
    BY <1>2, <1>4, <1>10, AfterLoadIs DEF Config!AdvisorOff, OffOf, Config!Command
  <1>12. q.started
    BY <1>1, <1>11, LoadedNow
  <1>13. /\ Owned([q EXCEPT !.refs = s], T, cfOff[p]) /\ [q EXCEPT !.refs = s].started
    BY <1>8, <1>9, <1>12, SetRefs, RestSame
  <1>14. Owned(r, T, up)
    BY <1>3, <1>4, <1>5, <1>7, <1>13, Switched
  <1>15. r \in Config!Process /\ r.started /\ Config!Changed(r) \subseteq T
    <2>1. r.started
      BY <1>7, <1>8, <1>12 DEF Config!Process
    <2> QED BY <1>14, <2>1 DEF Owned, Config!OwnChanges
  <1>16. cfFile.keys \in Config!Stored
    BY ConfigFine
  <1>17. Owned(Config!Saved(r, r.persisted), T, up)
    BY <1>14, <1>15, <1>16, SavedFine
  <1>18. CASE Config!Saves(p, r, r.persisted, Config!Saved(r, r.persisted))
    <2>1. FileStep(T) /\ Config!Becomes(p, Config!Saved(r, r.persisted))
      BY <1>15, <1>18, SaveStep
    <2> QED BY <1>5, <1>11, <1>17, <2>1, StepKeeps
  <1>19. CASE Config!SaveFails(p, r, r)
    <2>1. FileStep(T) /\ Config!Becomes(p, r)
      BY <1>19, SaveFailStep
    <2> QED BY <1>5, <1>11, <1>14, <2>1, StepKeeps
  <1>20. CASE Config!Becomes(p, r) /\ cfFile' = cfFile
    BY <1>5, <1>11, <1>14, <1>20, StepKeeps, FileStays
  <1> QED BY <1>11, <1>18, <1>19, <1>20

\* Less may be disabled.
LEMMA FineLess ==
  ASSUME NEW r, NEW T, NEW was, Owned(r, T, was), NEW disabled, disabled => was
  PROVE  Owned(r, T, disabled)
  BY DEF Owned, Config!Outdated, Config!Begun

\* What the dialog shows otherwise than what is live, it has set.
LEMMA DialogOwn ==
  ASSUME NEW r, NEW S, Config!OwnChanges(r, S), r.started, r.dialog # None, NEW T, S \subseteq T,
         NEW copy,
         (IF r.stale THEN Config!DialogKeys
           ELSE {k \in Config!DialogKeys : copy[k] # r.dialog[k]}) \subseteq T,
         NEW k \in (Config!DialogKeys \cap Config!SavedKeys) \ T
  PROVE  copy[k] = r.refs[k] /\ (r.baseline # None => copy[k] = r.baseline[k])
  <1>1. ~r.stale /\ copy[k] = r.dialog[k] /\ k \notin S
    OBVIOUS
  <1>2. k \notin Config!Changed(r)
    BY <1>1 DEF Config!OwnChanges
  <1>3. r.baseline # None /\ r.refs[k] = r.baseline[k]
    BY <1>2 DEF Config!Changed
  <1>4. r.dialog[k] = r.baseline[k]
    BY <1>1, <1>3 DEF Config!OwnChanges
  <1> QED BY <1>1, <1>3, <1>4

LEMMA AppliedFine ==
  ASSUME NEW r, NEW T, NEW disabled, Owned(r, T, disabled), r.started, NEW copy \in Config!Stored,
         \A k \in (Config!DialogKeys \cap Config!SavedKeys) \ T : copy[k] = r.refs[k]
  PROVE  /\ Owned(Config!Applied(r, copy), T, disabled)
         /\ Config!Applied(r, copy) \in Config!Process
         /\ Rest(Config!Applied(r, copy)) = Rest(r) /\ Config!Applied(r, copy).started
         /\ Config!Changed(Config!Applied(r, copy)) \subseteq T
         /\ Config!Applied(r, copy).baseline = r.baseline
         /\ Config!Applied(r, copy).stale = r.stale
         /\ \A k \in Config!SavedKeys \ T : Config!Applied(r, copy).refs[k] = r.refs[k]
  <1>1. r \in Config!Process /\ r.refs \in Config!Stored
    BY ProcessHas DEF Owned
  <1>2. PICK s : s = [k \in Config!Keys |-> IF k \in Config!DialogKeys THEN copy[k]
               ELSE r.refs[k]]
    OBVIOUS
  <1>3. s \in Config!Stored /\ \A k \in Config!Keys : s[k] = IF k \in Config!DialogKeys
          THEN copy[k] ELSE r.refs[k]
    BY <1>1, <1>2, StoredMix
  <1>4. Config!Applied(r, copy) = [r EXCEPT !.refs = s]
    BY <1>1, <1>2 DEF Config!Applied, Config!Process
  <1>5. \A k \in Config!SavedKeys \ T : s[k] = r.refs[k]
    BY <1>3, ConfigKeys
  <1>6. /\ Owned(Config!Applied(r, copy), T, disabled) /\ Rest(Config!Applied(r, copy)) = Rest(r)
        /\ Config!Applied(r, copy).refs = s /\ Config!Applied(r, copy).baseline = r.baseline
        /\ Config!Applied(r, copy).stale = r.stale
    BY <1>3, <1>4, <1>5, SetRefs
  <1>7. Config!Applied(r, copy).started
    BY <1>6 DEF Rest
  <1>8. Config!Changed(Config!Applied(r, copy)) \subseteq T
    BY <1>6, <1>7 DEF Owned, Config!OwnChanges
  <1> QED BY <1>5, <1>6, <1>7, <1>8 DEF Owned

LEMMA DialogChangeKeeps ==
  ASSUME Config!ConfigAssumption, Config!ConfigInv, cfInst' = cfInst, NEW p \in ConfigProcesses,
         NEW choice \in Config!Setting, Config!DialogChange(p, choice)
  PROVE  SettingsStep
  <1>1. PICK r : r = cfProc[p]
    OBVIOUS
  <1>2. PICK copy : copy = Config!Mutated(r.dialog, choice.key, choice.value)
    OBVIOUS
  <1>3. PICK disabling \in BOOLEAN : disabling = (r.refs.tools /\ ~copy.tools)
    OBVIOUS
  <1>4. PICK K : K = {"logging"} \cup (IF disabling THEN {"alwaysOn"} ELSE {})
                       \cup (IF r.stale THEN Config!DialogKeys
                             ELSE {k \in Config!DialogKeys : copy[k] # r.dialog[k]})
    OBVIOUS
  <1>5. PICK T : T = cfTouched[p] \cup K
    OBVIOUS
  <1>6. r.dialog # None /\ SetOf(p, T)
    <2>1. Config!InDialog(p, copy, {"logging"} \cup (IF disabling THEN {"alwaysOn"} ELSE {}))
      BY <1>1, <1>2, <1>3 DEF Config!DialogChange
    <2>2. r.dialog # None /\ Config!Touches(p, K)
      BY <1>1, <1>4, <2>1 DEF Config!InDialog
    <2> QED BY <1>5, <2>2, TouchesIs
  <1>7. /\ Owned(r, cfTouched[p], cfOff[p]) /\ r.started /\ r \in Config!Process
        /\ r.refs \in Config!Stored
        /\ r.dialog \in Config!Stored /\ cfOff[p] \in BOOLEAN
        /\ cfTouched[p] \subseteq Config!Keys
        /\ cfFile.keys \in Config!Stored /\ cfFile.malformed \in BOOLEAN
    BY <1>1, <1>6, ConfigFine, ProcessHas DEF Config!Modal
  <1>8. copy \in Config!Stored /\ copy.tools \in BOOLEAN /\ r.refs.tools \in BOOLEAN
    BY <1>2, <1>7, MutatedStored, StoredIs DEF Config!Switches
  <1>9. T \subseteq Config!Keys /\ cfTouched[p] \subseteq T /\ "logging" \in T
    <2>1. "logging" \in Config!Keys /\ "alwaysOn" \in Config!Keys
      BY DEF Config!Keys, Config!SavedKeys
    <2> QED BY <1>4, <1>5, <1>7, <2>1, ConfigKeys
  <1>10. Owned(r, T, cfOff[p])
    BY <1>7, <1>9, FineMore
  <1>11. \A k \in (Config!DialogKeys \cap Config!SavedKeys) \ T :
            copy[k] = r.refs[k] /\ (r.baseline # None => copy[k] = r.baseline[k])
    BY <1>4, <1>5, <1>6, <1>7, <1>9, DialogOwn DEF Owned
  <1>12. disabling => {"tools", "alwaysOn"} \subseteq T
    <2>1. "tools" \in Config!DialogKeys \cap Config!SavedKeys
      BY DEF Config!DialogKeys, Config!SavedKeys
    <2> QED BY <1>3, <1>4, <1>5, <1>8, <1>11, <2>1
  <1>13. PICK opened : opened = [r EXCEPT !.dialog = copy]
    OBVIOUS
  <1>14. Owned(opened, T, cfOff[p]) /\ opened.started /\ opened.refs = r.refs
           /\ opened.persisted = r.persisted
    <2>1. opened = [r EXCEPT !.dialog = copy, !.stale = r.stale]
      BY <1>7, <1>13 DEF Config!Process
    <2>2. Owned([r EXCEPT !.dialog = copy, !.stale = r.stale], T, cfOff[p])
      <3>1. {k \in Config!DialogKeys \cap Config!SavedKeys : copy[k] # r.baseline[k]} \subseteq T
              \/ r.baseline = None
        BY <1>11
      <3>2. r.stale \in BOOLEAN
        BY <1>7, ProcessHas
      <3> QED BY <1>7, <1>8, <1>10, <3>1, <3>2, WithDialog
    <2>3. Owned(opened, T, cfOff[p])
      BY <2>1, <2>2
    <2> QED BY <1>7, <1>13, <2>3 DEF Config!Process
  <1>15. PICK applied : applied = Config!Applied(opened, copy)
    OBVIOUS
  <1>16. /\ Owned(applied, T, cfOff[p]) /\ applied \in Config!Process /\ applied.started
         /\ Config!Changed(applied) \subseteq T
         /\ \A k \in Config!SavedKeys \ T : applied.refs[k] = r.refs[k]
    BY <1>8, <1>11, <1>14, <1>15, AppliedFine
  <1>17. PICK saved : saved = Config!Saved(applied, r.persisted)
    OBVIOUS
  <1>18. Owned(saved, T, cfOff[p]) /\ saved.refs = applied.refs /\ saved.started
    BY <1>7, <1>16, <1>17, SavedFine, SavedIs, RestSame
  <1>19. PICK up \in BOOLEAN : up = (r.refs.tools # copy.tools)
    OBVIOUS
  <1>20. PICK o \in BOOLEAN : o = (disabling \/ (cfOff[p] /\ ~copy.tools))
    OBVIOUS
  <1>21. OffOf(p, o)
    <2>1. cfOff' = [cfOff EXCEPT ![p] = disabling \/ (@ /\ ~copy.tools)]
      BY <1>1, <1>2, <1>3 DEF Config!DialogChange
    <2>2. cfOff \in [ConfigProcesses -> BOOLEAN]
      BY DEF Config!ConfigInv, Config!ConfigTypeOK
    <2>3. [cfOff EXCEPT ![p] = disabling \/ (@ /\ ~copy.tools)] = [cfOff EXCEPT ![p] = o]
      BY <1>20, <2>2
    <2> QED BY <2>1, <2>3 DEF OffOf
  <1> DEFINE noted(s) == [s EXCEPT !.revision = IF up THEN @ + 1 ELSE @]
             restored(s) == [s EXCEPT !.refs = r.refs]
             failed(s) == IF disabling
                          THEN [noted(restored(s)) EXCEPT !.refs.tools = FALSE,
                                   !.refs.alwaysOn = FALSE, !.active = FALSE]
                          ELSE restored(s)
             written == [cfFile EXCEPT !.keys = Config!Merged(applied, r.persisted)]
  <1>22. \/ /\ Config!Loads /\ cfFile' = [written EXCEPT !.keys.logging = copy.logging]
            /\ Config!Becomes(p, [noted(saved) EXCEPT !.active = copy.tools])
         \/ cfFile' = written /\ Config!Becomes(p, failed(saved))
         \/ cfFile' = cfFile /\ Config!Becomes(p, failed(opened))
    <2>1. \/ /\ Config!Loads /\ cfFile' = [written EXCEPT !.keys.logging = copy.logging]
             /\ Config!Becomes(p,
                    [[saved EXCEPT !.revision = IF r.refs.tools # copy.tools THEN @ + 1 ELSE @]
                              EXCEPT !.active = copy.tools])
          \/ /\ cfFile' = written
             /\ Config!Becomes(p, IF r.refs.tools /\ ~copy.tools
                           THEN [[[saved EXCEPT !.refs = r.refs] EXCEPT !.revision
                             = IF r.refs.tools # copy.tools THEN @ + 1 ELSE @]
                                   EXCEPT !.refs.tools = FALSE, !.refs.alwaysOn
                                     = FALSE, !.active = FALSE]
                           ELSE [saved EXCEPT !.refs = r.refs])
          \/ /\ cfFile' = cfFile
             /\ Config!Becomes(p, IF r.refs.tools /\ ~copy.tools
                           THEN [[[opened EXCEPT !.refs = r.refs] EXCEPT !.revision
                             = IF r.refs.tools # copy.tools THEN @ + 1 ELSE @]
                                   EXCEPT !.refs.tools = FALSE, !.refs.alwaysOn
                                     = FALSE, !.active = FALSE]
                           ELSE [opened EXCEPT !.refs = r.refs])
      BY <1>1, <1>2, <1>13, <1>15, <1>17 DEF Config!DialogChange
    <2>2. [[saved EXCEPT !.revision = IF r.refs.tools # copy.tools THEN @ + 1 ELSE @]
             EXCEPT !.active = copy.tools] = [noted(saved) EXCEPT !.active = copy.tools]
      BY <1>19
    <2>3. ASSUME NEW x
          PROVE  (IF r.refs.tools /\ ~copy.tools
                  THEN [[[x EXCEPT !.refs = r.refs] EXCEPT !.revision
                    = IF r.refs.tools # copy.tools THEN @ + 1 ELSE @]
                          EXCEPT !.refs.tools = FALSE, !.refs.alwaysOn = FALSE, !.active = FALSE]
                  ELSE [x EXCEPT !.refs = r.refs]) = failed(x)
      BY <1>3, <1>19
    <2>4. /\ failed(saved) = (IF r.refs.tools /\ ~copy.tools
                           THEN [[[saved EXCEPT !.refs = r.refs] EXCEPT !.revision
                             = IF r.refs.tools # copy.tools THEN @ + 1 ELSE @]
                                   EXCEPT !.refs.tools = FALSE, !.refs.alwaysOn
                                     = FALSE, !.active = FALSE]
                           ELSE [saved EXCEPT !.refs = r.refs])
          /\ failed(opened) = (IF r.refs.tools /\ ~copy.tools
                           THEN [[[opened EXCEPT !.refs = r.refs] EXCEPT !.revision
                             = IF r.refs.tools # copy.tools THEN @ + 1 ELSE @]
                                   EXCEPT !.refs.tools = FALSE, !.refs.alwaysOn
                                     = FALSE, !.active = FALSE]
                           ELSE [opened EXCEPT !.refs = r.refs])
      BY <2>3
    <2> HIDE DEF failed
    <2> QED BY <2>1, <2>2, <2>4
  <1>23. FileStep(T)
    <2>1. PICK s : s = Config!Merged(applied, r.persisted)
      OBVIOUS
    <2>2. s \in Config!Stored /\ {k \in Config!Keys : s[k] # cfFile.keys[k]} \subseteq T
      BY <1>7, <1>16, <2>1, MergedOwn
    <2>3. copy.logging \in BOOLEAN /\ copy.logging \in Values
      BY <1>8, StoredIs DEF Config!Switches, Config!ConfigAssumption
    <2>4. PICK u : u = [s EXCEPT !.logging = copy.logging]
      OBVIOUS
    <2>5. u \in Config!Stored /\ \A k \in Config!Keys : k # "logging" => u[k] = s[k]
      <3>1. "logging" \in Config!Keys
        BY DEF Config!Keys
      <3>2. /\ [s EXCEPT !["logging"] = copy.logging] \in Config!Stored
            /\ \A k \in Config!Keys : k # "logging"
                 => [s EXCEPT !["logging"] = copy.logging][k] = s[k]
        BY <2>2, <2>3, <3>1, StoredWith
      <3> QED BY <2>4, <3>2
    <2>6. cfFile \in [keys : Config!Stored, malformed : BOOLEAN]
      BY DEF Config!ConfigInv, Config!ConfigTypeOK
    <2>7. cfFile' = [cfFile EXCEPT !.keys = u] \/ cfFile' = [cfFile EXCEPT !.keys = s]
            \/ cfFile' = cfFile
      BY <1>22, <2>1, <2>4, <2>6
    <2> QED BY <1>9, <2>2, <2>5, <2>6, <2>7 DEF FileStep
  <1>24. ASSUME NEW x, Owned(x, T, cfOff[p]), x.started,
                \A k \in Config!SavedKeys \ T : x.refs[k] = r.refs[k]
         PROVE  Owned(failed(x), T, o)
    <2>1. PICK s \in Config!Stored : s = r.refs
      BY <1>7
    <2>2. CASE disabling
      <3>1. PICK no : no = FALSE
        OBVIOUS
      <3>2. up /\ o
        BY <1>3, <1>8, <1>19, <1>20, <2>2
      <3>3. PICK z : z = [[[x EXCEPT !.refs = s] EXCEPT !.revision = IF up THEN @ + 1 ELSE @]
                            EXCEPT !.refs.tools = no, !.refs.alwaysOn = no, !.active = no]
        OBVIOUS
      <3>4. failed(x) = z
        BY <2>1, <2>2, <3>1, <3>3
      <3>5. x \in Config!Process
        BY <1>24 DEF Owned
      <3>6. PICK t : t = [[s EXCEPT !.tools = no] EXCEPT !.alwaysOn = no]
        OBVIOUS
      <3>7. PICK y : y = [x EXCEPT !.refs = t]
        OBVIOUS
      <3>8. z = [y EXCEPT !.revision = IF up THEN @ + 1 ELSE @, !.active = no]
        BY <3>3, <3>5, <3>6, <3>7 DEF Config!Process
      <3>9. s \in [Config!Keys -> Values] /\ {"tools", "alwaysOn"} \subseteq Config!Keys
              /\ no \in BOOLEAN /\ no \in Values
        BY <3>1, StoredIs DEF Config!Keys, Config!SavedKeys, Config!ConfigAssumption
      <3>10. /\ t \in [Config!Keys -> Values] /\ t.tools = no /\ t.alwaysOn = no
             /\ \A k \in Config!Keys \ {"tools", "alwaysOn"} : t[k] = s[k]
        BY <3>6, <3>9
      <3>11. t \in Config!Stored
        BY <3>9, <3>10, StoredOff
      <3>12. \A k \in Config!SavedKeys \ T : t[k] = x.refs[k]
        BY <1>12, <1>24, <2>1, <2>2, <3>10, ConfigKeys
      <3>13. Owned(y, T, cfOff[p]) /\ y.started
        BY <1>24, <3>7, <3>11, <3>12, SetRefs, RestSame
      <3>14. PICK off0 \in BOOLEAN : off0 = no
        BY <3>9
      <3>15. o => ~off0 /\ (up \/ cfOff[p])
        BY <3>1, <3>2, <3>14
      <3>16. Owned([y EXCEPT !.revision = IF up THEN @ + 1 ELSE @, !.active = off0], T, o)
        BY <3>13, <3>15, Switched
      <3>17. z = [y EXCEPT !.revision = IF up THEN @ + 1 ELSE @, !.active = off0]
        BY <3>8, <3>14
      <3> QED BY <3>4, <3>16, <3>17
    <2>3. CASE ~disabling
      <3>1. PICK z : z = [x EXCEPT !.refs = s]
        OBVIOUS
      <3>2. Owned(z, T, cfOff[p])
        BY <1>24, <2>1, <3>1, SetRefs
      <3>3. failed(x) = z
        BY <2>1, <2>3, <3>1
      <3>4. o => cfOff[p]
        BY <1>20, <2>3
      <3> QED BY <3>2, <3>3, <3>4, FineLess
    <2> QED BY <2>2, <2>3
  <1>25. CASE Config!Becomes(p, [noted(saved) EXCEPT !.active = copy.tools])
    <2>1. PICK on \in BOOLEAN : on = copy.tools
      BY <1>8
    <2>2. PICK z : z = [saved EXCEPT !.revision = IF up THEN @ + 1 ELSE @, !.active = on]
      OBVIOUS
    <2>3. [noted(saved) EXCEPT !.active = copy.tools] = z
      BY <2>1, <2>2
    <2>4. o => ~on /\ (up \/ cfOff[p])
      BY <1>3, <1>8, <1>19, <1>20, <2>1
    <2>5. Owned([saved EXCEPT !.revision = IF up THEN @ + 1 ELSE @, !.active = on], T, o)
      <3>1. PICK was : was = cfOff[p]
        OBVIOUS
      <3>2. Owned(saved, T, was) /\ saved.started
        BY <1>18, <3>1
      <3>3. o => ~on /\ (up \/ was)
        BY <2>4, <3>1
      <3> QED BY <3>2, <3>3, Switched
    <2>6. Owned(z, T, o) /\ Config!Becomes(p, z)
      BY <1>25, <2>2, <2>3, <2>5
    <2> QED BY <1>9, <1>6, <1>21, <1>23, <2>6, StepKeeps
  <1>26. CASE Config!Becomes(p, failed(saved))
    <2>1. Owned(failed(saved), T, o)
      BY <1>16, <1>18, <1>24
    <2>2. PICK z : z = failed(saved)
      OBVIOUS
    <2>3. Owned(z, T, o) /\ Config!Becomes(p, z)
      BY <1>26, <2>1, <2>2
    <2> QED BY <1>9, <1>6, <1>21, <1>23, <2>3, StepKeeps
  <1>27. CASE Config!Becomes(p, failed(opened))
    <2>1. Owned(failed(opened), T, o)
      BY <1>14, <1>24
    <2>2. PICK z : z = failed(opened)
      OBVIOUS
    <2>3. Owned(z, T, o) /\ Config!Becomes(p, z)
      BY <1>27, <2>1, <2>2
    <2> QED BY <1>9, <1>6, <1>21, <1>23, <2>3, StepKeeps
  <1> QED BY <1>22, <1>25, <1>26, <1>27

LEMMA JevChangeKeeps ==
  ASSUME Config!ConfigAssumption, Config!ConfigInv, cfInst' = cfInst, NEW p \in ConfigProcesses,
         NEW on \in BOOLEAN, Config!JevChange(p, on)
  PROVE  SettingsStep
  <1>1. PICK r : r = cfProc[p]
    OBVIOUS
  <1>2. PICK copy : copy = [r.dialog EXCEPT !.jev = on]
    OBVIOUS
  <1>3. PICK K : K = {} \cup (IF r.stale THEN Config!DialogKeys
                             ELSE {k \in Config!DialogKeys : copy[k] # r.dialog[k]})
    OBVIOUS
  <1>4. PICK T : T = cfTouched[p] \cup K
    OBVIOUS
  <1>5. r.dialog # None /\ SetOf(p, T)
    <2>1. Config!InDialog(p, copy, {})
      BY <1>1, <1>2 DEF Config!JevChange
    <2>2. r.dialog # None /\ Config!Touches(p, K)
      BY <1>1, <1>3, <2>1 DEF Config!InDialog
    <2> QED BY <1>4, <2>2, TouchesIs
  <1>6. /\ Owned(r, cfTouched[p], cfOff[p]) /\ r.started /\ r \in Config!Process
        /\ r.dialog \in Config!Stored /\ cfOff[p] \in BOOLEAN
        /\ cfTouched[p] \subseteq Config!Keys
        /\ cfFile.keys \in Config!Stored
    BY <1>1, <1>5, ConfigFine, ProcessHas DEF Config!Modal
  <1>7. copy \in Config!Stored /\ copy.tools \in BOOLEAN
    <2>1. "jev" \in Config!Keys /\ on \in Values
      BY DEF Config!Keys, Config!SavedKeys, Config!ConfigAssumption
    <2>2. [r.dialog EXCEPT !["jev"] = on] \in Config!Stored
      BY <1>6, <2>1, StoredWith
    <2>3. copy \in Config!Stored
      BY <1>2, <2>2
    <2> QED BY <2>3, StoredIs DEF Config!Switches
  <1>8. T \subseteq Config!Keys /\ cfTouched[p] \subseteq T
    BY <1>3, <1>4, <1>6, ConfigKeys
  <1>9. Owned(r, T, cfOff[p])
    BY <1>6, <1>8, FineMore
  <1>10. \A k \in (Config!DialogKeys \cap Config!SavedKeys) \ T :
            copy[k] = r.refs[k] /\ (r.baseline # None => copy[k] = r.baseline[k])
    BY <1>3, <1>4, <1>5, <1>6, <1>8, DialogOwn DEF Owned
  <1>11. PICK x : x = Config!Applied(r, copy)
    OBVIOUS
  <1>12. /\ Owned(x, T, cfOff[p]) /\ x \in Config!Process /\ x.started
         /\ x.baseline = r.baseline /\ x.stale \in BOOLEAN
    BY <1>6, <1>7, <1>9, <1>10, <1>11, AppliedFine, ProcessHas
  <1>13. PICK applied : applied = [x EXCEPT !.dialog = copy]
    OBVIOUS
  <1>14. Owned(applied, T, cfOff[p]) /\ applied.started
    <2>1. applied = [x EXCEPT !.dialog = copy, !.stale = x.stale]
      BY <1>12, <1>13 DEF Config!Process
    <2>2. Owned([x EXCEPT !.dialog = copy, !.stale = x.stale], T, cfOff[p])
      <3>1. {k \in Config!DialogKeys \cap Config!SavedKeys : copy[k] # x.baseline[k]} \subseteq T
              \/ x.baseline = None
        BY <1>10, <1>12
      <3> QED BY <1>7, <1>12, <3>1, WithDialog
    <2>3. Owned(applied, T, cfOff[p])
      BY <2>1, <2>2
    <2> QED BY <1>12, <1>13, <2>3 DEF Config!Process
  <1>15. applied \in Config!Process /\ Config!Changed(applied) \subseteq T
    BY <1>14 DEF Owned, Config!OwnChanges
  <1>16. PICK saved : saved = Config!Saved(applied, r.persisted)
    OBVIOUS
  <1>17. Owned(saved, T, cfOff[p]) /\ saved.started /\ saved \in Config!Process
    BY <1>6, <1>14, <1>15, <1>16, SavedFine, SavedIs, RestSame
  <1>18. PICK o \in BOOLEAN : o = (cfOff[p] /\ ~copy.tools)
    OBVIOUS
  <1>19. OffOf(p, o)
    <2>1. cfOff' = [cfOff EXCEPT ![p] = @ /\ ~copy.tools]
      BY <1>1, <1>2 DEF Config!JevChange
    <2>2. cfOff \in [ConfigProcesses -> BOOLEAN]
      BY DEF Config!ConfigInv, Config!ConfigTypeOK
    <2>3. [cfOff EXCEPT ![p] = @ /\ ~copy.tools] = [cfOff EXCEPT ![p] = o]
      BY <1>18, <2>2
    <2> QED BY <2>1, <2>3 DEF OffOf
  <1>20. \/ Config!Saves(p, applied, r.persisted, [saved EXCEPT !.active = copy.tools])
         \/ Config!SaveFails(p, applied, r)
    BY <1>1, <1>2, <1>11, <1>13, <1>16 DEF Config!JevChange
  <1>21. CASE Config!Saves(p, applied, r.persisted, [saved EXCEPT !.active = copy.tools])
    <2>1. PICK up \in BOOLEAN : ~up
      OBVIOUS
    <2>2. PICK is \in BOOLEAN : is = copy.tools
      BY <1>7
    <2>3. PICK was : was = cfOff[p]
      OBVIOUS
    <2>4. Owned(saved, T, was) /\ (o => ~is /\ (up \/ was))
      BY <1>17, <1>18, <2>2, <2>3
    <2>5. Owned([saved EXCEPT !.revision = IF up THEN @ + 1 ELSE @, !.active = is], T, o)
      BY <1>17, <2>4, Switched
    <2>6. PICK z : z = [saved EXCEPT !.active = copy.tools]
      OBVIOUS
    <2>7. z = [saved EXCEPT !.revision = IF up THEN @ + 1 ELSE @, !.active = is]
      BY <1>17, <2>1, <2>2, <2>6 DEF Config!Process
    <2>8. FileStep(T) /\ Config!Becomes(p, z)
      BY <1>15, <1>21, <2>6, SaveStep
    <2>9. Owned(z, T, o)
      BY <2>5, <2>7
    <2> QED BY <1>5, <1>8, <1>19, <2>8, <2>9, StepKeeps
  <1>22. CASE Config!SaveFails(p, applied, r)
    <2>1. FileStep(T) /\ Config!Becomes(p, r)
      BY <1>22, SaveFailStep
    <2>2. Owned(r, T, o)
      BY <1>9, <1>18, FineLess
    <2> QED BY <1>5, <1>8, <1>19, <2>1, <2>2, StepKeeps
  <1> QED BY <1>20, <1>21, <1>22

LEMMA OpenPickerKeeps ==
  ASSUME Config!ConfigAssumption, Config!ConfigInv, cfInst' = cfInst, NEW p \in ConfigProcesses,
         Config!OpenPicker(p)
  PROVE  SettingsStep
  <1>1. PICK q : q = Config!Loaded(cfProc[p])
    OBVIOUS
  <1>2. PICK z : z = [q EXCEPT !.picker = Config!Loads]
    OBVIOUS
  <1>3. /\ cfFile' = cfFile /\ SetOf(p, Anew \cup {}) /\ OffOf(p, cfOff[p]) /\ cfProc[p].started
        /\ Config!Becomes(p, z)
    BY <1>1, <1>2, AfterLoadIs DEF Config!OpenPicker, OffOf, Config!Command
  <1>4. cfOff[p] \in BOOLEAN /\ cfFile.malformed \in BOOLEAN
    BY ConfigFine
  <1>5. /\ Owned(q, Anew \cup {}, cfOff[p]) /\ q \in Config!Process /\ q.started
        /\ Anew \cup {} \subseteq Config!Keys
    BY <1>1, <1>3, LoadedNow
  <1>6. PICK open \in BOOLEAN : open = Config!Loads
    BY <1>4 DEF Config!Loads
  <1>7. Owned([q EXCEPT !.picker = open, !.pendingModel = q.pendingModel], Anew \cup {}, cfOff[p])
    BY <1>5, WithPicker, ProcessHas
  <1>8. z = [q EXCEPT !.picker = open, !.pendingModel = q.pendingModel]
    BY <1>2, <1>5, <1>6 DEF Config!Process
  <1>9. Owned(z, Anew \cup {}, cfOff[p])
    BY <1>7, <1>8
  <1> QED BY <1>3, <1>4, <1>5, <1>9, StepKeeps, FileStays

LEMMA PickerCancelledKeeps ==
  ASSUME Config!ConfigAssumption, Config!ConfigInv, cfInst' = cfInst, NEW p \in ConfigProcesses,
         Config!PickerCancelled(p)
  PROVE  SettingsStep
  <1>1. PICK r : r = cfProc[p]
    OBVIOUS
  <1>2. PICK z : z = [r EXCEPT !.picker = FALSE]
    OBVIOUS
  <1>3. /\ cfFile' = cfFile /\ SetOf(p, cfTouched[p]) /\ OffOf(p, cfOff[p]) /\ r.picker
        /\ Config!Becomes(p, z)
    BY <1>1, <1>2 DEF Config!PickerCancelled, OffOf, SetOf
  <1>4. /\ Owned(r, cfTouched[p], cfOff[p]) /\ cfTouched[p] \subseteq Config!Keys
        /\ cfOff[p] \in BOOLEAN
        /\ r \in Config!Process
    BY <1>1, ConfigFine
  <1>5. r.started
    BY <1>1, <1>3, ConfigFine DEF Config!Modal
  <1>6. PICK open \in BOOLEAN : open = FALSE
    OBVIOUS
  <1>7. Owned([r EXCEPT !.picker = open, !.pendingModel = r.pendingModel], cfTouched[p], cfOff[p])
    BY <1>4, <1>5, WithPicker, ProcessHas
  <1>8. z = [r EXCEPT !.picker = open, !.pendingModel = r.pendingModel]
    BY <1>2, <1>4, <1>6 DEF Config!Process
  <1>9. Owned(z, cfTouched[p], cfOff[p])
    BY <1>7, <1>8
  <1> QED BY <1>3, <1>4, <1>9, StepKeeps, FileStays

\* The two references are set.
LEMMA StoredRefs ==
  ASSUME Config!ConfigAssumption, NEW s \in Config!Stored, NEW t \in [Config!Keys -> Values],
         \A k \in Config!Keys \ Config!References : t[k] = s[k]
  PROVE  t \in Config!Stored
  <1>1. \A k \in Config!Switches : t[k] \in BOOLEAN
    BY StoredIs, ConfigKeys DEF Config!Switches, Config!References
  <1> QED BY <1>1, StoredIs

\* What was set is saved or not, and the model that waits may be forgotten.
LEMMA SavesKeeps ==
  ASSUME Config!ConfigAssumption, Config!ConfigInv, cfInst' = cfInst, NEW p \in ConfigProcesses,
         NEW r, NEW T, NEW P,
         NEW a, a = cfOff[p], UNCHANGED cfOff, T \subseteq Config!Keys, SetOf(p, T),
         Owned(r, T, a), r.started,
         NEW m \in Models \cup {None}, NEW after,
         after = [Config!Saved(r, P) EXCEPT !.pendingModel = m] \/ after = Config!Saved(r, P),
         Config!Saves(p, r, P, after) \/ Config!SaveFails(p, r, r)
  PROVE  SettingsStep
  <1>1. cfOff[p] \in BOOLEAN /\ cfFile.keys \in Config!Stored /\ OffOf(p, cfOff[p])
    BY ConfigFine DEF OffOf
  <1>2. r \in Config!Process /\ Config!Changed(r) \subseteq T
    BY DEF Owned, Config!OwnChanges
  <1>3. PICK s : s = Config!Saved(r, P)
    OBVIOUS
  <1>4. Owned(s, T, a) /\ s.started /\ s \in Config!Process
    BY <1>1, <1>2, <1>3, SavedFine, SavedIs, RestSame
  <1>5. CASE Config!Saves(p, r, P, after)
    <2>1. FileStep(T) /\ Config!Becomes(p, after)
      BY <1>2, <1>5, SaveStep
    <2>2. Owned(after, T, a)
      <3>1. Owned([s EXCEPT !.picker = s.picker, !.pendingModel = m], T, a)
        BY <1>4, WithPicker, ProcessHas
      <3>2. after = [s EXCEPT !.picker = s.picker, !.pendingModel = m] \/ after = s
        BY <1>3, <1>4 DEF Config!Process
      <3> QED BY <1>4, <3>1, <3>2
    <2> QED BY <1>1, <2>1, <2>2, StepKeeps
  <1>6. CASE Config!SaveFails(p, r, r)
    <2>1. FileStep(T) /\ Config!Becomes(p, r)
      BY <1>6, SaveFailStep
    <2> QED BY <1>1, <2>1, StepKeeps
  <1> QED BY <1>5, <1>6

LEMMA ModelSelectKeeps ==
  ASSUME Config!ConfigAssumption, Config!ConfigInv, cfInst' = cfInst, NEW p \in ConfigProcesses,
         NEW m \in Models,
         Config!ModelSelect(p, m)
  PROVE  SettingsStep
  <1>1. PICK b : b = cfProc[p]
    OBVIOUS
  <1>2. PICK r : r = [b EXCEPT !.pendingModel = None]
    OBVIOUS
  <1>3. PICK persist : persist = (r.persisted \cap {"advisor"}) \cup {"executor"}
    OBVIOUS
  <1>4. PICK chosen : chosen = [r EXCEPT !.refs.executor = m]
    OBVIOUS
  <1>5. /\ cfOff' = cfOff /\ b.started /\ OffOf(p, cfOff[p])
        /\ \/ Config!Becomes(p, [r EXCEPT !.pendingModel = m]) /\ cfFile' = cfFile
                /\ cfTouched' = cfTouched
           \/ Config!Becomes(p, r) /\ cfFile' = cfFile /\ cfTouched' = cfTouched
           \/ /\ Config!Touches(p, {"executor"})
              /\ \/ Config!Saves(p, chosen, persist, Config!Saved(chosen, persist))
                 \/ Config!SaveFails(p, chosen, chosen)
    BY <1>1, <1>2, <1>3, <1>4 DEF Config!ModelSelect, Config!Command, OffOf
  <1>6. PICK a : a = cfOff[p]
    OBVIOUS
  <1>7. /\ Owned(b, cfTouched[p], a) /\ cfTouched[p] \subseteq Config!Keys /\ cfOff[p] \in BOOLEAN
        /\ b \in Config!Process
    BY <1>1, <1>6, ConfigFine
  <1>8. /\ Owned([b EXCEPT !.picker = b.picker, !.pendingModel = None], cfTouched[p], a)
        /\ Owned([b EXCEPT !.picker = b.picker, !.pendingModel = m], cfTouched[p], a)
    BY <1>5, <1>7, WithPicker, ProcessHas
  <1>9. Owned(r, cfTouched[p], a) /\ r.started /\ r \in Config!Process
    <2>1. r = [b EXCEPT !.picker = b.picker, !.pendingModel = None]
      BY <1>2, <1>7 DEF Config!Process
    <2>2. Owned(r, cfTouched[p], a)
      BY <1>8, <2>1
    <2> QED BY <1>2, <1>5, <1>7, <2>2 DEF Config!Process, Owned
  <1>10. CASE Config!Becomes(p, [r EXCEPT !.pendingModel = m]) /\ cfFile' = cfFile
           /\ cfTouched' = cfTouched
    <2>1. PICK z : z = [r EXCEPT !.pendingModel = m]
      OBVIOUS
    <2>2. z = [b EXCEPT !.picker = b.picker, !.pendingModel = m]
      BY <1>2, <1>7, <2>1 DEF Config!Process
    <2>3. Owned(z, cfTouched[p], cfOff[p]) /\ Config!Becomes(p, z) /\ SetOf(p, cfTouched[p])
      BY <1>6, <1>8, <1>10, <2>1, <2>2 DEF SetOf
    <2> QED BY <1>5, <1>7, <1>10, <2>3, StepKeeps, FileStays
  <1>11. CASE Config!Becomes(p, r) /\ cfFile' = cfFile /\ cfTouched' = cfTouched
    <2>1. SetOf(p, cfTouched[p]) /\ Owned(r, cfTouched[p], cfOff[p])
      BY <1>6, <1>9, <1>11 DEF SetOf
    <2> QED BY <1>5, <1>7, <1>11, <2>1, StepKeeps, FileStays
  <1>12. CASE /\ Config!Touches(p, {"executor"})
              /\ \/ Config!Saves(p, chosen, persist, Config!Saved(chosen, persist))
                 \/ Config!SaveFails(p, chosen, chosen)
    <2>1. PICK T : T = cfTouched[p] \cup {"executor"}
      OBVIOUS
    <2>2. SetOf(p, T) /\ T \subseteq Config!Keys /\ cfTouched[p] \subseteq T
      BY <1>7, <1>12, <2>1, TouchesIs DEF Config!Keys, Config!SavedKeys
    <2>3. Owned(r, T, a) /\ r.refs \in Config!Stored
      BY <1>9, <2>2, FineMore, ProcessHas
    <2>4. PICK s : s = [r.refs EXCEPT !.executor = m]
      OBVIOUS
    <2>5. r.refs \in [Config!Keys -> Values] /\ m \in Values /\ "executor" \in Config!Keys
      BY <2>3, StoredIs DEF Config!ConfigAssumption, Config!Keys, Config!SavedKeys
    <2>6. s \in [Config!Keys -> Values] /\ \A k \in Config!Keys \ {"executor"} : s[k] = r.refs[k]
      BY <2>4, <2>5
    <2>7. s \in Config!Stored /\ \A k \in Config!SavedKeys \ T : s[k] = r.refs[k]
      BY <2>1, <2>3, <2>6, StoredRefs, ConfigKeys DEF Config!References
    <2>8. chosen = [r EXCEPT !.refs = s]
      BY <1>4, <1>9, <2>4 DEF Config!Process
    <2>9. Owned([r EXCEPT !.refs = s], T, a) /\ [r EXCEPT !.refs = s].started
      BY <1>9, <2>3, <2>7, SetRefs, RestSame
    <2>10. Owned(chosen, T, a) /\ chosen.started
      BY <2>8, <2>9
    <2>11. PICK after : after = Config!Saved(chosen, persist)
      OBVIOUS
    <2>12. Config!Saves(p, chosen, persist, after) \/ Config!SaveFails(p, chosen, chosen)
      BY <1>12, <2>11
    <2>13. None \in Models \cup {None}
      OBVIOUS
    <2> QED BY <1>5, <1>6, <2>2, <2>10, <2>11, <2>12, <2>13, SavesKeeps
  <1> QED BY <1>5, <1>10, <1>11, <1>12

LEMMA PickedKeeps ==
  ASSUME Config!ConfigAssumption, Config!ConfigInv, cfInst' = cfInst, NEW p \in ConfigProcesses,
         NEW m \in Models,
         NEW n \in Models, Config!Picked(p, m, n)
  PROVE  SettingsStep
  <1>1. PICK b : b = cfProc[p]
    OBVIOUS
  <1>2. PICK s : s = [[b.refs EXCEPT !.executor = m] EXCEPT !.advisor = n]
    OBVIOUS
  <1>3. PICK r : r = [b EXCEPT !.picker = FALSE, !.refs = s]
    OBVIOUS
  <1>4. PICK T : T = cfTouched[p] \cup Config!References
    OBVIOUS
  <1>5. PICK a : a = cfOff[p]
    OBVIOUS
  <1>6. /\ Owned(b, cfTouched[p], a) /\ cfTouched[p] \subseteq Config!Keys
        /\ b \in Config!Process /\ b.refs \in Config!Stored
    BY <1>1, <1>5, ConfigFine, ProcessHas
  <1>7. [b EXCEPT !.picker = FALSE, !.refs.executor = m, !.refs.advisor = n] = r
    BY <1>2, <1>3, <1>6 DEF Config!Process
  <1>8. PICK after : after = [Config!Saved(r, Config!References) EXCEPT !.pendingModel = None]
    OBVIOUS
  <1>9. /\ cfOff' = cfOff /\ b.picker /\ Config!Touches(p, Config!References)
        /\ Config!Saves(p, r, Config!References, after) \/ Config!SaveFails(p, r, r)
    BY <1>1, <1>7, <1>8 DEF Config!Picked
  <1>10. SetOf(p, T) /\ T \subseteq Config!Keys /\ cfTouched[p] \subseteq T
    BY <1>4, <1>6, <1>9, TouchesIs, ConfigKeys
  <1>11. b.started
    BY <1>1, <1>9, ConfigFine DEF Config!Modal
  <1>12. PICK open \in BOOLEAN : open = FALSE
    OBVIOUS
  <1>13. PICK c : c = [b EXCEPT !.picker = open, !.pendingModel = b.pendingModel]
    OBVIOUS
  <1>14. Owned([b EXCEPT !.picker = open, !.pendingModel = b.pendingModel], T, a)
    BY <1>6, <1>10, <1>11, WithPicker, FineMore, ProcessHas
  <1>15. Owned(c, T, a) /\ c.started /\ c.refs = b.refs
    BY <1>6, <1>11, <1>13, <1>14 DEF Config!Process
  <1>16. b.refs \in [Config!Keys -> Values] /\ m \in Values /\ n \in Values
         /\ "executor" \in Config!Keys /\ "advisor" \in Config!Keys
    BY <1>6, StoredIs DEF Config!ConfigAssumption, Config!Keys, Config!SavedKeys
  <1>17. s \in [Config!Keys -> Values]
           /\ \A k \in Config!Keys \ Config!References : s[k] = b.refs[k]
    BY <1>2, <1>16 DEF Config!References
  <1>18. s \in Config!Stored /\ \A k \in Config!SavedKeys \ T : s[k] = c.refs[k]
    BY <1>4, <1>6, <1>15, <1>17, StoredRefs, ConfigKeys
  <1>19. r = [c EXCEPT !.refs = s]
    BY <1>3, <1>6, <1>12, <1>13 DEF Config!Process
  <1>20. Owned([c EXCEPT !.refs = s], T, a) /\ [c EXCEPT !.refs = s].started
    BY <1>15, <1>18, SetRefs, RestSame
  <1>21. Owned(r, T, a) /\ r.started
    BY <1>19, <1>20
  <1>22. None \in Models \cup {None}
    OBVIOUS
  <1> QED BY <1>5, <1>8, <1>9, <1>10, <1>21, <1>22, SavesKeeps

-----------------------------------------------------------------------------
(* Activations.                                                              *)

\* The step an activation is at.
LEMMA AtStep ==
  ASSUME NEW r, NEW T, NEW disabled, Owned(r, T, disabled), r.started,
         NEW a \in Config!Activation,
         a.previous = a.attempted, a.revision <= r.revision, disabled => a.revision # r.revision
  PROVE  Owned([r EXCEPT !.activation = a], T, disabled)
  BY WithActivation

LEMMA ResolvesFine ==
  ASSUME NEW r, NEW T, NEW disabled, Owned(r, T, disabled), r.started,
         r.activation.previous = r.activation.attempted, r.activation.revision <= r.revision,
         disabled => r.activation.revision # r.revision
  PROVE  Owned(Config!Resolves(r), T, disabled)
  <1>1. r \in Config!Process /\ r.activation \in Config!Activation /\ r.refs \in Config!Stored
    BY ProcessHas DEF Owned
  <1>2. r.refs.executor \in Values /\ r.refs.advisor \in Values
    <2>1. r.refs \in [Config!Keys -> Values] /\ "executor" \in Config!Keys
            /\ "advisor" \in Config!Keys
      BY <1>1, StoredIs DEF Config!Keys, Config!SavedKeys
    <2> QED BY <2>1
  <1>3. PICK a : a = [r.activation EXCEPT !.pc = "auth", !.executor = r.refs.executor,
                                          !.advisor = r.refs.advisor]
    OBVIOUS
  <1>4. /\ a \in Config!Activation /\ a.previous = a.attempted
        /\ a.revision = r.activation.revision
    BY <1>1, <1>2, <1>3 DEF Config!Activation
  <1>5. Config!Resolves(r) = [r EXCEPT !.activation = a]
    BY <1>1, <1>3 DEF Config!Resolves, Config!Process, Config!Activation
  <1> QED BY <1>4, <1>5, AtStep

LEMMA TakesBackFine ==
  ASSUME Config!ConfigAssumption, NEW r, NEW T, NEW disabled, Owned(r, T, disabled), r.started,
         \A k \in Config!ActivationKeys \ T : r.activation.previous[k] = r.refs[k]
  PROVE  Owned(Config!TakesBack(r), T, disabled)
  <1>1. r \in Config!Process /\ r.refs \in Config!Stored
    BY ProcessHas DEF Owned
  <1>2. PICK a \in Config!Stored : a = r.refs
    BY <1>1
  <1>3. PICK x : x = Config!Restored(r, a)
    OBVIOUS
  <1>4. \A k \in Config!ActivationKeys \ T : r.refs[k] = a[k]
          => r.activation.previous[k] = r.refs[k]
    OBVIOUS
  <1>5. Owned(x, T, disabled) /\ Rest(x) = Rest(r)
    BY <1>3, <1>4, RestoredFine
  <1>6. x.started
    BY <1>5 DEF Rest
  <1>7. Owned(Config!Stops(x), T, disabled) /\ Owned(Config!Stops(r), T, disabled)
    BY <1>5, <1>6, StopsFine
  <1> QED BY <1>2, <1>3, <1>7 DEF Config!TakesBack

LEMMA GivesUpFine ==
  ASSUME Config!ConfigAssumption, NEW r, NEW T, NEW disabled, Owned(r, T, disabled), r.started,
         r.activation.pc # "none"
  PROVE  Owned(Config!GivesUp(r), T, disabled)
  <1>1. r \in Config!Process /\ r.activation \in Config!Activation
    BY ProcessHas DEF Owned
  <1>2. PICK a \in Config!Stored : a = r.activation.attempted
    BY <1>1 DEF Config!Activation
  <1>3. r.activation.previous = a
    BY <1>2 DEF Owned, Config!Outdated
  <1>4. PICK x : x = Config!Restored(r, a)
    OBVIOUS
  <1>5. Owned(x, T, disabled) /\ x.started
    BY <1>3, <1>4, RestoredFine, RestSame
  <1>6. Owned(Config!Stops(x), T, disabled)
    BY <1>5, StopsFine
  <1> QED BY <1>2, <1>4, <1>6 DEF Config!GivesUp

\* An activation that begins, when the tools are not disabled.
LEMMA ActivatesFine ==
  ASSUME Config!ConfigAssumption, NEW r0, NEW T, NEW no \in BOOLEAN, ~no, Owned(r0, T, no),
         r0.started,
         NEW announce \in BOOLEAN, NEW executor \in Models \cup {None},
         NEW advisor \in Models \cup {None},
         \/ Config!ActivationKeys \subseteq T
         \/ executor = None /\ advisor = None /\ r0.pendingModel = None
  PROVE  Owned(Config!Activates(r0, announce, executor, advisor), T, no)
  <1>1. /\ r0 \in Config!Process /\ r0.refs \in Config!Stored
        /\ r0.pendingModel \in Models \cup {None}
        /\ r0.revision \in Nat
    BY ProcessHas DEF Owned
  <1> DEFINE pending == executor = None /\ "executor" \in r0.persisted /\ r0.pendingModel # None
  <1>2. pending \in BOOLEAN
    OBVIOUS
  <1>3. PICK args \in BOOLEAN : args = (executor # None \/ advisor # None)
    OBVIOUS
  <1>4. r0.refs \in [Config!Keys -> Values] /\ "executor" \in Config!Keys
          /\ "advisor" \in Config!Keys
    BY <1>1, StoredIs DEF Config!Keys, Config!SavedKeys
  <1>5. PICK m \in Values : m = IF executor # None THEN executor
                                ELSE IF pending THEN r0.pendingModel ELSE r0.refs.executor
    BY <1>1, <1>4 DEF Config!ConfigAssumption
  <1>6. PICK n \in Values : n = IF advisor # None THEN advisor ELSE r0.refs.advisor
    BY <1>1, <1>4 DEF Config!ConfigAssumption
  <1>7. PICK s : s = [[r0.refs EXCEPT !.executor = m] EXCEPT !.advisor = n]
    OBVIOUS
  <1>8. /\ s \in [Config!Keys -> Values] /\ s.executor = m /\ s.advisor = n
        /\ \A k \in Config!Keys \ Config!References : s[k] = r0.refs[k]
    BY <1>4, <1>7 DEF Config!References
  <1>9. s \in Config!Stored
    BY <1>1, <1>8, StoredRefs
  <1>10. \A k \in Config!SavedKeys \ T : s[k] = r0.refs[k]
    BY <1>2, <1>5, <1>6, <1>8, ConfigKeys DEF Config!References, Config!ActivationKeys
  <1>11. PICK is \in BOOLEAN : is = pending
    BY <1>2
  <1> HIDE DEF pending
  <1>12. PICK a : a = [Config!NoActivation EXCEPT !.announce = announce, !.args = args,
                                           !.pending = is, !.previous = r0.refs,
                                           !.attempted = r0.refs, !.revision = r0.revision]
    OBVIOUS
  <1>13. /\ a \in Config!Activation /\ a.pc = "none" /\ a.previous = r0.refs
         /\ a.attempted = r0.refs
         /\ a.revision = r0.revision
    BY <1>1, <1>12, NoneYet DEF Config!Activation
  <1>14. [Config!NoActivation EXCEPT !.announce = announce, !.args = executor # None
           \/ advisor # None,
                              !.pending = pending, !.previous = r0.refs, !.attempted = r0.refs,
                              !.revision = r0.revision] = a
    BY <1>3, <1>11, <1>12
  <1>15. PICK x : x = [r0 EXCEPT !.refs = s]
    OBVIOUS
  <1>16. /\ Owned(x, T, no) /\ x.started /\ x.refs = s /\ x.revision = r0.revision
         /\ x.persisted = r0.persisted
    BY <1>9, <1>10, <1>15, SetRefs, RestSame
  <1>17. PICK y : y = [x EXCEPT !.activation = a]
    OBVIOUS
  <1>18. x \in Config!Process
    BY <1>16 DEF Owned
  <1>19. /\ Owned(y, T, no) /\ y.started /\ y.refs = s /\ y.activation = a
         /\ y.revision = r0.revision /\ y.persisted = r0.persisted
    <2>1. a.pc = "none"
      BY <1>13
    <2>2. Owned([x EXCEPT !.activation = a], T, no)
      BY <1>13, <1>16, <2>1, WithActivation
    <2>3. Owned(y, T, no)
      BY <1>17, <2>2
    <2> QED BY <1>16, <1>17, <1>18, <2>3 DEF Config!Process
  <1>20. a.previous = a.attempted /\ a.previous = r0.refs /\ a.revision = r0.revision
    BY <1>13
  <1> DEFINE parsed ==
        [r0 EXCEPT !.refs.executor = IF executor # None THEN executor
                                     ELSE IF pending THEN r0.pendingModel ELSE @,
                   !.refs.advisor = IF advisor # None THEN advisor ELSE @,
                   !.activation = [Config!NoActivation EXCEPT
                     !.announce = announce, !.args = executor # None \/ advisor # None,
                     !.pending = pending, !.previous = r0.refs, !.attempted = r0.refs,
                     !.revision = r0.revision]]
  <1>21. parsed = y
    <2>1. parsed = [r0 EXCEPT !.refs = s, !.activation = a]
      BY <1>1, <1>4, <1>5, <1>6, <1>7, <1>14 DEF Config!Process
    <2> QED BY <1>1, <1>15, <1>17, <2>1 DEF Config!Process
  <1>22. Config!Activates(r0, announce, executor, advisor)
           = IF advisor # None \/ "advisor" \in r0.persisted THEN Config!Resolves(parsed)
             ELSE IF announce THEN [parsed EXCEPT !.activation.pc = "pick"]
             ELSE Config!TakesBack(parsed)
    BY DEF Config!Activates, pending
  <1>23. Owned(Config!Resolves(y), T, no)
    <2>1. /\ y.activation.previous = y.activation.attempted
          /\ y.activation.revision <= y.revision /\ (no => y.activation.revision # y.revision)
      BY <1>1, <1>19, <1>20
    <2> QED BY <1>19, <2>1, ResolvesFine
  <1>24. Owned(Config!TakesBack(y), T, no)
    <2>1. \A k \in Config!ActivationKeys \ T : y.activation.previous[k] = y.refs[k]
      BY <1>10, <1>19, <1>20, ConfigKeys
    <2> QED BY <1>19, <2>1, TakesBackFine
  <1>25. Owned([y EXCEPT !.activation.pc = "pick"], T, no)
    <2>1. PICK b : b = [a EXCEPT !.pc = "pick"]
      OBVIOUS
    <2>2. b \in Config!Activation /\ b.previous = b.attempted /\ b.revision = r0.revision
      BY <1>13, <1>20, <2>1 DEF Config!Activation
    <2>3. Owned([y EXCEPT !.activation = b], T, no)
      BY <1>1, <1>19, <2>2, AtStep
    <2>4. [y EXCEPT !.activation.pc = "pick"] = [y EXCEPT !.activation = b]
      BY <1>19, <2>1
    <2> QED BY <2>3, <2>4
  <1> HIDE DEF parsed
  <1> QED BY <1>21, <1>22, <1>23, <1>24, <1>25

LEMMA ActivateKeeps ==
  ASSUME Config!ConfigAssumption, Config!ConfigInv, cfInst' = cfInst, NEW p \in ConfigProcesses,
         NEW m \in Models \cup {None}, NEW n \in Models \cup {None}, Config!Activate(p, m, n)
  PROVE  SettingsStep
  <1>1. PICK q : q = Config!Loaded(cfProc[p])
    OBVIOUS
  <1>2. PICK T : T = Anew \cup Config!ActivationKeys
    OBVIOUS
  <1>3. PICK no \in BOOLEAN : no = FALSE
    OBVIOUS
  <1>4. PICK yes \in BOOLEAN : yes = TRUE
    OBVIOUS
  <1>5. PICK z : z = IF Config!Loads THEN Config!Activates(q, yes, m, n) ELSE q
    OBVIOUS
  <1>6. /\ cfFile' = cfFile /\ SetOf(p, T) /\ OffOf(p, no) /\ cfProc[p].started
        /\ Config!Becomes(p, z)
    <2>1. Config!Becomes(p, IF Config!Loads THEN Config!Activates(q, TRUE, m, n) ELSE q)
      BY <1>1 DEF Config!Activate
    <2>2. /\ cfFile' = cfFile /\ Config!AfterLoad(p, Config!ActivationKeys)
          /\ cfOff' = [cfOff EXCEPT ![p] = FALSE]
          /\ cfProc[p].started
      BY DEF Config!Activate, Config!Command
    <2>3. cfOff' = [cfOff EXCEPT ![p] = no]
      BY <1>3, <2>2
    <2> QED BY <1>2, <1>4, <1>5, <2>1, <2>2, <2>3, AfterLoadIs DEF OffOf
  <1>7. /\ Owned(q, T, cfOff[p]) /\ q.started /\ T \subseteq Config!Keys
    BY <1>1, <1>2, <1>6, LoadedNow, ConfigKeys
  <1>8. Owned(q, T, no)
    BY <1>3, <1>7, FineLess
  <1>9. Owned(Config!Activates(q, yes, m, n), T, no)
    BY <1>2, <1>3, <1>7, <1>8, ActivatesFine
  <1>10. Owned(z, T, no)
    BY <1>5, <1>8, <1>9
  <1> QED BY <1>6, <1>7, <1>10, StepKeeps, FileStays

LEMMA SessionStartKeeps ==
  ASSUME Config!ConfigAssumption, Config!ConfigInv, cfInst' = cfInst, NEW p \in ConfigProcesses,
         Config!SessionStart(p)
  PROVE  SettingsStep
  <1>1. PICK q : q = Config!Loaded(cfProc[p])
    OBVIOUS
  <1>2. PICK T : T = Anew \cup {}
    OBVIOUS
  <1>3. PICK no \in BOOLEAN : no = FALSE
    OBVIOUS
  <1>4. PICK yes \in BOOLEAN : yes = TRUE
    OBVIOUS
  <1>5. PICK r : r = [q EXCEPT !.started = yes, !.pendingModel = None]
    OBVIOUS
  <1>6. PICK quiet : quiet = [r EXCEPT !.active = no]
    OBVIOUS
  <1>7. PICK z : z = IF ~Config!Loads \/ ~r.refs.tools THEN quiet
                     ELSE IF r.refs.alwaysOn THEN Config!Activates(quiet, no, None, None) ELSE r
    OBVIOUS
  <1>8. [Config!Loaded(cfProc[p]) EXCEPT !.started = TRUE, !.pendingModel = None] = r
    BY <1>1, <1>4, <1>5
  <1>9. [r EXCEPT !.active = FALSE] = quiet
    BY <1>3, <1>6
  <1>10. /\ cfFile' = cfFile /\ SetOf(p, T) /\ cfOff' = cfOff /\ ~cfProc[p].started
         /\ Config!Becomes(p, z)
    <2>1. Config!Becomes(p, IF ~Config!Loads \/ ~r.refs.tools THEN [r EXCEPT !.active = FALSE]
                     ELSE IF r.refs.alwaysOn
                          THEN Config!Activates([r EXCEPT !.active = FALSE], FALSE, None, None)
                            ELSE r)
      BY <1>8 DEF Config!SessionStart
    <2>2. Config!Becomes(p, z)
      BY <1>3, <1>7, <1>9, <2>1
    <2> QED BY <1>2, <2>2, AfterLoadIs DEF Config!SessionStart
  <1>11. /\ ~Config!Modal(cfProc[p]) /\ cfProc[p].activation.pc = "none" /\ ~cfOff[p]
    BY <1>10, ConfigFine
  <1>12. OffOf(p, no)
    BY <1>3, <1>10, <1>11, ConfigFine DEF OffOf
  <1>13. /\ Owned(q, T, cfOff[p]) /\ q \in Config!Process /\ T \subseteq Config!Keys
         /\ Rest(q) = Rest(cfProc[p])
         /\ Config!Loads => q.refs = q.baseline
    BY <1>1, <1>2, LoadedNow
  <1>14. Config!Changed(q) \subseteq T
    <2>1. CASE Config!Loads
      <3>1. q.refs \in Config!Stored /\ q.refs # None
        BY <1>13, ProcessHas DEF Config!ConfigAssumption
      <3> QED BY <1>13, <2>1, <3>1 DEF Config!Changed
    <2>2. CASE ~Config!Loads
      BY <1>2, <2>2, ConfigKeys DEF Config!Changed, Anew
    <2> QED BY <2>1, <2>2
  <1>15. /\ r \in Config!Process /\ r.started /\ r.refs = q.refs /\ r.baseline = q.baseline
         /\ r.dialog = q.dialog /\ r.activation = q.activation /\ r.active = q.active
         /\ r.stale = q.stale /\ r.pendingModel = None
    BY <1>4, <1>5, <1>13 DEF Config!Process
  <1>16. q.dialog = None /\ q.activation.pc = "none"
    BY <1>11, <1>13 DEF Rest, Config!Modal
  <1>17. Owned(r, T, no)
    <2>1. Config!OwnChanges(r, T)
      BY <1>14, <1>15, <1>16 DEF Config!OwnChanges, Config!Changed
    <2>2. Config!Outdated(r, no) /\ Config!Begun(r, no)
      BY <1>3, <1>15, <1>16 DEF Config!Outdated, Config!Begun
    <2> QED BY <1>15, <2>1, <2>2 DEF Owned
  <1>18. Owned(quiet, T, no)
    <2>1. Owned([r EXCEPT !.revision = IF no THEN @ + 1 ELSE @, !.active = no], T, no)
      <3>1. no => ~no /\ (no \/ no)
        BY <1>3
      <3> QED BY <1>15, <1>17, <3>1, Switched
    <2>2. quiet = [r EXCEPT !.revision = IF no THEN @ + 1 ELSE @, !.active = no]
      BY <1>3, <1>6, <1>15 DEF Config!Process
    <2> QED BY <2>1, <2>2
  <1>19. quiet.started /\ quiet.pendingModel = None
    BY <1>6, <1>15 DEF Config!Process
  <1>20. Owned(Config!Activates(quiet, no, None, None), T, no)
    BY <1>3, <1>18, <1>19, ActivatesFine
  <1>21. Owned(z, T, no)
    BY <1>7, <1>17, <1>18, <1>20
  <1> QED BY <1>10, <1>12, <1>13, <1>21, StepKeeps, FileStays

LEMMA ActivationPickedKeeps ==
  ASSUME Config!ConfigAssumption, Config!ConfigInv, cfInst' = cfInst, NEW p \in ConfigProcesses,
         NEW n \in Models \cup {None}, Config!ActivationPicked(p, n)
  PROVE  SettingsStep
  <1>1. PICK r : r = cfProc[p]
    OBVIOUS
  <1>2. PICK T : T = cfTouched[p] \cup Config!ActivationKeys
    OBVIOUS
  <1>3. PICK a : a = cfOff[p]
    OBVIOUS
  <1>4. PICK yes \in BOOLEAN : yes = TRUE
    OBVIOUS
  <1>5. PICK chosen : chosen = [r EXCEPT !.refs.advisor = n, !.activation.picked = yes]
    OBVIOUS
  <1>6. PICK z : z = IF n = None THEN Config!TakesBack(r)
                     ELSE IF Config!CanContinue(r) THEN Config!Resolves(chosen)
                       ELSE Config!Stops(chosen)
    OBVIOUS
  <1>7. /\ r.activation.pc = "pick" /\ cfFile' = cfFile /\ OffOf(p, cfOff[p])
        /\ Config!Becomes(p, z)
        /\ Config!Touches(p, Config!ActivationKeys)
    BY <1>1, <1>4, <1>5, <1>6 DEF Config!ActivationPicked, OffOf
  <1>8. /\ Owned(r, cfTouched[p], a) /\ cfTouched[p] \subseteq Config!Keys /\ cfOff[p] \in BOOLEAN
        /\ r \in Config!Process /\ r.started /\ r.refs \in Config!Stored
        /\ r.activation \in Config!Activation
    BY <1>1, <1>3, <1>7, ConfigFine, ProcessHas
  <1>9. SetOf(p, T) /\ T \subseteq Config!Keys /\ cfTouched[p] \subseteq T
    BY <1>2, <1>7, <1>8, TouchesIs, ConfigKeys
  <1>10. Owned(r, T, a)
    BY <1>8, <1>9, FineMore
  <1>11. Owned(Config!TakesBack(r), T, a)
    BY <1>2, <1>8, <1>10, TakesBackFine
  <1>12. PICK s : s = [r.refs EXCEPT !.advisor = n]
    OBVIOUS
  <1>13. r.refs \in [Config!Keys -> Values] /\ n \in Values /\ "advisor" \in Config!Keys
    BY <1>8, StoredIs DEF Config!ConfigAssumption, Config!Keys, Config!SavedKeys
  <1>14. s \in [Config!Keys -> Values] /\ \A k \in Config!Keys \ {"advisor"} : s[k] = r.refs[k]
    BY <1>12, <1>13
  <1>15. s \in Config!Stored /\ \A k \in Config!SavedKeys \ T : s[k] = r.refs[k]
    BY <1>2, <1>8, <1>14, StoredRefs, ConfigKeys DEF Config!References, Config!ActivationKeys
  <1>16. PICK x : x = [r EXCEPT !.refs = s]
    OBVIOUS
  <1>17. /\ Owned(x, T, a) /\ x.started /\ x.activation = r.activation /\ x.revision = r.revision
    BY <1>8, <1>10, <1>15, <1>16, SetRefs, RestSame
  <1>18. PICK b : b = [r.activation EXCEPT !.picked = yes]
    OBVIOUS
  <1>19. /\ b \in Config!Activation /\ b.previous = r.activation.previous
         /\ b.attempted = r.activation.attempted /\ b.revision = r.activation.revision
    BY <1>8, <1>18 DEF Config!Activation
  <1>20. /\ r.activation.previous = r.activation.attempted
         /\ r.activation.revision <= r.revision /\ (a => r.activation.revision # r.revision)
    BY <1>7, <1>8 DEF Owned, Config!Outdated
  <1>21. chosen = [x EXCEPT !.activation = b]
    BY <1>5, <1>8, <1>12, <1>16, <1>18 DEF Config!Process
  <1>22. Owned([x EXCEPT !.activation = b], T, a)
    BY <1>17, <1>19, <1>20, AtStep
  <1>23. x \in Config!Process
    BY <1>17 DEF Owned
  <1>24. /\ Owned(chosen, T, a) /\ chosen.started /\ chosen.activation = b
         /\ chosen.revision = r.revision
    <2>1. Owned(chosen, T, a)
      BY <1>21, <1>22
    <2> QED BY <1>17, <1>21, <1>23, <2>1 DEF Config!Process
  <1>25. Owned(Config!Stops(chosen), T, a)
    BY <1>24, StopsFine
  <1>26. Owned(Config!Resolves(chosen), T, a)
    BY <1>19, <1>20, <1>24, ResolvesFine
  <1>27. Owned(z, T, cfOff[p])
    BY <1>3, <1>6, <1>11, <1>25, <1>26
  <1> QED BY <1>7, <1>8, <1>9, <1>27, StepKeeps, FileStays

LEMMA AuthorisedKeeps ==
  ASSUME Config!ConfigAssumption, Config!ConfigInv, cfInst' = cfInst, NEW p \in ConfigProcesses,
         NEW found \in BOOLEAN,
         Config!Authorised(p, found)
  PROVE  SettingsStep
  <1>1. PICK r : r = cfProc[p]
    OBVIOUS
  <1>2. PICK a : a = cfOff[p]
    OBVIOUS
  <1>3. PICK on : on = [r EXCEPT !.activation.pc = "executor"]
    OBVIOUS
  <1>4. PICK z : z = IF ~Config!CanContinue(r) THEN Config!Stops(r) ELSE IF ~found
               THEN Config!GivesUp(r) ELSE on
    OBVIOUS
  <1>5. /\ r.activation.pc = "auth" /\ cfFile' = cfFile /\ OffOf(p, cfOff[p])
        /\ Config!Becomes(p, z)
        /\ SetOf(p, cfTouched[p])
    BY <1>1, <1>3, <1>4 DEF Config!Authorised, OffOf, SetOf
  <1>6. /\ Owned(r, cfTouched[p], a) /\ cfTouched[p] \subseteq Config!Keys /\ cfOff[p] \in BOOLEAN
        /\ r \in Config!Process /\ r.started /\ r.activation \in Config!Activation
    BY <1>1, <1>2, <1>5, ConfigFine, ProcessHas
  <1>7. Owned(Config!Stops(r), cfTouched[p], a) /\ Owned(Config!GivesUp(r), cfTouched[p], a)
    BY <1>5, <1>6, StopsFine, GivesUpFine
  <1>8. PICK b : b = [r.activation EXCEPT !.pc = "executor"]
    OBVIOUS
  <1>9. /\ b \in Config!Activation /\ b.previous = r.activation.previous
        /\ b.attempted = r.activation.attempted /\ b.revision = r.activation.revision
    BY <1>6, <1>8 DEF Config!Activation
  <1>10. /\ r.activation.previous = r.activation.attempted
         /\ r.activation.revision <= r.revision /\ (a => r.activation.revision # r.revision)
    BY <1>5, <1>6 DEF Owned, Config!Outdated
  <1>11. on = [r EXCEPT !.activation = b]
    BY <1>3, <1>6, <1>8 DEF Config!Process
  <1>12. Owned([r EXCEPT !.activation = b], cfTouched[p], a)
    BY <1>6, <1>9, <1>10, AtStep
  <1>13. Owned(z, cfTouched[p], cfOff[p])
    BY <1>2, <1>4, <1>7, <1>11, <1>12
  <1> QED BY <1>5, <1>6, <1>13, StepKeeps, FileStays

LEMMA ExecutorRefusedKeeps ==
  ASSUME Config!ConfigAssumption, Config!ConfigInv, cfInst' = cfInst, NEW p \in ConfigProcesses,
         Config!ExecutorRefused(p)
  PROVE  SettingsStep
  <1>1. PICK r : r = cfProc[p]
    OBVIOUS
  <1>2. PICK a : a = cfOff[p]
    OBVIOUS
  <1>3. PICK z : z = IF Config!CanContinue(r) THEN Config!GivesUp(r) ELSE Config!Stops(r)
    OBVIOUS
  <1>4. /\ r.activation.pc = "executor" /\ cfFile' = cfFile /\ OffOf(p, cfOff[p])
        /\ Config!Becomes(p, z)
        /\ SetOf(p, cfTouched[p])
    BY <1>1, <1>3 DEF Config!ExecutorRefused, OffOf, SetOf
  <1>5. /\ Owned(r, cfTouched[p], a) /\ cfTouched[p] \subseteq Config!Keys
        /\ cfOff[p] \in BOOLEAN /\ r.started
    BY <1>1, <1>2, <1>4, ConfigFine
  <1>6. Owned(Config!Stops(r), cfTouched[p], a) /\ Owned(Config!GivesUp(r), cfTouched[p], a)
    BY <1>4, <1>5, StopsFine, GivesUpFine
  <1>7. Owned(z, cfTouched[p], cfOff[p])
    BY <1>2, <1>3, <1>6
  <1> QED BY <1>4, <1>5, <1>7, StepKeeps, FileStays

\* An activation that has ended: the tools are on.
LEMMA FinishedFine ==
  ASSUME Config!ConfigAssumption, NEW r, NEW T, NEW no \in BOOLEAN, ~no, Owned(r, T, no),
         r.started
  PROVE  Owned([Config!Stops(r) EXCEPT !.pendingModel = None, !.active = TRUE], T, no)
  <1>1. PICK x : x = Config!Stops(r)
    OBVIOUS
  <1>2. Owned(x, T, no) /\ x.started
    BY <1>1, StopsFine
  <1>3. PICK m \in Models \cup {None} : m = None
    OBVIOUS
  <1>4. PICK y : y = [x EXCEPT !.picker = x.picker, !.pendingModel = m]
    OBVIOUS
  <1>5. x \in Config!Process
    BY <1>2 DEF Owned
  <1>6. Owned([x EXCEPT !.picker = x.picker, !.pendingModel = m], T, no)
    BY <1>2, <1>5, WithPicker, ProcessHas
  <1>7. Owned(y, T, no) /\ y.started
    BY <1>2, <1>4, <1>5, <1>6 DEF Config!Process
  <1>8. PICK yes \in BOOLEAN : yes = TRUE
    OBVIOUS
  <1>9. no => ~yes /\ (no \/ no)
    OBVIOUS
  <1>10. Owned([y EXCEPT !.revision = IF no THEN @ + 1 ELSE @, !.active = yes], T, no)
    BY <1>7, <1>9, Switched
  <1>11. PICK z : z = [x EXCEPT !.pendingModel = None, !.active = TRUE]
    OBVIOUS
  <1>12. y \in Config!Process
    BY <1>7 DEF Owned
  <1>13. z = [y EXCEPT !.revision = IF no THEN @ + 1 ELSE @, !.active = yes]
    BY <1>3, <1>4, <1>5, <1>8, <1>11 DEF Config!Process
  <1>14. Owned(z, T, no)
    BY <1>10, <1>13
  <1> QED BY <1>1, <1>11, <1>14

\* What an activation leaves when its save fails.
LEMMA UnsavedFine ==
  ASSUME Config!ConfigAssumption, NEW on, NEW T, NEW no, Owned(on, T, no), on.started,
         Config!ActivationKeys \cup {"tools"} \subseteq T
  PROVE  Owned([Config!Stops(Config!Restored(on, on.refs)) EXCEPT !.refs.tools = FALSE], T, no)
  <1>1. on \in Config!Process /\ on.refs \in Config!Stored
    BY ProcessHas DEF Owned
  <1>2. PICK a \in Config!Stored : a = on.refs
    BY <1>1
  <1>3. PICK x : x = Config!Restored(on, a)
    OBVIOUS
  <1>4. Owned(x, T, no) /\ x.started
    <2>1. \A k \in Config!ActivationKeys \ T : on.refs[k] = a[k]
            => on.activation.previous[k] = on.refs[k]
      OBVIOUS
    <2>2. Owned(x, T, no) /\ Rest(x) = Rest(on)
      BY <1>3, <2>1, RestoredFine
    <2> QED BY <2>2 DEF Rest
  <1>5. PICK y : y = Config!Stops(x)
    OBVIOUS
  <1>6. Owned(y, T, no) /\ y.started /\ y \in Config!Process /\ y.refs \in Config!Stored
    BY <1>4, <1>5, StopsFine, ProcessHas DEF Owned
  <1>7. PICK off0 \in BOOLEAN : off0 = FALSE
    OBVIOUS
  <1>8. PICK s : s = [y.refs EXCEPT !.tools = off0]
    OBVIOUS
  <1>9. y.refs \in [Config!Keys -> Values] /\ off0 \in Values /\ "tools" \in Config!Keys
          /\ "alwaysOn" \in Config!Keys
        /\ y.refs.alwaysOn \in BOOLEAN
    BY <1>6, StoredIs DEF Config!Keys, Config!SavedKeys, Config!Switches, Config!ConfigAssumption
  <1>10. /\ s \in [Config!Keys -> Values] /\ s.tools = off0 /\ s.alwaysOn = y.refs.alwaysOn
         /\ \A k \in Config!Keys \ {"tools"} : s[k] = y.refs[k]
    BY <1>8, <1>9
  <1>11. s \in Config!Stored /\ \A k \in Config!SavedKeys \ T : s[k] = y.refs[k]
    BY <1>6, <1>9, <1>10, StoredOff, ConfigKeys
  <1>12. Owned([y EXCEPT !.refs = s], T, no)
    BY <1>6, <1>11, SetRefs
  <1>13. PICK z : z = [y EXCEPT !.refs.tools = FALSE]
    OBVIOUS
  <1>14. z = [y EXCEPT !.refs = s]
    BY <1>6, <1>7, <1>8, <1>13 DEF Config!Process
  <1>15. Owned(z, T, no)
    BY <1>12, <1>14
  <1> QED BY <1>2, <1>3, <1>5, <1>13, <1>15

LEMMA ActivatedKeeps ==
  ASSUME Config!ConfigAssumption, Config!ConfigInv, cfInst' = cfInst, NEW p \in ConfigProcesses,
         Config!Activated(p)
  PROVE  SettingsStep
  <1>1. PICK r : r = cfProc[p]
    OBVIOUS
  <1>2. PICK T : T = cfTouched[p] \cup (Config!ActivationKeys \cup {"tools"})
    OBVIOUS
  <1>3. PICK a \in BOOLEAN : a = cfOff[p]
    BY ConfigFine
  <1>4. PICK on : on = [r EXCEPT !.refs.tools = TRUE]
    OBVIOUS
  <1>5. PICK saved : saved = Config!Saved(on, Config!References)
    OBVIOUS
  <1>6. PICK finished : finished
               = [Config!Stops(on) EXCEPT !.pendingModel = None, !.active = TRUE]
    OBVIOUS
  <1>7. PICK kept : kept = [Config!Stops(saved) EXCEPT !.pendingModel = None, !.active = TRUE]
    OBVIOUS
  <1>8. PICK unsaved : unsaved = IF ~r.refs.tools
                                 THEN [Config!Stops(Config!Restored(on, on.refs))
                                   EXCEPT !.refs.tools = FALSE]
                                 ELSE Config!Stops(on)
    OBVIOUS
  <1>9. r.activation.pc = "executor" /\ cfOff' = cfOff
          /\ Config!Touches(p, Config!ActivationKeys \cup {"tools"})
    BY <1>1 DEF Config!Activated
  <1>10. \/ ~Config!CanContinue(r) /\ Config!Becomes(p, Config!Stops(r)) /\ cfFile' = cfFile
         \/ Config!CanContinue(r) /\ Config!Becomes(p, finished) /\ cfFile' = cfFile
         \/ Config!CanContinue(r) /\ Config!Saves(p, on, Config!References, kept)
         \/ Config!CanContinue(r) /\ Config!SaveFails(p, on, unsaved)
    BY <1>1, <1>4, <1>5, <1>6, <1>7, <1>8 DEF Config!Activated
  <1>11. /\ Owned(r, cfTouched[p], a) /\ cfTouched[p] \subseteq Config!Keys
         /\ r \in Config!Process /\ r.started
         /\ r.refs \in Config!Stored /\ cfFile.keys \in Config!Stored /\ OffOf(p, a)
    BY <1>1, <1>3, <1>9, ConfigFine, ProcessHas DEF OffOf
  <1>12. SetOf(p, T) /\ T \subseteq Config!Keys /\ cfTouched[p] \subseteq T
    BY <1>2, <1>9, <1>11, TouchesIs, ConfigKeys DEF Config!Keys, Config!SavedKeys
  <1>13. Owned(r, T, a)
    BY <1>11, <1>12, FineMore
  <1>14. Owned(on, T, a) /\ on.started
    <2>1. PICK yes \in BOOLEAN : yes = TRUE
      OBVIOUS
    <2>2. PICK s : s = [r.refs EXCEPT !.tools = yes]
      OBVIOUS
    <2>3. r.refs \in [Config!Keys -> Values] /\ yes \in Values /\ "tools" \in Config!Keys
            /\ "alwaysOn" \in Config!Keys
          /\ r.refs.alwaysOn \in BOOLEAN
      BY <1>11, StoredIs
         DEF Config!Keys, Config!SavedKeys, Config!Switches, Config!ConfigAssumption
    <2>4. /\ s \in [Config!Keys -> Values] /\ s.tools = yes /\ s.alwaysOn = r.refs.alwaysOn
          /\ \A k \in Config!Keys \ {"tools"} : s[k] = r.refs[k]
      BY <2>2, <2>3
    <2>5. s \in Config!Stored /\ \A k \in Config!SavedKeys \ T : s[k] = r.refs[k]
      BY <1>2, <1>11, <2>3, <2>4, StoredOff, ConfigKeys
    <2>6. Owned([r EXCEPT !.refs = s], T, a) /\ [r EXCEPT !.refs = s].started
      BY <1>11, <1>13, <2>5, SetRefs, RestSame
    <2>7. on = [r EXCEPT !.refs = s]
      BY <1>4, <1>11, <2>1, <2>2 DEF Config!Process
    <2> QED BY <2>6, <2>7
  <1>15. on \in Config!Process /\ Config!Changed(on) \subseteq T
    BY <1>14 DEF Owned, Config!OwnChanges
  <1>16. Owned(saved, T, a) /\ saved.started
    BY <1>5, <1>11, <1>14, <1>15, SavedFine, SavedIs, RestSame
  <1>17. Config!CanContinue(r) => ~a
    BY <1>9, <1>11 DEF Config!CanContinue, Owned, Config!Outdated
  <1>18. CASE ~Config!CanContinue(r) /\ Config!Becomes(p, Config!Stops(r)) /\ cfFile' = cfFile
    <2>1. Owned(Config!Stops(r), T, a)
      BY <1>11, <1>13, StopsFine
    <2>2. PICK z : z = Config!Stops(r)
      OBVIOUS
    <2>3. Owned(z, T, a) /\ Config!Becomes(p, z)
      BY <1>18, <2>1, <2>2
    <2> QED BY <1>11, <1>12, <1>18, <2>3, StepKeeps, FileStays
  <1>19. CASE Config!CanContinue(r) /\ Config!Becomes(p, finished) /\ cfFile' = cfFile
    <2>1. Owned(finished, T, a)
      BY <1>6, <1>14, <1>17, <1>19, FinishedFine
    <2> QED BY <1>11, <1>12, <1>19, <2>1, StepKeeps, FileStays
  <1>20. CASE Config!CanContinue(r) /\ Config!Saves(p, on, Config!References, kept)
    <2>1. Owned(kept, T, a)
      BY <1>7, <1>16, <1>17, <1>20, FinishedFine
    <2>2. FileStep(T) /\ Config!Becomes(p, kept)
      BY <1>15, <1>20, SaveStep
    <2> QED BY <1>11, <1>12, <2>1, <2>2, StepKeeps
  <1>21. CASE Config!CanContinue(r) /\ Config!SaveFails(p, on, unsaved)
    <2>1. Owned([Config!Stops(Config!Restored(on, on.refs)) EXCEPT !.refs.tools = FALSE], T, a)
      BY <1>2, <1>14, UnsavedFine
    <2>2. Owned(Config!Stops(on), T, a)
      BY <1>14, StopsFine
    <2>3. Owned(unsaved, T, a)
      BY <1>8, <2>1, <2>2
    <2>4. FileStep(T) /\ Config!Becomes(p, unsaved)
      BY <1>21, SaveFailStep
    <2> QED BY <1>11, <1>12, <2>3, <2>4, StepKeeps
  <1> QED BY <1>10, <1>18, <1>19, <1>20, <1>21

-----------------------------------------------------------------------------
(* The file, and the theorem.                                                *)

LEMMA FileKeeps ==
  ASSUME Config!ConfigAssumption, Config!ConfigInv, cfInst' = cfInst,
         (\E e \in cfInst.edits : Config!EditByHand(e)) \/ Config!BreakFile \/ Config!FixFile
  PROVE  SettingsStep
  <1>1. cfProc' = cfProc /\ cfTouched' = cfTouched /\ cfOff' = cfOff
    BY DEF Config!EditByHand, Config!BreakFile, Config!FixFile
  <1>2. cfFile \in [keys : Config!Stored, malformed : BOOLEAN] /\ cfInst \in ConfigInstances
    BY DEF Config!ConfigInv, Config!ConfigTypeOK
  <1>3. cfFile' \in [keys : Config!Stored, malformed : BOOLEAN]
    <2>1. ASSUME NEW e \in cfInst.edits, Config!EditByHand(e)
          PROVE  cfFile' \in [keys : Config!Stored, malformed : BOOLEAN]
      <3>1. e \in Config!Setting
        BY <1>2 DEF Config!ConfigAssumption
      <3>2. e.key \in Config!Keys /\ e.value \in Values
              /\ (e.key \in Config!Switches => e.value \in BOOLEAN)
        BY <3>1 DEF Config!Setting
      <3>3. PICK s : s = [cfFile.keys EXCEPT ![e.key] = e.value]
        OBVIOUS
      <3>4. [cfFile.keys EXCEPT ![e.key] = e.value] \in Config!Stored
        BY <1>2, <3>2, StoredWith
      <3>5. cfFile' = [cfFile EXCEPT !.keys = s]
        BY <1>2, <2>1, <3>3 DEF Config!EditByHand
      <3> QED BY <1>2, <3>3, <3>4, <3>5
    <2>2. CASE Config!BreakFile
      <3>1. PICK yes \in BOOLEAN : yes = TRUE
        OBVIOUS
      <3>2. cfFile' = [cfFile EXCEPT !.malformed = yes]
        BY <2>2, <3>1 DEF Config!BreakFile
      <3> QED BY <1>2, <3>2
    <2>3. CASE Config!FixFile
      <3>1. PICK no \in BOOLEAN : no = FALSE
        OBVIOUS
      <3>2. cfFile' = [cfFile EXCEPT !.malformed = no]
        BY <2>3, <3>1 DEF Config!FixFile
      <3> QED BY <1>2, <3>2
    <2> QED BY <2>1, <2>2, <2>3
  <1>4. Config!ConfigInv'
    BY <1>1, <1>2, <1>3
       DEF Config!ConfigInv, Config!ConfigTypeOK, Config!OwnChanges, Config!Outdated,
           Config!Begun, Config!Modal, Config!Changed
  <1>5. Config!SavesOwn
    BY <1>1 DEF Config!SavesOwn
  <1>6. Config!OffStays'
    BY <1>4 DEF Config!ConfigInv, Config!OffStays, Config!Outdated
  <1> QED BY <1>4, <1>5, <1>6 DEF SettingsStep

LEMMA ConfigStarts ==
  ASSUME Config!ConfigAssumption, Config!ConfigInit
  PROVE  Config!ConfigInv
  <1>1. PICK d \in Config!Stored : d = Config!Defaults
    BY DefaultsStored
  <1>2. PICK zero \in Nat : zero = 0
    OBVIOUS
  <1>3. PICK no \in BOOLEAN : no = FALSE
    OBVIOUS
  <1>4. PICK yes \in BOOLEAN : yes = TRUE
    OBVIOUS
  <1>5. PICK act \in Config!Activation : act = Config!NoActivation /\ act.pc = "none"
    BY NoneYet
  <1>6. PICK fresh : fresh = Config!Fresh
    OBVIOUS
  <1>7. PICK nothing \in SUBSET Config!References : nothing = {}
    OBVIOUS
  <1>8. fresh = [started |-> no, refs |-> d, baseline |-> None, persisted |-> nothing,
            dialog |-> None,
                 stale |-> no, picker |-> no, activation |-> act, revision |-> zero,
                 pendingModel |-> None, active |-> yes]
    BY <1>1, <1>2, <1>3, <1>4, <1>5, <1>6, <1>7 DEF Config!Fresh
  <1>9. /\ fresh \in Config!Process /\ ~fresh.started /\ fresh.dialog = None /\ ~fresh.picker
        /\ fresh.activation = act
    BY <1>3, <1>8 DEF Config!Process
  <1>10. Owned(fresh, {}, no)
    BY <1>3, <1>5, <1>9 DEF Owned, Config!OwnChanges, Config!Outdated, Config!Begun, Config!Modal
  <1>11. /\ cfProc = [p \in ConfigProcesses |-> fresh]
         /\ cfTouched = [p \in ConfigProcesses |-> {}]
         /\ cfOff = [p \in ConfigProcesses |-> no]
    BY <1>3, <1>6 DEF Config!ConfigInit
  <1>12. cfInst \in ConfigInstances /\ cfFile \in [keys : Config!Stored, malformed : BOOLEAN]
    <2>1. cfInst \in ConfigInstances /\ cfFile = [keys |-> cfInst.file, malformed |-> no]
      BY <1>3 DEF Config!ConfigInit
    <2> QED BY <2>1 DEF Config!ConfigAssumption
  <1>13. Config!ConfigTypeOK
    BY <1>9, <1>11, <1>12 DEF Config!ConfigTypeOK
  <1> QED BY <1>10, <1>11, <1>13 DEF Config!ConfigInv, Owned

LEMMA ConfigMoves ==
  ASSUME Config!ConfigAssumption, Config!ConfigInv, Config!ConfigNext
  PROVE  SettingsStep
  <1>1. cfInst' = cfInst /\ cfInst \in ConfigInstances
    BY DEF Config!ConfigNext, Config!ConfigInv, Config!ConfigTypeOK
  <1>2. cfInst.choices \subseteq Config!Setting
    BY <1>1 DEF Config!ConfigAssumption
  <1>3. ASSUME NEW choice \in cfInst.choices, choice.key = "jev"
        PROVE  choice.value \in BOOLEAN
    BY <1>2, <1>3 DEF Config!Setting, Config!Switches
  <1>4. CASE \E p \in ConfigProcesses :
               \/ Config!ToolCall(p) \/ Config!SessionStart(p)
               \/ Config!OpenDialog(p) \/ Config!CloseDialog(p) \/ Config!AdvisorOff(p)
                    \/ Config!OpenPicker(p)
               \/ Config!PickerCancelled(p) \/ Config!Activated(p) \/ Config!ExecutorRefused(p)
    BY <1>1, <1>4, ConfigToolCallKeeps, SessionStartKeeps, OpenDialogKeeps, CloseDialogKeeps,
       AdvisorOffKeeps, OpenPickerKeeps, PickerCancelledKeeps, ActivatedKeeps,
       ExecutorRefusedKeeps
  <1>5. CASE \E p \in ConfigProcesses : \E choice
          \in cfInst.choices : Config!DialogChange(p, choice)
    BY <1>1, <1>2, <1>5, DialogChangeKeeps
  <1>6. CASE \E p \in ConfigProcesses :
               \E on \in {c.value : c
                 \in {d \in cfInst.choices : d.key = "jev"}} : Config!JevChange(p, on)
    BY <1>1, <1>3, <1>6, JevChangeKeeps
  <1>7. CASE \E p \in ConfigProcesses :
               \/ \E m \in Models : Config!ModelSelect(p, m)
               \/ \E m, n \in Models : Config!Picked(p, m, n)
    BY <1>1, <1>7, ModelSelectKeeps, PickedKeeps
  <1>8. CASE \E p \in ConfigProcesses :
               \/ \E m, n \in Models \cup {None} : Config!Activate(p, m, n)
               \/ \E n \in Models \cup {None} : Config!ActivationPicked(p, n)
               \/ \E found \in BOOLEAN : Config!Authorised(p, found)
    BY <1>1, <1>8, ActivateKeeps, ActivationPickedKeeps, AuthorisedKeeps
  <1>9. CASE (\E e \in cfInst.edits : Config!EditByHand(e)) \/ Config!BreakFile \/ Config!FixFile
    BY <1>1, <1>9, FileKeeps
  <1> QED BY <1>4, <1>5, <1>6, <1>7, <1>8, <1>9 DEF Config!ConfigNext, Config!ConfigStep

\* Nothing moves.
LEMMA ConfigRests ==
  ASSUME Config!ConfigInv, UNCHANGED configVars
  PROVE  SettingsStep
  <1>1. /\ cfInst' = cfInst /\ cfFile' = cfFile /\ cfProc' = cfProc /\ cfTouched' = cfTouched
        /\ cfOff' = cfOff
    BY DEF configVars
  <1>2. Config!ConfigInv'
    BY <1>1
       DEF Config!ConfigInv, Config!ConfigTypeOK, Config!OwnChanges, Config!Outdated,
           Config!Begun, Config!Modal, Config!Changed
  <1>3. Config!SavesOwn
    BY <1>1 DEF Config!SavesOwn
  <1>4. Config!OffStays'
    BY <1>2 DEF Config!ConfigInv, Config!OffStays, Config!Outdated
  <1> QED BY <1>2, <1>3, <1>4 DEF SettingsStep

\* However dialogs, commands, activations, edits by hand and failing writes of the
\* processes interleave, a save leaves alone what was not set in its process since
\* it last read the file, and tools that were disabled stay off
\* (config/storage.ts, commands/runtime.ts).
THEOREM ConfigSteps ==
  ASSUME Config!ConfigAssumption, Config!ConfigInv, [Config!ConfigNext]_configVars
  PROVE  Config!ConfigInv' /\ Config!SavesOwn /\ Config!OffStays'
  BY ConfigMoves, ConfigRests DEF SettingsStep

-----------------------------------------------------------------------------
(* The ledger of the goals.                                                  *)

\* A set of numbers has a least one.
LEMMA Least ==
    ASSUME NEW S \in SUBSET Nat, S # {}
    PROVE  \E n \in S : \A m \in S : n <= m
<1> DEFINE R == StrictSubsetOrdering(Nat)
           T == {1..i : i \in S}
<1>1. IsWellFoundedOn(R, FiniteSubsetsOf(Nat))
  BY FS_StrictSubsetOrderingWellFounded
<1>2. \A i \in Nat : 1..i \in FiniteSubsetsOf(Nat)
  BY FS_Interval DEF FiniteSubsetsOf
<1>3. T \subseteq FiniteSubsetsOf(Nat) /\ T # {}
  BY <1>2
<1>4. PICK x \in T : \A y \in T : ~(<<y, x>> \in R)
  <2> HIDE DEF R, T
  <2> QED
    BY <1>1, <1>3, WFMin
<1>5. PICK n \in S : x = 1..n
  BY <1>4
<1>6. \A m \in S : ~(<<1..m, 1..n>> \in R)
  BY <1>4, <1>5
<1>7. ASSUME NEW m \in S, m < n PROVE FALSE
  <2>1. 1..m \subseteq 1..n /\ n \in 1..n /\ n \notin 1..m
    BY <1>7
  <2>2. 1..m \in SUBSET Nat /\ 1..n \in SUBSET Nat
    OBVIOUS
  <2>3. <<1..m, 1..n>> \in R
    BY <2>1, <2>2 DEF StrictSubsetOrdering
  <2> QED
    BY <1>6, <2>3
<1> QED
  BY <1>7

-----------------------------------------------------------------------------
(* Folds over the events.                                                    *)

LEMMA MaxOf ==
    ASSUME NEW n \in Nat, NEW t \in SUBSET (1..n), t # {}
    PROVE  Ledger!Max(t) \in t /\ \A x \in t : x <= Ledger!Max(t)
<1> DEFINE S == {k \in 0..n : \A x \in t : x <= k}
<1>1. S \in SUBSET Nat /\ n \in S
  OBVIOUS
<1>2. PICK k \in S : \A m \in S : k <= m
  <2> HIDE DEF S
  <2> QED
    BY <1>1, Least
<1>3. k \in t
  <2>1. PICK y \in t : TRUE
    OBVIOUS
  <2>2. k # 0
    BY <1>2, <2>1
  <2>3. k - 1 \in 0..n /\ k - 1 \notin S
    BY <1>2, <2>2
  <2>4. PICK x \in t : ~(x <= k - 1)
    BY <2>3
  <2> QED
    BY <1>2, <2>4
<1>4. \A x \in t : k >= x
  BY <1>2
<1> QED
  BY <1>3, <1>4 DEF Ledger!Max

LEMMA Below ==
    ASSUME NEW k \in Nat
    PROVE  /\ \A t \in SUBSET (1..k - 1) : t \in SUBSET (1..k) /\ k \notin t
           /\ \A t \in SUBSET (1..k) : k \notin t => t \in SUBSET (1..k - 1)
           /\ \A t \in SUBSET (1..k) : t \ {k} \in SUBSET (1..k - 1)
<1>1. \A x : x \in 1..k - 1 <=> x \in 1..k /\ x # k
  OBVIOUS
<1> QED
  BY <1>1

LEMMA MaxIs ==
    ASSUME NEW k \in Nat, NEW t \in SUBSET (1..k), k \in t
    PROVE  Ledger!Max(t) = k
<1>1. Ledger!Max(t) \in t /\ k <= Ledger!Max(t)
  BY MaxOf
<1>2. Ledger!Max(t) \in 1..k
  BY <1>1
<1> QED
  BY <1>1, <1>2

\* A checkpoint, after some events.
Fed(cp, s) == Ledger!FoldLeft(Ledger!Applied, cp, s)

\* g folds the first n elements of s, a set of their places at a time.
Feeds(g, base, n, s) ==
  g = [t \in SUBSET (1..n) |-> IF t = {} THEN base
    ELSE Ledger!Applied(g[t \ {Ledger!Max(t)}], s[Ledger!Max(t)])]

LEMMA FeedsExist ==
    ASSUME NEW base, NEW s, NEW n \in Nat
    PROVE  \E g : Feeds(g, base, n, s)
<1> DEFINE S == {k \in 0..n : ~ \E g : Feeds(g, base, k, s)}
<1>1. CASE S = {}
  BY <1>1
<1>2. CASE S # {}
  <2>1. PICK k \in S : \A m \in S : k <= m
    <3>1. S \in SUBSET Nat
      OBVIOUS
    <3> HIDE DEF S
    <3> QED
      BY <1>2, <3>1, Least
  <2>2. k # 0
    <3>1. Feeds([t \in SUBSET (1..0) |-> base], base, 0, s)
      <4>1. SUBSET (1..0) = {{}}
        OBVIOUS
      <4> QED
        BY <4>1 DEF Feeds
    <3> QED
      BY <3>1
  <2>3. PICK h : Feeds(h, base, k - 1, s)
    BY <2>1, <2>2
  <2>4. k \in Nat /\ k - 1 \in Nat /\ k > 0
    BY <2>1, <2>2
  <2> DEFINE g == [t \in SUBSET (1..k) |-> IF k \in t THEN Ledger!Applied(h[t \ {k}], s[k])
        ELSE h[t]]
  <2> HIDE DEF S
  <2>5. \A t \in SUBSET (1..k - 1) :
          /\ t \in SUBSET (1..k) /\ k \notin t
          /\ h[t] = IF t = {} THEN base
               ELSE Ledger!Applied(h[t \ {Ledger!Max(t)}], s[Ledger!Max(t)])
    <3>1. \A t \in SUBSET (1..k - 1) :
            h[t] = IF t = {} THEN base
              ELSE Ledger!Applied(h[t \ {Ledger!Max(t)}], s[Ledger!Max(t)])
      BY <2>3 DEF Feeds
    <3> QED
      BY <2>4, <3>1, Below
  <2>6. \A t \in SUBSET (1..k - 1) : g[t] = h[t]
    BY <2>5
  <2>7. ASSUME NEW t \in SUBSET (1..k)
        PROVE  g[t] = IF t = {} THEN base
                 ELSE Ledger!Applied(g[t \ {Ledger!Max(t)}], s[Ledger!Max(t)])
    <3>1. CASE k \in t
      <4>1. Ledger!Max(t) = k
        BY <2>4, <3>1, MaxIs
      <4>2. t \ {k} \in SUBSET (1..k - 1)
        BY <2>4, Below
      <4>3. g[t \ {k}] = h[t \ {k}] /\ g[t] = Ledger!Applied(h[t \ {k}], s[k])
        BY <2>6, <3>1, <4>2
      <4> QED
        BY <3>1, <4>1, <4>3
    <3>2. CASE k \notin t
      <4>1. t \in SUBSET (1..k - 1)
        BY <2>4, <3>2, Below
      <4>2. t \ {Ledger!Max(t)} \in SUBSET (1..k - 1)
        BY <4>1
      <4> QED
        BY <2>5, <2>6, <4>1, <4>2
    <3> QED
      BY <3>1, <3>2
  <2>8. Feeds(g, base, k, s)
    BY <2>7 DEF Feeds
  <2> QED
    BY <2>1, <2>8 DEF S
<1> QED
  BY <1>1, <1>2

\* What is folded of one sequence is folded of another as far as they agree.
LEMMA FeedsAgree ==
    ASSUME NEW base, NEW s, NEW r, NEW g, NEW h, NEW n \in Nat, NEW m \in Nat, n <= m,
           Feeds(g, base, n, s), Feeds(h, base, m, r), \A i \in 1..n : s[i] = r[i]
    PROVE  \A t \in SUBSET (1..n) : g[t] = h[t]
<1> DEFINE S == {k \in 0..n : \E t \in SUBSET (1..k) : g[t] # h[t]}
<1>1. \A t \in SUBSET (1..n) :
        /\ t \in SUBSET (1..m)
        /\ g[t] = IF t = {} THEN base
             ELSE Ledger!Applied(g[t \ {Ledger!Max(t)}], s[Ledger!Max(t)])
        /\ h[t] = IF t = {} THEN base
             ELSE Ledger!Applied(h[t \ {Ledger!Max(t)}], r[Ledger!Max(t)])
  <2>1. \A t \in SUBSET (1..n) : t \in SUBSET (1..m)
    OBVIOUS
  <2> QED
    BY <2>1 DEF Feeds
<1>2. CASE S = {}
  <2>1. n \in 0..n
    OBVIOUS
  <2> QED
    BY <1>2, <2>1
<1>3. CASE S # {}
  <2>1. PICK k \in S : \A j \in S : k <= j
    <3>1. S \in SUBSET Nat
      OBVIOUS
    <3> HIDE DEF S
    <3> QED
      BY <1>3, <3>1, Least
  <2>2. PICK t \in SUBSET (1..k) : g[t] # h[t]
    BY <2>1
  <2>3. k \in 0..n /\ t \in SUBSET (1..n) /\ k - 1 \notin S
    BY <2>1, <2>2
  <2>4. t # {}
    BY <1>1, <2>2, <2>3
  <2>5. k # 0 /\ k - 1 \in 0..n
    <3>1. PICK x \in t : TRUE
      BY <2>4
    <3>2. x \in 1..k
      BY <2>2, <3>1
    <3> QED
      BY <2>3, <3>2
  <2>6. \A u \in SUBSET (1..k - 1) : g[u] = h[u]
    BY <2>3, <2>5
  <2> HIDE DEF S
  <2>7. Ledger!Max(t) \in t /\ \A x \in t : x <= Ledger!Max(t)
    BY <2>3, <2>4, MaxOf
  <2>8. t \ {Ledger!Max(t)} \in SUBSET (1..k - 1)
    <3>1. ASSUME NEW x \in t, x # Ledger!Max(t) PROVE x \in 1..k - 1
      <4>1. x \in 1..k /\ Ledger!Max(t) \in 1..k /\ x <= Ledger!Max(t)
        BY <2>2, <2>7
      <4> QED
        BY <2>3, <3>1, <4>1
    <3> QED
      BY <3>1
  <2>9. s[Ledger!Max(t)] = r[Ledger!Max(t)]
    BY <2>3, <2>7
  <2>10. g[t \ {Ledger!Max(t)}] = h[t \ {Ledger!Max(t)}]
    BY <2>6, <2>8
  <2>11. /\ g[t] = Ledger!Applied(g[t \ {Ledger!Max(t)}], s[Ledger!Max(t)])
         /\ h[t] = Ledger!Applied(h[t \ {Ledger!Max(t)}], r[Ledger!Max(t)])
    BY <1>1, <2>3, <2>4
  <2> QED
    BY <2>2, <2>9, <2>10, <2>11
<1> QED
  BY <1>2, <1>3

LEMMA FedIs ==
    ASSUME NEW base, NEW s \in Seq(Ledger!Events), NEW n, n = Len(s)
    PROVE  \E g : Feeds(g, base, n, s) /\ Fed(base, s) = g[1..n]
<1>1. DOMAIN s = 1..n /\ n \in Nat
  OBVIOUS
<1> DEFINE g == CHOOSE f : Feeds(f, base, n, s)
<1>2. Feeds(g, base, n, s)
  BY <1>1, FeedsExist
<1>3. Fed(base, s) = g[1..n]
  BY <1>1 DEF Fed, Ledger!FoldLeft, Ledger!MapThenFoldSet, Feeds, Ledger!Max
<1> QED
  BY <1>2, <1>3

Added(sum, e) == sum + e.size

Summed(base, s) == Ledger!FoldLeft(LAMBDA sum, e : sum + e.size, base, s)

\* g folds the first n elements of s, a set of their places at a time.
Sums(g, base, n, s) ==
  g = [t \in SUBSET (1..n) |-> IF t = {} THEN base
    ELSE Added(g[t \ {Ledger!Max(t)}], s[Ledger!Max(t)])]

LEMMA SumsExist ==
    ASSUME NEW base, NEW s, NEW n \in Nat
    PROVE  \E g : Sums(g, base, n, s)
<1> DEFINE S == {k \in 0..n : ~ \E g : Sums(g, base, k, s)}
<1>1. CASE S = {}
  BY <1>1
<1>2. CASE S # {}
  <2>1. PICK k \in S : \A m \in S : k <= m
    <3>1. S \in SUBSET Nat
      OBVIOUS
    <3> HIDE DEF S
    <3> QED
      BY <1>2, <3>1, Least
  <2>2. k # 0
    <3>1. Sums([t \in SUBSET (1..0) |-> base], base, 0, s)
      <4>1. SUBSET (1..0) = {{}}
        OBVIOUS
      <4> QED
        BY <4>1 DEF Sums
    <3> QED
      BY <3>1
  <2>3. PICK h : Sums(h, base, k - 1, s)
    BY <2>1, <2>2
  <2>4. k \in Nat /\ k - 1 \in Nat /\ k > 0
    BY <2>1, <2>2
  <2> DEFINE g == [t \in SUBSET (1..k) |-> IF k \in t THEN Added(h[t \ {k}], s[k]) ELSE h[t]]
  <2> HIDE DEF S
  <2>5. \A t \in SUBSET (1..k - 1) :
          /\ t \in SUBSET (1..k) /\ k \notin t
          /\ h[t] = IF t = {} THEN base ELSE Added(h[t \ {Ledger!Max(t)}], s[Ledger!Max(t)])
    <3>1. \A t \in SUBSET (1..k - 1) :
            h[t] = IF t = {} THEN base ELSE Added(h[t \ {Ledger!Max(t)}], s[Ledger!Max(t)])
      BY <2>3 DEF Sums
    <3> QED
      BY <2>4, <3>1, Below
  <2>6. \A t \in SUBSET (1..k - 1) : g[t] = h[t]
    BY <2>5
  <2>7. ASSUME NEW t \in SUBSET (1..k)
        PROVE  g[t] = IF t = {} THEN base ELSE Added(g[t \ {Ledger!Max(t)}], s[Ledger!Max(t)])
    <3>1. CASE k \in t
      <4>1. Ledger!Max(t) = k
        BY <2>4, <3>1, MaxIs
      <4>2. t \ {k} \in SUBSET (1..k - 1)
        BY <2>4, Below
      <4>3. g[t \ {k}] = h[t \ {k}] /\ g[t] = Added(h[t \ {k}], s[k])
        BY <2>6, <3>1, <4>2
      <4> QED
        BY <3>1, <4>1, <4>3
    <3>2. CASE k \notin t
      <4>1. t \in SUBSET (1..k - 1)
        BY <2>4, <3>2, Below
      <4>2. t \ {Ledger!Max(t)} \in SUBSET (1..k - 1)
        BY <4>1
      <4> QED
        BY <2>5, <2>6, <4>1, <4>2
    <3> QED
      BY <3>1, <3>2
  <2>8. Sums(g, base, k, s)
    BY <2>7 DEF Sums
  <2> QED
    BY <2>1, <2>8 DEF S
<1> QED
  BY <1>1, <1>2

\* What is folded of one sequence is folded of another as far as they agree.
LEMMA SumsAgree ==
    ASSUME NEW base, NEW s, NEW r, NEW g, NEW h, NEW n \in Nat, NEW m \in Nat, n <= m,
           Sums(g, base, n, s), Sums(h, base, m, r), \A i \in 1..n : s[i] = r[i]
    PROVE  \A t \in SUBSET (1..n) : g[t] = h[t]
<1> DEFINE S == {k \in 0..n : \E t \in SUBSET (1..k) : g[t] # h[t]}
<1>1. \A t \in SUBSET (1..n) :
        /\ t \in SUBSET (1..m)
        /\ g[t] = IF t = {} THEN base ELSE Added(g[t \ {Ledger!Max(t)}], s[Ledger!Max(t)])
        /\ h[t] = IF t = {} THEN base ELSE Added(h[t \ {Ledger!Max(t)}], r[Ledger!Max(t)])
  <2>1. \A t \in SUBSET (1..n) : t \in SUBSET (1..m)
    OBVIOUS
  <2> QED
    BY <2>1 DEF Sums
<1>2. CASE S = {}
  <2>1. n \in 0..n
    OBVIOUS
  <2> QED
    BY <1>2, <2>1
<1>3. CASE S # {}
  <2>1. PICK k \in S : \A j \in S : k <= j
    <3>1. S \in SUBSET Nat
      OBVIOUS
    <3> HIDE DEF S
    <3> QED
      BY <1>3, <3>1, Least
  <2>2. PICK t \in SUBSET (1..k) : g[t] # h[t]
    BY <2>1
  <2>3. k \in 0..n /\ t \in SUBSET (1..n) /\ k - 1 \notin S
    BY <2>1, <2>2
  <2>4. t # {}
    BY <1>1, <2>2, <2>3
  <2>5. k # 0 /\ k - 1 \in 0..n
    <3>1. PICK x \in t : TRUE
      BY <2>4
    <3>2. x \in 1..k
      BY <2>2, <3>1
    <3> QED
      BY <2>3, <3>2
  <2>6. \A u \in SUBSET (1..k - 1) : g[u] = h[u]
    BY <2>3, <2>5
  <2> HIDE DEF S
  <2>7. Ledger!Max(t) \in t /\ \A x \in t : x <= Ledger!Max(t)
    BY <2>3, <2>4, MaxOf
  <2>8. t \ {Ledger!Max(t)} \in SUBSET (1..k - 1)
    <3>1. ASSUME NEW x \in t, x # Ledger!Max(t) PROVE x \in 1..k - 1
      <4>1. x \in 1..k /\ Ledger!Max(t) \in 1..k /\ x <= Ledger!Max(t)
        BY <2>2, <2>7
      <4> QED
        BY <2>3, <3>1, <4>1
    <3> QED
      BY <3>1
  <2>9. s[Ledger!Max(t)] = r[Ledger!Max(t)]
    BY <2>3, <2>7
  <2>10. g[t \ {Ledger!Max(t)}] = h[t \ {Ledger!Max(t)}]
    BY <2>6, <2>8
  <2>11. /\ g[t] = Added(g[t \ {Ledger!Max(t)}], s[Ledger!Max(t)])
         /\ h[t] = Added(h[t \ {Ledger!Max(t)}], r[Ledger!Max(t)])
    BY <1>1, <2>3, <2>4
  <2> QED
    BY <2>2, <2>9, <2>10, <2>11
<1> QED
  BY <1>2, <1>3

LEMMA SummedIs ==
    ASSUME NEW base, NEW s \in Seq(Ledger!Events), NEW n, n = Len(s)
    PROVE  \E g : Sums(g, base, n, s) /\ Summed(base, s) = g[1..n]
<1>1. DOMAIN s = 1..n /\ n \in Nat
  OBVIOUS
<1> DEFINE g == CHOOSE f : Sums(f, base, n, s)
<1>2. Sums(g, base, n, s)
  BY <1>1, SumsExist
<1>3. Summed(base, s) = g[1..n]
  BY <1>1 DEF Summed, Added, Ledger!FoldLeft, Ledger!MapThenFoldSet, Sums, Ledger!Max
<1> QED
  BY <1>2, <1>3

-----------------------------------------------------------------------------
(* One event at a time.                                                      *)

LEMMA FedEmpty == ASSUME NEW cp PROVE Fed(cp, <<>>) = cp
<1>1. <<>> \in Seq(Ledger!Events) /\ Len(<<>>) = 0
  OBVIOUS
<1>2. PICK g : Feeds(g, cp, 0, <<>>) /\ Fed(cp, <<>>) = g[1..0]
  BY <1>1, FedIs
<1>3. 1..0 = {} /\ {} \in SUBSET (1..0)
  OBVIOUS
<1> QED
  BY <1>2, <1>3 DEF Feeds

LEMMA FedAppend ==
    ASSUME NEW cp, NEW s \in Seq(Ledger!Events), NEW e \in Ledger!Events
    PROVE  Fed(cp, Append(s, e)) = Ledger!Applied(Fed(cp, s), e)
<1> DEFINE n == Len(s)
           r == Append(s, e)
<1>1. /\ n \in Nat /\ r \in Seq(Ledger!Events) /\ Len(r) = n + 1 /\ r[n + 1] = e
      /\ \A i \in 1..n : s[i] = r[i]
  OBVIOUS
<1> HIDE DEF n, r
<1>2. PICK g : Feeds(g, cp, n, s) /\ Fed(cp, s) = g[1..n]
  BY FedIs DEF n
<1>3. PICK h : Feeds(h, cp, n + 1, r) /\ Fed(cp, r) = h[1..n + 1]
  BY <1>1, FedIs
<1>4. g[1..n] = h[1..n]
  BY <1>1, <1>2, <1>3, FeedsAgree
<1>5. n + 1 \in 1..n + 1 /\ (1..n + 1) \ {n + 1} = 1..n /\ 1..n + 1 # {}
  <2>1. \A x : x \in 1..n <=> x \in 1..n + 1 /\ x # n + 1
    BY <1>1
  <2>2. n + 1 \in 1..n + 1
    BY <1>1
  <2> QED
    BY <2>1, <2>2
<1>6. Ledger!Max(1..n + 1) = n + 1
  BY <1>1, <1>5, MaxIs
<1>7. h[1..n + 1] = Ledger!Applied(h[1..n], r[n + 1])
  BY <1>3, <1>5, <1>6 DEF Feeds
<1> QED
  BY <1>1, <1>2, <1>3, <1>4, <1>7 DEF r

LEMMA SummedEmpty == ASSUME NEW base PROVE Summed(base, <<>>) = base
<1>1. <<>> \in Seq(Ledger!Events) /\ Len(<<>>) = 0
  OBVIOUS
<1>2. PICK g : Sums(g, base, 0, <<>>) /\ Summed(base, <<>>) = g[1..0]
  BY <1>1, SummedIs
<1>3. 1..0 = {} /\ {} \in SUBSET (1..0)
  OBVIOUS
<1> QED
  BY <1>2, <1>3 DEF Sums

LEMMA BytesEmpty == Ledger!Bytes(<<>>) = 0
BY SummedEmpty DEF Summed, Ledger!Bytes

LEMMA BytesAppend ==
    ASSUME NEW s \in Seq(Ledger!Events), NEW e \in Ledger!Events
    PROVE  Ledger!Bytes(Append(s, e)) = Ledger!Bytes(s) + e.size
<1> DEFINE n == Len(s)
           r == Append(s, e)
<1>1. /\ n \in Nat /\ r \in Seq(Ledger!Events) /\ Len(r) = n + 1 /\ r[n + 1] = e
      /\ \A i \in 1..n : s[i] = r[i]
  OBVIOUS
<1> HIDE DEF n, r
<1>2. PICK g : Sums(g, 0, n, s) /\ Summed(0, s) = g[1..n]
  BY SummedIs DEF n
<1>3. PICK h : Sums(h, 0, n + 1, r) /\ Summed(0, r) = h[1..n + 1]
  BY <1>1, SummedIs
<1>4. g[1..n] = h[1..n]
  BY <1>1, <1>2, <1>3, SumsAgree
<1>5. n + 1 \in 1..n + 1 /\ (1..n + 1) \ {n + 1} = 1..n /\ 1..n + 1 # {}
  <2>1. \A x : x \in 1..n <=> x \in 1..n + 1 /\ x # n + 1
    BY <1>1
  <2>2. n + 1 \in 1..n + 1
    BY <1>1
  <2> QED
    BY <2>1, <2>2
<1>6. Ledger!Max(1..n + 1) = n + 1
  BY <1>1, <1>5, MaxIs
<1>7. h[1..n + 1] = Added(h[1..n], r[n + 1])
  BY <1>3, <1>5, <1>6 DEF Sums
<1> QED
  BY <1>1, <1>2, <1>3, <1>4, <1>7 DEF r, Added, Summed, Ledger!Bytes

LEMMA OneMore ==
    ASSUME NEW s \in Seq(Ledger!Events), NEW m \in Nat \ {0}, NEW k \in m..Len(s)
    PROVE  /\ SubSeq(s, m, k) = Append(SubSeq(s, m, k - 1), s[k])
           /\ SubSeq(s, m, k - 1) \in Seq(Ledger!Events) /\ SubSeq(s, m, k) \in Seq(Ledger!Events)
           /\ s[k] \in Ledger!Events
<1>1. m \in 1..Len(s) /\ k \in 1..Len(s) /\ m \in Int /\ k - 1 \in Int /\ k \in Int
  OBVIOUS
<1>2. SubSeq(s, m, k) = SubSeq(s, m, k - 1) \o <<s[k]>>
  BY <1>1, SubSeqRecursiveSecond
<1>3. \A i \in m..k : s[i] \in Ledger!Events
  BY <1>1
<1>4. SubSeq(s, m, k - 1) \in Seq(Ledger!Events) /\ SubSeq(s, m, k) \in Seq(Ledger!Events)
  BY <1>1, <1>3, SubSeqProperties
<1>5. SubSeq(s, m, k - 1) \o <<s[k]>> = Append(SubSeq(s, m, k - 1), s[k])
  BY <1>1, <1>3, <1>4
<1> QED
  BY <1>1, <1>2, <1>3, <1>4, <1>5

LEMMA Whole ==
    ASSUME NEW s \in Seq(Ledger!Events)
    PROVE  SubSeq(s, 1, 0) = <<>> /\ SubSeq(s, 1, Len(s)) = s /\ Len(s) \in 0..Len(s)
BY SubSeqEmpty, SubSeqFull

\* A line takes a byte at least.
LEMMA BytesNat ==
    ASSUME NEW s \in Seq(Ledger!Events)
    PROVE  Ledger!Bytes(s) \in Nat /\ Ledger!Bytes(s) >= Len(s)
<1> DEFINE P(k) == Ledger!Bytes(SubSeq(s, 1, k)) \in Nat /\ Ledger!Bytes(SubSeq(s, 1, k)) >= k
           S == {k \in 0..Len(s) : ~P(k)}
<1>1. CASE S = {}
  BY <1>1, Whole
<1>2. CASE S # {}
  <2>1. PICK k \in S : \A m \in S : k <= m
    <3>1. S \in SUBSET Nat
      OBVIOUS
    <3> HIDE DEF S
    <3> QED
      BY <1>2, <3>1, Least
  <2>2. k # 0
    <3>1. SubSeq(s, 1, 0) = <<>>
      BY Whole
    <3>2. Ledger!Bytes(SubSeq(s, 1, 0)) = 0
      BY <3>1, BytesEmpty
    <3>3. P(0)
      BY <3>2
    <3> QED
      BY <2>1, <3>3
  <2>3. k \in 1..Len(s) /\ k - 1 \in 0..Len(s) /\ k - 1 \notin S
    BY <2>1, <2>2
  <2>4. P(k - 1)
    BY <2>3
  <2>5. Ledger!Bytes(SubSeq(s, 1, k)) = Ledger!Bytes(SubSeq(s, 1, k - 1)) + s[k].size
          /\ s[k] \in Ledger!Events
    <3>1. /\ SubSeq(s, 1, k) = Append(SubSeq(s, 1, k - 1), s[k])
          /\ SubSeq(s, 1, k - 1) \in Seq(Ledger!Events) /\ s[k] \in Ledger!Events
      BY <2>3, OneMore
    <3> QED
      BY <3>1, BytesAppend
  <2>6. s[k].size \in Nat /\ s[k].size >= 1
    BY <2>5 DEF Ledger!Events
  <2> QED
    BY <2>1, <2>3, <2>4, <2>5, <2>6
<1> QED
  BY <1>1, <1>2

LEMMA BytesCat ==
    ASSUME NEW s \in Seq(Ledger!Events), NEW r \in Seq(Ledger!Events)
    PROVE  Ledger!Bytes(s \o r) = Ledger!Bytes(s) + Ledger!Bytes(r)
<1> DEFINE P(k) == Ledger!Bytes(s \o SubSeq(r, 1, k))
      = Ledger!Bytes(s) + Ledger!Bytes(SubSeq(r, 1, k))
           S == {k \in 0..Len(r) : ~P(k)}
<1>1. CASE S = {}
  BY <1>1, Whole
<1>2. CASE S # {}
  <2>1. PICK k \in S : \A m \in S : k <= m
    <3>1. S \in SUBSET Nat
      OBVIOUS
    <3> HIDE DEF S
    <3> QED
      BY <1>2, <3>1, Least
  <2>2. k # 0
    <3>1. s \o <<>> = s
      OBVIOUS
    <3>2. Ledger!Bytes(s) \in Nat /\ SubSeq(r, 1, 0) = <<>>
      BY Whole, BytesNat
    <3>3. Ledger!Bytes(SubSeq(r, 1, 0)) = 0
      BY <3>2, BytesEmpty
    <3>4. Ledger!Bytes(s \o SubSeq(r, 1, 0)) = Ledger!Bytes(s)
      BY <3>1, <3>2
    <3>5. P(0)
      BY <3>2, <3>3, <3>4
    <3> QED
      BY <2>1, <3>5
  <2>3. k \in 1..Len(r) /\ k - 1 \in 0..Len(r) /\ k - 1 \notin S
    BY <2>1, <2>2
  <2>4. P(k - 1)
    BY <2>3
  <2> DEFINE u == SubSeq(r, 1, k - 1)
  <2>5. SubSeq(r, 1, k) = Append(u, r[k]) /\ u \in Seq(Ledger!Events) /\ r[k] \in Ledger!Events
    BY <2>3, OneMore
  <2> HIDE DEF u
  <2>6. s \o Append(u, r[k]) = Append(s \o u, r[k]) /\ s \o u \in Seq(Ledger!Events)
    BY <2>5
  <2>7. /\ Ledger!Bytes(s \o SubSeq(r, 1, k)) = Ledger!Bytes(s \o u) + r[k].size
        /\ Ledger!Bytes(SubSeq(r, 1, k)) = Ledger!Bytes(u) + r[k].size
    BY <2>5, <2>6, BytesAppend
  <2>8. Ledger!Bytes(s) \in Nat /\ Ledger!Bytes(u) \in Nat /\ r[k].size \in Nat
    BY <2>5, BytesNat DEF Ledger!Events
  <2> QED
    BY <2>1, <2>4, <2>7, <2>8 DEF u
<1> QED
  BY <1>1, <1>2

\* A longer part of the file has more bytes.
LEMMA BytesGrow ==
    ASSUME NEW s \in Seq(Ledger!Events), NEW k \in 0..Len(s), NEW j \in 0..Len(s), j < k
    PROVE  Ledger!Bytes(SubSeq(s, 1, j)) < Ledger!Bytes(SubSeq(s, 1, k))
<1>1. /\ SubSeq(s, 1, j) \o SubSeq(s, j + 1, k) = SubSeq(s, 1, k)
      /\ SubSeq(s, 1, j) \in Seq(Ledger!Events)
      /\ SubSeq(s, j + 1, k) \in Seq(Ledger!Events) /\ Len(SubSeq(s, j + 1, k)) = k - j
  <2>1. 1 \in 1..Len(s) + 1 /\ j \in 0..Len(s) /\ k \in j..Len(s)
    OBVIOUS
  <2>2. /\ \A i \in j + 1..k : s[i] \in Ledger!Events
        /\ \A i \in 1..j : s[i] \in Ledger!Events
    BY <2>1
  <2>3. SubSeq(s, 1, j) \o SubSeq(s, j + 1, k) = SubSeq(s, 1, k)
    BY <2>1, ConcatAdjacentSubSeq
  <2>4. 1 \in Int /\ j \in Int /\ j + 1 \in Int /\ k \in Int /\ j + 1 <= k
    OBVIOUS
  <2> QED
    BY <2>2, <2>3, <2>4, SubSeqProperties
<1>2. /\ Ledger!Bytes(SubSeq(s, 1, k))
           = Ledger!Bytes(SubSeq(s, 1, j)) + Ledger!Bytes(SubSeq(s, j + 1, k))
      /\ Ledger!Bytes(SubSeq(s, 1, j)) \in Nat /\ Ledger!Bytes(SubSeq(s, j + 1, k)) \in Nat
      /\ Ledger!Bytes(SubSeq(s, j + 1, k)) >= k - j
  BY <1>1, BytesCat, BytesNat
<1> QED
  BY <1>2

\* What is read past the bytes of a prefix is what follows it.
LEMMA TailIs ==
    ASSUME ledger \in Seq(Ledger!Events), NEW k \in 0..Len(ledger)
    PROVE  Ledger!TailFrom(Ledger!Bytes(SubSeq(ledger, 1, k)))
             = SubSeq(ledger, k + 1, Len(ledger))
<1> DEFINE offset == Ledger!Bytes(SubSeq(ledger, 1, k))
           whole == {j \in 0..Len(ledger) : Ledger!Bytes(SubSeq(ledger, 1, j)) >= offset}
<1>1. \A j \in 0..Len(ledger) : Ledger!Bytes(SubSeq(ledger, 1, j)) \in Nat
  <2>1. ASSUME NEW j \in 0..Len(ledger) PROVE SubSeq(ledger, 1, j) \in Seq(Ledger!Events)
    <3>1. \A i \in 1..j : ledger[i] \in Ledger!Events
      BY <2>1
    <3> QED
      BY <3>1, SubSeqProperties
  <2> QED
    BY <2>1, BytesNat
<1>2. k \in whole
  BY <1>1
<1>3. \A j \in whole : k <= j
  BY <1>1, BytesGrow
<1>4. (CHOOSE i \in whole : \A j \in whole : i <= j) = k
  <2>1. \A i \in whole : (\A j \in whole : i <= j) => i = k
    BY <1>2, <1>3
  <2> HIDE DEF whole
  <2> QED
    BY <1>2, <1>3, <2>1
<1> QED
  BY <1>2, <1>4 DEF Ledger!TailFrom

-----------------------------------------------------------------------------
(* What an event does to a checkpoint.                                       *)

\* An event changes the focus, what is known of an audit, or the status of a goal.
Generations(acc, e) ==
  IF e.goal = None THEN acc.focusGen
  ELSE [acc.focusGen EXCEPT
          ![e.goal] = IF acc.status[e.goal] = "unknown" THEN acc.focusGen[e.goal]
                      ELSE acc.generation + 1]
Focuses(acc, e) ==
  [acc EXCEPT !.focused = e.goal, !.generation = acc.generation + 1,
              !.focusGen = Generations(acc, e)]
Audited(acc, e) ==
  [acc EXCEPT !.audit = [acc.audit EXCEPT ![e.goal] = e.audit],
              !.verdict = [acc.verdict EXCEPT ![e.goal] = (e.type = "audit_result")]]
Turned(acc, g, status) == [acc EXCEPT !.status = [acc.status EXCEPT ![g] = status]]

Heard(acc, e) == acc.status[e.goal] # "unknown" /\ Ledger!auditApplies(acc.audit[e.goal], e)

LEMMA ApplyCases ==
    ASSUME NEW acc \in Ledger!Accumulators, NEW e \in Ledger!Events
    PROVE  /\ e.type \in {"goal_focused", "goal_unfocused"} =>
                Ledger!applyLedgerEvent(acc, e) = Focuses(acc, e)
           /\ e.type \in Ledger!Audits =>
                Ledger!applyLedgerEvent(acc, e) = IF Heard(acc, e) THEN Audited(acc, e) ELSE acc
           /\ e.type = "goal_created" =>
                Ledger!applyLedgerEvent(acc, e) = Turned(acc, e.goal, "active")
           /\ e.type = "goal_paused" =>
                Ledger!applyLedgerEvent(acc, e) =
                  IF Ledger!IsOpen(acc, e.goal) THEN Turned(acc, e.goal, "paused") ELSE acc
           /\ e.type = "goal_resumed" =>
                Ledger!applyLedgerEvent(acc, e) =
                  IF Ledger!IsOpen(acc, e.goal) THEN Turned(acc, e.goal, "active") ELSE acc
           /\ e.type = "goal_completed" =>
                Ledger!applyLedgerEvent(acc, e) = Turned(acc, e.goal, "complete")
           /\ e.type \notin {"goal_focused", "goal_unfocused"} \cup Ledger!Audits
                            \cup {"goal_created", "goal_paused", "goal_resumed",
                                "goal_completed"} =>
                Ledger!applyLedgerEvent(acc, e) = acc
<1>1. acc = [status |-> acc.status, audit |-> acc.audit, verdict |-> acc.verdict,
             focusGen |-> acc.focusGen, focused |-> acc.focused, generation |-> acc.generation]
  BY DEF Ledger!Accumulators
<1>2. e.goal = None <=> e.type = "goal_unfocused"
  BY DEF Ledger!Events
<1>3. ASSUME e.type = "goal_focused"
      PROVE  Ledger!applyLedgerEvent(acc, e) = Focuses(acc, e)
  BY <1>1, <1>2, <1>3 DEF Ledger!applyLedgerEvent, Focuses, Generations, Ledger!Audits
<1>4. ASSUME e.type = "goal_unfocused"
      PROVE  Ledger!applyLedgerEvent(acc, e) = Focuses(acc, e)
  <2>1. Ledger!applyLedgerEvent(acc, e) = [acc EXCEPT !.focused = None, !.generation = @ + 1]
    BY <1>4 DEF Ledger!applyLedgerEvent, Ledger!Audits
  <2> QED
    BY <1>1, <1>2, <1>4, <2>1 DEF Focuses, Generations
<1>5. ASSUME e.type \in Ledger!Audits
      PROVE  Ledger!applyLedgerEvent(acc, e) = IF Heard(acc, e) THEN Audited(acc, e) ELSE acc
  BY <1>5 DEF Ledger!applyLedgerEvent, Audited, Ledger!Audits, Heard
<1>6. ASSUME e.type = "goal_created"
      PROVE  Ledger!applyLedgerEvent(acc, e) = Turned(acc, e.goal, "active")
  BY <1>6 DEF Ledger!applyLedgerEvent, Ledger!Audits, Turned
<1>7. ASSUME e.type = "goal_paused"
      PROVE  Ledger!applyLedgerEvent(acc, e) =
               IF Ledger!IsOpen(acc, e.goal) THEN Turned(acc, e.goal, "paused") ELSE acc
  BY <1>7 DEF Ledger!applyLedgerEvent, Ledger!Audits, Turned
<1>8. ASSUME e.type = "goal_resumed"
      PROVE  Ledger!applyLedgerEvent(acc, e) =
               IF Ledger!IsOpen(acc, e.goal) THEN Turned(acc, e.goal, "active") ELSE acc
  BY <1>8 DEF Ledger!applyLedgerEvent, Ledger!Audits, Turned
<1>9. ASSUME e.type = "goal_completed"
      PROVE  Ledger!applyLedgerEvent(acc, e) = Turned(acc, e.goal, "complete")
  BY <1>9 DEF Ledger!applyLedgerEvent, Ledger!Audits, Turned
<1>10. ASSUME e.type \notin {"goal_focused", "goal_unfocused"} \cup Ledger!Audits
                            \cup {"goal_created", "goal_paused", "goal_resumed", "goal_completed"}
       PROVE  Ledger!applyLedgerEvent(acc, e) = acc
  BY <1>10 DEF Ledger!applyLedgerEvent
<1> QED
  BY <1>3, <1>4, <1>5, <1>6, <1>7, <1>8, <1>9, <1>10

LEMMA FocusesTyped ==
    ASSUME NEW acc \in Ledger!Accumulators, NEW e \in Ledger!Events
    PROVE  /\ Focuses(acc, e) \in Ledger!Accumulators
           /\ Focuses(acc, e).focused = e.goal /\ Focuses(acc, e).status = acc.status
<1>1. e.goal \in Goals \cup {None} /\ acc.generation + 1 \in Nat
  BY DEF Ledger!Events, Ledger!Accumulators
<1>2. Generations(acc, e) \in [Goals -> Nat]
  <2> DEFINE v == IF acc.status[e.goal] = "unknown" THEN acc.focusGen[e.goal]
                  ELSE acc.generation + 1
  <2>1. acc.focusGen \in [Goals -> Nat]
    BY DEF Ledger!Accumulators
  <2>2. e.goal \in Goals => v \in Nat
    BY <1>1, <2>1
  <2>3. Generations(acc, e) = IF e.goal = None THEN acc.focusGen
                              ELSE [acc.focusGen EXCEPT ![e.goal] = v]
    BY DEF Generations
  <2> HIDE DEF v
  <2> QED
    BY <1>1, <2>1, <2>2, <2>3
<1> QED
  BY <1>1, <1>2 DEF Focuses, Ledger!Accumulators

LEMMA AuditedTyped ==
    ASSUME NEW acc \in Ledger!Accumulators, NEW e \in Ledger!Events, e.goal \in Goals
    PROVE  /\ Audited(acc, e) \in Ledger!Accumulators
           /\ Audited(acc, e).focused = acc.focused /\ Audited(acc, e).status = acc.status
<1> DEFINE v == (e.type = "audit_result")
<1>1. e.audit \in Nat /\ v \in BOOLEAN
  BY DEF Ledger!Events
<1> HIDE DEF v
<1>2. /\ [acc.audit EXCEPT ![e.goal] = e.audit] \in [Goals -> Nat]
      /\ [acc.verdict EXCEPT ![e.goal] = v] \in [Goals -> BOOLEAN]
  BY <1>1 DEF Ledger!Accumulators
<1>3. Audited(acc, e) = [acc EXCEPT !.audit = [acc.audit EXCEPT ![e.goal] = e.audit],
                                    !.verdict = [acc.verdict EXCEPT ![e.goal] = v]]
  BY DEF Audited, v, Ledger!Accumulators
<1> QED
  BY <1>2, <1>3 DEF Ledger!Accumulators

LEMMA TurnedTyped ==
    ASSUME NEW acc \in Ledger!Accumulators, NEW g \in Goals, NEW status \in Ledger!Statuses
    PROVE  /\ Turned(acc, g, status) \in Ledger!Accumulators
           /\ Turned(acc, g, status).focused = acc.focused
           /\ Turned(acc, g, status).status = [acc.status EXCEPT ![g] = status]
<1>1. [acc.status EXCEPT ![g] = status] \in [Goals -> Ledger!Statuses]
  BY DEF Ledger!Accumulators
<1> QED
  BY <1>1 DEF Turned, Ledger!Accumulators

LEMMA HasGoal ==
    ASSUME NEW e \in Ledger!Events, e.type # "goal_unfocused"
    PROVE  e.goal \in Goals
BY DEF Ledger!Events

LEMMA ApplyTyped ==
    ASSUME NEW acc \in Ledger!Accumulators, NEW e \in Ledger!Events
    PROVE  /\ Ledger!applyLedgerEvent(acc, e) \in Ledger!Accumulators
           /\ Ledger!applyLedgerEvent(acc, e).focused \in {acc.focused, e.goal}
<1>1. CASE e.type \in {"goal_focused", "goal_unfocused"}
  BY <1>1, ApplyCases, FocusesTyped
<1>2. CASE e.type \in Ledger!Audits
  <2>1. e.goal \in Goals
    BY <1>2, HasGoal DEF Ledger!Audits
  <2>2. Ledger!applyLedgerEvent(acc, e) = IF Heard(acc, e) THEN Audited(acc, e) ELSE acc
    BY <1>2, ApplyCases
  <2> QED
    BY <2>1, <2>2, AuditedTyped
<1>3. CASE e.type \in {"goal_created", "goal_paused", "goal_resumed", "goal_completed"}
  <2>1. e.goal \in Goals
    BY <1>3, HasGoal
  <2>2. \/ Ledger!applyLedgerEvent(acc, e) = acc
        \/ \E status \in Ledger!Statuses : Ledger!applyLedgerEvent(acc, e)
             = Turned(acc, e.goal, status)
    BY <1>3, ApplyCases DEF Ledger!Statuses
  <2>3. CASE \E status \in Ledger!Statuses : Ledger!applyLedgerEvent(acc, e)
          = Turned(acc, e.goal, status)
    <3>1. PICK status \in Ledger!Statuses : Ledger!applyLedgerEvent(acc, e)
                 = Turned(acc, e.goal, status)
      BY <2>3
    <3>2. Turned(acc, e.goal, status) \in Ledger!Accumulators
      BY <2>1, TurnedTyped
    <3>3. Turned(acc, e.goal, status).focused = acc.focused
      BY <2>1, TurnedTyped
    <3> QED
      BY <3>1, <3>2, <3>3
  <2> QED
    BY <2>2, <2>3
<1>4. CASE e.type \notin {"goal_focused", "goal_unfocused"} \cup Ledger!Audits
                         \cup {"goal_created", "goal_paused", "goal_resumed", "goal_completed"}
  BY <1>4, ApplyCases
<1> QED
  BY <1>1, <1>2, <1>3, <1>4

LEMMA IndexTyped ==
    ASSUME NEW index \in [Goals -> Ledger!Indexes], NEW e \in Ledger!Events
    PROVE  Ledger!indexLedgerEvent(index, e) \in [Goals -> Ledger!Indexes]
<1>1. CASE e.goal = None
  BY <1>1 DEF Ledger!indexLedgerEvent
<1>2. CASE e.goal # None
  <2>1. e.goal \in Goals
    BY <1>2 DEF Ledger!Events
  <2> DEFINE entry == index[e.goal]
  <2>2. entry \in Ledger!Indexes
    BY <2>1
  <2> HIDE DEF entry
  <2>3. Append(entry.recent, e) \in Seq(Ledger!Events) /\ Append(entry.recent, e) # <<>>
    <3>1. entry.recent \in Seq(Ledger!Events)
      BY <2>2 DEF Ledger!Indexes
    <3> QED
      BY <3>1, AppendProperties
  <2>4. Tail(Append(entry.recent, e)) \in Seq(Ledger!Events)
    BY <2>3, HeadTailProperties
  <2>5. entry.failed + (IF e.type = "oracle_failed" THEN 1 ELSE 0) \in Nat
    BY <2>2 DEF Ledger!Indexes
  <2>6. Ledger!Indexed(entry, e) \in Ledger!Indexes
    BY <2>2, <2>3, <2>4, <2>5 DEF Ledger!Indexed, Ledger!Indexes, Ledger!Held
  <2> QED
    BY <1>2, <2>1, <2>6 DEF Ledger!indexLedgerEvent, entry
<1> QED
  BY <1>1, <1>2

LEMMA AppliedTyped ==
    ASSUME NEW cp \in Ledger!Checkpoints, NEW e \in Ledger!Events
    PROVE  Ledger!Applied(cp, e) \in Ledger!Checkpoints
<1>1. /\ Ledger!applyLedgerEvent(cp.acc, e) \in Ledger!Accumulators
      /\ Ledger!indexLedgerEvent(cp.runtimeIndex, e) \in [Goals -> Ledger!Indexes]
  BY ApplyTyped, IndexTyped DEF Ledger!Checkpoints
<1>2. cp.coveredBytes + e.size \in Nat /\ cp.coveredEvents + 1 \in Nat
  BY DEF Ledger!Checkpoints, Ledger!Events
<1> QED
  BY <1>1, <1>2 DEF Ledger!Applied, Ledger!Checkpoints

LEMMA BlankTyped == ASSUME Ledger!LedgerAssumption PROVE Ledger!Blank \in Ledger!Checkpoints
<1>1. Ledger!freshAccumulator \in Ledger!Accumulators
  BY DEF Ledger!freshAccumulator, Ledger!Accumulators, Ledger!Statuses
<1>2. Ledger!NoIndex \in Ledger!Indexes
  BY DEF Ledger!NoIndex, Ledger!Indexes, Ledger!Held
<1> QED
  BY <1>1, <1>2 DEF Ledger!Blank, Ledger!Checkpoints

LEMMA FinalTyped ==
    ASSUME NEW acc \in Ledger!Accumulators
    PROVE  /\ Ledger!finalizeLedgerState(acc) \in Ledger!Accumulators
           /\ Ledger!finalizeLedgerState(acc).focused \in {acc.focused, None}
           /\ Ledger!finalizeLedgerState(Ledger!finalizeLedgerState(acc))
                = Ledger!finalizeLedgerState(acc)
BY DEF Ledger!finalizeLedgerState, Ledger!Accumulators, Ledger!IsOpen

\* Who is focused once the state is final.
Final(focused, status) ==
  IF focused # None /\ status[focused] \notin {"active", "paused"} THEN None ELSE focused

LEMMA FinalIs ==
    ASSUME NEW acc \in Ledger!Accumulators
    PROVE  Ledger!finalizeLedgerState(acc)
             = [acc EXCEPT !.focused = Final(acc.focused, acc.status)]
BY DEF Ledger!finalizeLedgerState, Final, Ledger!IsOpen, Ledger!Accumulators

LEMMA FinalSame ==
    ASSUME NEW a \in Ledger!Accumulators, NEW b \in Ledger!Accumulators
    PROVE  Ledger!finalizeLedgerState(a) = Ledger!finalizeLedgerState(b) <=>
             /\ a.status = b.status /\ a.audit = b.audit /\ a.verdict = b.verdict
             /\ a.focusGen = b.focusGen /\ a.generation = b.generation
             /\ Final(a.focused, a.status) = Final(b.focused, b.status)
<1>1. /\ a = [status |-> a.status, audit |-> a.audit, verdict |-> a.verdict,
              focusGen |-> a.focusGen, focused |-> a.focused, generation |-> a.generation]
      /\ b = [status |-> b.status, audit |-> b.audit, verdict |-> b.verdict,
              focusGen |-> b.focusGen, focused |-> b.focused, generation |-> b.generation]
  BY DEF Ledger!Accumulators
<1> DEFINE x == Final(a.focused, a.status)
           y == Final(b.focused, b.status)
<1>2. /\ Ledger!finalizeLedgerState(a) = [a EXCEPT !.focused = x]
      /\ Ledger!finalizeLedgerState(b) = [b EXCEPT !.focused = y]
  BY FinalIs
<1> HIDE DEF x, y
<1>3. /\ Ledger!finalizeLedgerState(a) =
           [status |-> a.status, audit |-> a.audit, verdict |-> a.verdict,
            focusGen |-> a.focusGen, focused |-> x, generation |-> a.generation]
      /\ Ledger!finalizeLedgerState(b) =
           [status |-> b.status, audit |-> b.audit, verdict |-> b.verdict,
            focusGen |-> b.focusGen, focused |-> y, generation |-> b.generation]
  BY <1>1, <1>2
<1> QED
  BY <1>3 DEF x, y

\* What an event changes depends on the focus in nothing but the focus.
Twins(a, b) ==
  /\ a.status = b.status /\ a.audit = b.audit /\ a.verdict = b.verdict
  /\ a.focusGen = b.focusGen /\ a.generation = b.generation

LEMMA ApplyTwins ==
    ASSUME NEW a \in Ledger!Accumulators, NEW b \in Ledger!Accumulators,
           NEW e \in Ledger!Events, Twins(a, b)
    PROVE  Twins(Ledger!applyLedgerEvent(a, e), Ledger!applyLedgerEvent(b, e))
<1>1. CASE e.type \in {"goal_focused", "goal_unfocused"}
  <2>1. Ledger!applyLedgerEvent(a, e) = Focuses(a, e)
          /\ Ledger!applyLedgerEvent(b, e) = Focuses(b, e)
    BY <1>1, ApplyCases
  <2>2. Generations(a, e) = Generations(b, e)
    BY DEF Twins, Generations
  <2>3. Twins(Focuses(a, e), Focuses(b, e))
    BY <2>2 DEF Twins, Focuses, Ledger!Accumulators
  <2> QED
    BY <2>1, <2>3
<1>2. CASE e.type \in Ledger!Audits
  <2>1. /\ Ledger!applyLedgerEvent(a, e) = IF Heard(a, e) THEN Audited(a, e) ELSE a
        /\ Ledger!applyLedgerEvent(b, e) = IF Heard(b, e) THEN Audited(b, e) ELSE b
        /\ Heard(a, e) <=> Heard(b, e)
    BY <1>2, ApplyCases DEF Twins, Heard
  <2> QED
    BY <2>1 DEF Twins, Audited, Ledger!Accumulators
<1>3. CASE e.type \in {"goal_created", "goal_paused", "goal_resumed", "goal_completed"}
  <2>1. \/ Ledger!applyLedgerEvent(a, e) = a /\ Ledger!applyLedgerEvent(b, e) = b
        \/ \E status \in Ledger!Statuses :
             /\ Ledger!applyLedgerEvent(a, e) = Turned(a, e.goal, status)
                                    /\ Ledger!applyLedgerEvent(b, e) = Turned(b, e.goal, status)
    BY <1>3, ApplyCases DEF Twins, Ledger!IsOpen, Ledger!Statuses
  <2>2. CASE Ledger!applyLedgerEvent(a, e) = a /\ Ledger!applyLedgerEvent(b, e) = b
    BY <2>2
  <2>3. CASE \E status \in Ledger!Statuses :
          /\ Ledger!applyLedgerEvent(a, e) = Turned(a, e.goal, status)
                                       /\ Ledger!applyLedgerEvent(b, e)
                                            = Turned(b, e.goal, status)
    <3>1. PICK status \in Ledger!Statuses :
                 /\ Ledger!applyLedgerEvent(a, e) = Turned(a, e.goal, status)
                                      /\ Ledger!applyLedgerEvent(b, e) = Turned(b, e.goal, status)
      BY <2>3
    <3>2. Twins(Turned(a, e.goal, status), Turned(b, e.goal, status))
      BY DEF Twins, Turned, Ledger!Accumulators
    <3> QED
      BY <3>1, <3>2
  <2> QED
    BY <2>1, <2>2, <2>3
<1>4. CASE e.type \notin {"goal_focused", "goal_unfocused"} \cup Ledger!Audits
                         \cup {"goal_created", "goal_paused", "goal_resumed", "goal_completed"}
  BY <1>4, ApplyCases
<1> QED
  BY <1>1, <1>2, <1>3, <1>4

\* Nothing but its creation opens a goal, and nothing but a focus moves the focus.
LEMMA ApplyMoves ==
    ASSUME NEW a \in Ledger!Accumulators, NEW e \in Ledger!Events
    PROVE  IF e.type \in {"goal_focused", "goal_unfocused"}
           THEN Ledger!applyLedgerEvent(a, e).focused = e.goal
           ELSE /\ Ledger!applyLedgerEvent(a, e).focused = a.focused
                /\ \A g \in Goals : Ledger!applyLedgerEvent(a, e).status[g]
                     \in {"active", "paused"} =>
                     \/ a.status[g] \in {"active", "paused"}
                     \/ e.type = "goal_created" /\ e.goal = g
<1>1. CASE e.type \in {"goal_focused", "goal_unfocused"}
  BY <1>1, ApplyCases, FocusesTyped
<1>2. CASE e.type \in Ledger!Audits
  <2>1. e.goal \in Goals /\ e.type \notin {"goal_focused", "goal_unfocused"}
    BY <1>2, HasGoal DEF Ledger!Audits
  <2>2. Ledger!applyLedgerEvent(a, e) = IF Heard(a, e) THEN Audited(a, e) ELSE a
    BY <1>2, ApplyCases
  <2> QED
    BY <2>1, <2>2, AuditedTyped
<1>3. CASE e.type \in {"goal_created", "goal_paused", "goal_resumed", "goal_completed"}
  <2>1. e.goal \in Goals
    BY <1>3, HasGoal
  <2>2. \/ Ledger!applyLedgerEvent(a, e) = a
        \/ \E status \in Ledger!Statuses :
             /\ Ledger!applyLedgerEvent(a, e) = Turned(a, e.goal, status)
             /\ status \in {"active", "paused"} =>
                  Ledger!IsOpen(a, e.goal) \/ e.type = "goal_created"
    BY <1>3, ApplyCases DEF Ledger!Statuses
  <2>3. \/ Ledger!applyLedgerEvent(a, e) = a
        \/ \E status \in Ledger!Statuses :
             /\ Ledger!applyLedgerEvent(a, e).status = [a.status EXCEPT ![e.goal] = status]
             /\ Ledger!applyLedgerEvent(a, e).focused = a.focused
             /\ status \in {"active", "paused"} =>
                  a.status[e.goal] \in {"active", "paused"} \/ e.type = "goal_created"
    BY <2>1, <2>2, TurnedTyped DEF Ledger!IsOpen
  <2>4. a.status \in [Goals -> Ledger!Statuses]
    BY DEF Ledger!Accumulators
  <2> QED
    BY <1>3, <2>1, <2>3, <2>4
<1>4. CASE e.type \notin {"goal_focused", "goal_unfocused"} \cup Ledger!Audits
                         \cup {"goal_created", "goal_paused", "goal_resumed", "goal_completed"}
  BY <1>4, ApplyCases
<1> QED
  BY <1>1, <1>2, <1>3, <1>4

-----------------------------------------------------------------------------
(* Checkpoints that say what some events say.                                *)

\* A checkpoint of these events, and of their bytes.
Exact(s) == Fed(Ledger!Blank, s)

\* The goal in focus is one that the events name.
NamedIn(goal, s) == goal = None \/ \E n \in DOMAIN s : s[n].goal = goal

Agrees(cp, s) ==
  cp \in Ledger!Checkpoints /\ NamedIn(cp.acc.focused, s)
    /\ Ledger!Settled(cp) = Ledger!Settled(Exact(s))

LEMMA SettledSame ==
    ASSUME NEW c \in Ledger!Checkpoints, NEW d \in Ledger!Checkpoints
    PROVE  /\ Ledger!Settled(c) = Ledger!Settled(d) <=>
                /\ c.coveredBytes = d.coveredBytes /\ c.coveredEvents = d.coveredEvents
                /\ c.runtimeIndex = d.runtimeIndex /\ Twins(c.acc, d.acc)
                /\ Final(c.acc.focused, c.acc.status) = Final(d.acc.focused, d.acc.status)
           /\ Ledger!Settled(c) \in Ledger!Checkpoints
           /\ Ledger!Settled(Ledger!Settled(c)) = Ledger!Settled(c)
           /\ Ledger!Settled(c).acc.focused \in {c.acc.focused, None}
<1> DEFINE x == Ledger!finalizeLedgerState(c.acc)
           y == Ledger!finalizeLedgerState(d.acc)
<1>1. /\ c.acc \in Ledger!Accumulators /\ d.acc \in Ledger!Accumulators
      /\ c.coveredBytes \in Nat /\ c.coveredEvents \in Nat
      /\ c.runtimeIndex \in [Goals -> Ledger!Indexes]
      /\ c = [coveredBytes |-> c.coveredBytes, coveredEvents |-> c.coveredEvents,
              acc |-> c.acc, runtimeIndex |-> c.runtimeIndex]
      /\ d = [coveredBytes |-> d.coveredBytes, coveredEvents |-> d.coveredEvents,
              acc |-> d.acc, runtimeIndex |-> d.runtimeIndex]
  BY DEF Ledger!Checkpoints
<1>2. /\ x \in Ledger!Accumulators /\ x.focused \in {c.acc.focused, None}
      /\ Ledger!finalizeLedgerState(x) = x
      /\ x = y <=> /\ Twins(c.acc, d.acc)
                   /\ Final(c.acc.focused, c.acc.status) = Final(d.acc.focused, d.acc.status)
  BY <1>1, FinalTyped, FinalSame DEF Twins
<1>3. Ledger!Settled(c) = [c EXCEPT !.acc = x] /\ Ledger!Settled(d) = [d EXCEPT !.acc = y]
  BY <1>1 DEF Ledger!Settled
<1> HIDE DEF x, y
<1>4. /\ Ledger!Settled(c) = [coveredBytes |-> c.coveredBytes, coveredEvents |-> c.coveredEvents,
                       acc |-> x, runtimeIndex |-> c.runtimeIndex]
      /\ Ledger!Settled(d) = [coveredBytes |-> d.coveredBytes, coveredEvents |-> d.coveredEvents,
                       acc |-> y, runtimeIndex |-> d.runtimeIndex]
  BY <1>1, <1>3
<1>5. Ledger!Settled(c) \in Ledger!Checkpoints /\ Ledger!Settled(c).acc = x
  BY <1>1, <1>2, <1>4 DEF Ledger!Checkpoints
<1>6. Ledger!Settled(Ledger!Settled(c)) = Ledger!Settled(c)
  BY <1>2, <1>4 DEF Ledger!Settled
<1>7. Ledger!Settled(c) = Ledger!Settled(d) <=>
        /\ c.coveredBytes = d.coveredBytes /\ c.coveredEvents = d.coveredEvents
        /\ c.runtimeIndex = d.runtimeIndex /\ x = y
  BY <1>4
<1> QED
  BY <1>2, <1>5, <1>6, <1>7

\* Checkpoints that say the same say the same after an event, unless it creates
\* the goal that one of them still has in focus.
LEMMA AppliedSame ==
    ASSUME NEW c \in Ledger!Checkpoints, NEW d \in Ledger!Checkpoints, NEW e \in Ledger!Events,
           Ledger!Settled(c) = Ledger!Settled(d),
           e.type = "goal_created" => c.acc.focused # e.goal /\ d.acc.focused # e.goal
    PROVE  Ledger!Settled(Ledger!Applied(c, e)) = Ledger!Settled(Ledger!Applied(d, e))
<1> DEFINE a == c.acc
           b == d.acc
           p == Ledger!applyLedgerEvent(a, e)
           q == Ledger!applyLedgerEvent(b, e)
<1>1. /\ a \in Ledger!Accumulators /\ b \in Ledger!Accumulators /\ Twins(a, b)
      /\ Final(a.focused, a.status) = Final(b.focused, b.status)
      /\ c.coveredBytes = d.coveredBytes /\ c.coveredEvents = d.coveredEvents
      /\ c.runtimeIndex = d.runtimeIndex
  BY SettledSame DEF Ledger!Checkpoints
<1>2. /\ Ledger!Applied(c, e) \in Ledger!Checkpoints
      /\ Ledger!Applied(d, e) \in Ledger!Checkpoints
      /\ Ledger!Applied(c, e).acc = p /\ Ledger!Applied(d, e).acc = q
      /\ Ledger!Applied(c, e).coveredBytes = Ledger!Applied(d, e).coveredBytes
      /\ Ledger!Applied(c, e).coveredEvents = Ledger!Applied(d, e).coveredEvents
      /\ Ledger!Applied(c, e).runtimeIndex = Ledger!Applied(d, e).runtimeIndex
  BY <1>1, AppliedTyped DEF Ledger!Applied
<1>3. Twins(p, q)
  BY <1>1, ApplyTwins
<1>4. Final(p.focused, p.status) = Final(q.focused, q.status)
  <2>1. CASE e.type \in {"goal_focused", "goal_unfocused"}
    <3>1. p.focused = e.goal /\ q.focused = e.goal
      BY <1>1, <2>1, ApplyMoves
    <3> QED
      BY <1>3, <3>1 DEF Twins
  <2>2. CASE e.type \notin {"goal_focused", "goal_unfocused"}
    <3>1. /\ p.focused = a.focused /\ q.focused = b.focused
          /\ \A g \in Goals : p.status[g] \in {"active", "paused"} =>
               \/ a.status[g] \in {"active", "paused"}
               \/ e.type = "goal_created" /\ e.goal = g
      BY <1>1, <2>2, ApplyMoves
    <3>2. p.status = q.status /\ a.status = b.status
      BY <1>1, <1>3 DEF Twins
    <3>3. a.focused \in Goals \cup {None} /\ b.focused \in Goals \cup {None}
      BY <1>1 DEF Ledger!Accumulators
    <3> HIDE DEF a, b, p, q
    <3>4. CASE a.focused = b.focused
      BY <3>1, <3>2, <3>4
    <3>5. CASE a.focused # b.focused
      <4>1. /\ a.focused = None \/ a.status[a.focused] \notin {"active", "paused"}
            /\ b.focused = None \/ a.status[b.focused] \notin {"active", "paused"}
        BY <1>1, <3>2, <3>5 DEF Final
      <4>2. /\ a.focused = None \/ p.status[a.focused] \notin {"active", "paused"}
            /\ b.focused = None \/ p.status[b.focused] \notin {"active", "paused"}
        BY <3>1, <3>3, <4>1 DEF a, b
      <4> QED
        BY <3>1, <3>2, <4>2 DEF Final
    <3> QED
      BY <3>4, <3>5
  <2> QED
    BY <2>1, <2>2
<1> QED
  BY <1>2, <1>3, <1>4, SettledSame

LEMMA NamedGrows ==
    ASSUME NEW s \in Seq(Ledger!Events), NEW e \in Ledger!Events, NEW g,
           NamedIn(g, s) \/ g = e.goal
    PROVE  NamedIn(g, Append(s, e))
<1>1. /\ DOMAIN Append(s, e) = 1..Len(s) + 1 /\ DOMAIN s = 1..Len(s) /\ Len(s) \in Nat
      /\ Append(s, e)[Len(s) + 1] = e
      /\ \A n \in 1..Len(s) : Append(s, e)[n] = s[n]
  OBVIOUS
<1>2. Len(s) + 1 \in 1..Len(s) + 1 /\ \A n \in 1..Len(s) : n \in 1..Len(s) + 1
  BY <1>1
<1> QED
  BY <1>1, <1>2 DEF NamedIn

LEMMA AppliedNamed ==
    ASSUME NEW s \in Seq(Ledger!Events), NEW e \in Ledger!Events, NEW cp \in Ledger!Checkpoints,
           NamedIn(cp.acc.focused, s)
    PROVE  NamedIn(Ledger!Applied(cp, e).acc.focused, Append(s, e))
<1>1. cp.acc \in Ledger!Accumulators
  BY DEF Ledger!Checkpoints
<1>2. Ledger!Applied(cp, e).acc.focused \in {cp.acc.focused, e.goal}
  BY <1>1, ApplyTyped DEF Ledger!Applied
<1> QED
  BY <1>2, NamedGrows

LEMMA ExactSound ==
    ASSUME Ledger!LedgerAssumption, NEW s \in Seq(Ledger!Events)
    PROVE  /\ Exact(s) \in Ledger!Checkpoints /\ NamedIn(Exact(s).acc.focused, s)
           /\ Exact(s).coveredBytes = Ledger!Bytes(s) /\ Exact(s).coveredEvents = Len(s)
<1> DEFINE P(r) == /\ Exact(r) \in Ledger!Checkpoints /\ NamedIn(Exact(r).acc.focused, r)
                   /\ Exact(r).coveredBytes = Ledger!Bytes(r) /\ Exact(r).coveredEvents = Len(r)
           S == {k \in 0..Len(s) : ~P(SubSeq(s, 1, k))}
<1>1. CASE S = {}
  <2>1. P(SubSeq(s, 1, Len(s)))
    BY <1>1
  <2> HIDE DEF P
  <2>2. P(s)
    BY <2>1, Whole
  <2> QED
    BY <2>2 DEF P
<1>2. CASE S # {}
  <2>1. PICK k \in S : \A m \in S : k <= m
    <3>1. S \in SUBSET Nat
      OBVIOUS
    <3> HIDE DEF S
    <3> QED
      BY <1>2, <3>1, Least
  <2>2. k # 0
    <3>1. Exact(<<>>) = Ledger!Blank
      BY FedEmpty DEF Exact
    <3>4. /\ Ledger!Blank.coveredBytes = 0 /\ Ledger!Blank.coveredEvents = 0
          /\ Ledger!Blank.acc.focused = None
      BY DEF Ledger!Blank, Ledger!freshAccumulator
    <3>5. NamedIn(Exact(<<>>).acc.focused, <<>>)
      BY <3>1, <3>4 DEF NamedIn
    <3>6. Len(<<>>) = 0
      OBVIOUS
    <3>2. P(<<>>)
      BY <3>1, <3>4, <3>5, <3>6, BlankTyped, BytesEmpty
    <3> HIDE DEF P
    <3>3. P(SubSeq(s, 1, 0))
      BY <3>2, Whole
    <3> QED
      BY <2>1, <3>3
  <2>3. k \in 1..Len(s) /\ k - 1 \in 0..Len(s) /\ k - 1 \notin S
    BY <2>1, <2>2
  <2> DEFINE u == SubSeq(s, 1, k - 1)
  <2>4. P(u)
    BY <2>3
  <2>5. SubSeq(s, 1, k) = Append(u, s[k]) /\ u \in Seq(Ledger!Events) /\ s[k] \in Ledger!Events
    BY <2>3, OneMore
  <2> HIDE DEF u
  <2>6. Exact(Append(u, s[k])) = Ledger!Applied(Exact(u), s[k])
    BY <2>5, FedAppend DEF Exact
  <2>7. NamedIn(Exact(Append(u, s[k])).acc.focused, Append(u, s[k]))
    BY <2>4, <2>5, <2>6, AppliedNamed
  <2>8. Exact(Append(u, s[k])) \in Ledger!Checkpoints
    BY <2>4, <2>5, <2>6, AppliedTyped
  <2>9. /\ Exact(Append(u, s[k])).coveredBytes = Ledger!Bytes(u) + s[k].size
        /\ Exact(Append(u, s[k])).coveredEvents = Len(u) + 1
    BY <2>4, <2>6 DEF Ledger!Applied
  <2>10. Ledger!Bytes(Append(u, s[k])) = Ledger!Bytes(u) + s[k].size
           /\ Len(Append(u, s[k])) = Len(u) + 1
    BY <2>5, BytesAppend
  <2>11. P(Append(u, s[k]))
    BY <2>7, <2>8, <2>9, <2>10
  <2> HIDE DEF P
  <2>12. P(SubSeq(s, 1, k))
    BY <2>5, <2>11
  <2> QED
    BY <2>1, <2>12
<1> QED
  BY <1>1, <1>2

LEMMA ExactAgrees ==
    ASSUME Ledger!LedgerAssumption, NEW s \in Seq(Ledger!Events)
    PROVE  Agrees(Exact(s), s)
BY ExactSound DEF Agrees

LEMMA BuiltIs ==
    ASSUME Ledger!LedgerAssumption, NEW s \in Seq(Ledger!Events)
    PROVE  Ledger!buildCheckpointFromEvents(s, Ledger!Bytes(s)) = Exact(s)
<1>1. Exact(s) \in Ledger!Checkpoints /\ Exact(s).coveredBytes = Ledger!Bytes(s)
  BY ExactSound
<1>2. [Exact(s) EXCEPT !.coveredBytes = Ledger!Bytes(s)] = Exact(s)
  BY <1>1 DEF Ledger!Checkpoints
<1> QED
  BY <1>2 DEF Exact, Fed, Ledger!buildCheckpointFromEvents

\* An event that creates no goal named before keeps a checkpoint exact.
LEMMA AgreesStep ==
    ASSUME Ledger!LedgerAssumption, NEW s \in Seq(Ledger!Events), NEW e \in Ledger!Events,
           NEW cp, Agrees(cp, s),
           e.type = "goal_created" => \A n \in DOMAIN s : s[n].goal # e.goal
    PROVE  Agrees(Ledger!Applied(cp, e), Append(s, e))
<1>1. cp \in Ledger!Checkpoints /\ NamedIn(cp.acc.focused, s)
        /\ Ledger!Settled(cp) = Ledger!Settled(Exact(s))
  BY DEF Agrees
<1>2. Exact(s) \in Ledger!Checkpoints /\ NamedIn(Exact(s).acc.focused, s)
  BY ExactSound
<1>3. e.type = "goal_created" => cp.acc.focused # e.goal /\ Exact(s).acc.focused # e.goal
  <2>1. e.type = "goal_created" => e.goal # None
    BY HasGoal DEF Ledger!LedgerAssumption
  <2> QED
    BY <1>1, <1>2, <2>1 DEF NamedIn
<1>4. Ledger!Settled(Ledger!Applied(cp, e)) = Ledger!Settled(Ledger!Applied(Exact(s), e))
  BY <1>1, <1>2, <1>3, AppliedSame
<1>5. Exact(Append(s, e)) = Ledger!Applied(Exact(s), e)
  BY FedAppend DEF Exact
<1> QED
  BY <1>1, <1>4, <1>5, AppliedTyped, AppliedNamed DEF Agrees

\* So does any run of events in a file whose goals are new when they are created.
LEMMA AgreesAlong ==
    ASSUME Ledger!LedgerAssumption, NEW s \in Seq(Ledger!Events), Ledger!NewIds(s),
           NEW k \in 0..Len(s), NEW cp,
           Agrees(cp, SubSeq(s, 1, k))
    PROVE  Agrees(Fed(cp, SubSeq(s, k + 1, Len(s))), s)
<1> DEFINE P(m) == Agrees(Fed(cp, SubSeq(s, k + 1, m)), SubSeq(s, 1, m))
           S == {m \in k..Len(s) : ~P(m)}
<1>1. CASE S = {}
  <2>1. P(Len(s))
    BY <1>1
  <2> QED
    BY <2>1, Whole
<1>2. CASE S # {}
  <2>1. PICK m \in S : \A j \in S : m <= j
    <3>1. S \in SUBSET Nat
      OBVIOUS
    <3> HIDE DEF S
    <3> QED
      BY <1>2, <3>1, Least
  <2>2. m # k
    <3>1. SubSeq(s, k + 1, k) = <<>>
      BY SubSeqEmpty
    <3>2. Fed(cp, SubSeq(s, k + 1, k)) = cp
      BY <3>1, FedEmpty
    <3>3. P(k)
      BY <3>2
    <3> QED
      BY <2>1, <3>3
  <2>3. m \in 1..Len(s) /\ m \in k + 1..Len(s) /\ m - 1 \in k..Len(s) /\ m - 1 \notin S
    BY <2>1, <2>2
  <2> DEFINE u == SubSeq(s, 1, m - 1)
             v == SubSeq(s, k + 1, m - 1)
  <2>4. Agrees(Fed(cp, v), u)
    BY <2>3
  <2>5. /\ SubSeq(s, 1, m) = Append(u, s[m]) /\ u \in Seq(Ledger!Events) /\ s[m] \in Ledger!Events
        /\ SubSeq(s, k + 1, m) = Append(v, s[m]) /\ v \in Seq(Ledger!Events)
    <3>1. k + 1 \in Nat \ {0} /\ 1 \in Nat \ {0}
      OBVIOUS
    <3> QED
      BY <2>3, <3>1, OneMore
  <2>6. s[m].type = "goal_created" => \A n \in DOMAIN u : u[n].goal # s[m].goal
    <3>1. m \in DOMAIN s
      BY <2>3
    <3>2. s[m].type = "goal_created" => \A n \in 1..m - 1 : s[n].goal # s[m].goal
      BY <3>1 DEF Ledger!NewIds
    <3>3. DOMAIN u = 1..m - 1 /\ \A n \in 1..m - 1 : u[n] = s[n]
      <4>1. 1 \in Int /\ m - 1 \in Int /\ \A n \in 1..m - 1 : s[n] \in Ledger!Events
        BY <2>3
      <4>2. /\ Len(u) = IF 1 <= m - 1 THEN m - 1 - 1 + 1 ELSE 0
            /\ \A n \in 1..m - 1 - 1 + 1 : u[n] = s[1 + n - 1]
        BY <4>1, SubSeqProperties
      <4>3. DOMAIN u = 1..Len(u)
        BY <2>5
      <4> QED
        BY <2>3, <4>2, <4>3
    <3> QED
      BY <3>2, <3>3
  <2> HIDE DEF u, v
  <2>7. Agrees(Ledger!Applied(Fed(cp, v), s[m]), Append(u, s[m]))
    BY <2>4, <2>5, <2>6, AgreesStep
  <2>8. Fed(cp, Append(v, s[m])) = Ledger!Applied(Fed(cp, v), s[m])
    BY <2>5, FedAppend
  <2>9. P(m)
    BY <2>5, <2>7, <2>8
  <2> QED
    BY <2>1, <2>9
<1> QED
  BY <1>1, <1>2

\* Settling a checkpoint keeps it exact, and it covers the bytes of its events.
LEMMA AgreesSettled ==
    ASSUME Ledger!LedgerAssumption, NEW s \in Seq(Ledger!Events), NEW cp, Agrees(cp, s)
    PROVE  /\ Agrees(Ledger!Settled(cp), s) /\ cp.coveredBytes = Ledger!Bytes(s)
           /\ cp.coveredEvents = Len(s)
           /\ [cp EXCEPT !.coveredBytes = Ledger!Bytes(s),
                  !.acc = Ledger!finalizeLedgerState(@)] = Ledger!Settled(cp)
<1>1. cp \in Ledger!Checkpoints /\ NamedIn(cp.acc.focused, s)
        /\ Ledger!Settled(cp) = Ledger!Settled(Exact(s))
  BY DEF Agrees
<1>2. /\ Exact(s) \in Ledger!Checkpoints /\ Exact(s).coveredBytes = Ledger!Bytes(s)
      /\ Exact(s).coveredEvents = Len(s)
  BY ExactSound
<1>3. cp.coveredBytes = Ledger!Bytes(s) /\ cp.coveredEvents = Len(s)
  BY <1>1, <1>2, SettledSame
<1>4. [cp EXCEPT !.coveredBytes = Ledger!Bytes(s), !.acc = Ledger!finalizeLedgerState(@)]
        = Ledger!Settled(cp)
  BY <1>1, <1>3 DEF Ledger!Settled, Ledger!Checkpoints
<1>5. /\ Ledger!Settled(cp) \in Ledger!Checkpoints
      /\ Ledger!Settled(Ledger!Settled(cp)) = Ledger!Settled(cp)
      /\ Ledger!Settled(cp).acc.focused \in {cp.acc.focused, None}
  BY <1>1, SettledSame
<1>6. NamedIn(Ledger!Settled(cp).acc.focused, s)
  BY <1>1, <1>5 DEF NamedIn
<1> QED
  BY <1>1, <1>3, <1>4, <1>5, <1>6 DEF Agrees

-----------------------------------------------------------------------------
(* Types.                                                                    *)

LEMMA FedTyped ==
    ASSUME NEW cp \in Ledger!Checkpoints, NEW s \in Seq(Ledger!Events)
    PROVE  Fed(cp, s) \in Ledger!Checkpoints
<1> DEFINE P(k) == Fed(cp, SubSeq(s, 1, k)) \in Ledger!Checkpoints
           S == {k \in 0..Len(s) : ~P(k)}
<1>1. CASE S = {}
  <2>1. P(Len(s))
    BY <1>1
  <2> QED
    BY <2>1, Whole
<1>2. CASE S # {}
  <2>1. PICK k \in S : \A m \in S : k <= m
    <3>1. S \in SUBSET Nat
      OBVIOUS
    <3> HIDE DEF S
    <3> QED
      BY <1>2, <3>1, Least
  <2>2. k # 0
    <3>1. Fed(cp, SubSeq(s, 1, 0)) = cp
      BY Whole, FedEmpty
    <3>2. P(0)
      BY <3>1
    <3> QED
      BY <2>1, <3>2
  <2>3. k \in 1..Len(s) /\ k - 1 \in 0..Len(s) /\ k - 1 \notin S
    BY <2>1, <2>2
  <2> DEFINE u == SubSeq(s, 1, k - 1)
  <2>4. Fed(cp, u) \in Ledger!Checkpoints
    BY <2>3
  <2>5. SubSeq(s, 1, k) = Append(u, s[k]) /\ u \in Seq(Ledger!Events) /\ s[k] \in Ledger!Events
    BY <2>3, OneMore
  <2> HIDE DEF u
  <2>6. Fed(cp, Append(u, s[k])) \in Ledger!Checkpoints
    BY <2>4, <2>5, FedAppend, AppliedTyped
  <2>7. P(k)
    BY <2>5, <2>6
  <2> QED
    BY <2>1, <2>7
<1> QED
  BY <1>1, <1>2

LEMMA BuiltTyped ==
    ASSUME Ledger!LedgerAssumption, NEW s \in Seq(Ledger!Events), NEW size \in Nat
    PROVE  Ledger!buildCheckpointFromEvents(s, size) \in Ledger!Checkpoints
<1>1. Fed(Ledger!Blank, s) \in Ledger!Checkpoints
  BY BlankTyped, FedTyped
<1> QED
  BY <1>1 DEF Ledger!buildCheckpointFromEvents, Fed, Ledger!Checkpoints

LEMMA TailTyped ==
    ASSUME ledger \in Seq(Ledger!Events), NEW offset
    PROVE  Ledger!TailFrom(offset) \in Seq(Ledger!Events)
<1> DEFINE whole == {k \in 0..Len(ledger) : Ledger!Bytes(SubSeq(ledger, 1, k)) >= offset}
           k == CHOOSE i \in whole : \A j \in whole : i <= j
<1>1. CASE whole = {}
  BY <1>1 DEF Ledger!TailFrom
<1>2. CASE whole # {}
  <2>1. PICK n \in whole : \A j \in whole : n <= j
    <3>1. whole \in SUBSET Nat
      OBVIOUS
    <3> HIDE DEF whole
    <3> QED
      BY <1>2, <3>1, Least
  <2>2. k \in whole
    BY <2>1
  <2>3. k \in 0..Len(ledger)
    BY <2>2
  <2>4. Ledger!TailFrom(offset) = SubSeq(ledger, k + 1, Len(ledger))
    BY <1>2 DEF Ledger!TailFrom
  <2> HIDE DEF k
  <2>5. \A i \in k + 1..Len(ledger) : ledger[i] \in Ledger!Events
    BY <2>3
  <2> QED
    BY <2>3, <2>4, <2>5, SubSeqProperties
<1> QED
  BY <1>1, <1>2

LEMMA ReplayedTyped ==
    ASSUME Ledger!LedgerAssumption, ledger \in Seq(Ledger!Events), NEW cp \in Ledger!Checkpoints
    PROVE  Ledger!Replayed(cp) \in Ledger!Checkpoints
<1>1. Fed(cp, Ledger!TailFrom(cp.coveredBytes)) \in Ledger!Checkpoints
        /\ Ledger!Bytes(ledger) \in Nat
  BY TailTyped, FedTyped, BytesNat
<1>2. Fed(cp, Ledger!TailFrom(cp.coveredBytes)).acc \in Ledger!Accumulators
  BY <1>1 DEF Ledger!Checkpoints
<1>3. Ledger!finalizeLedgerState(Fed(cp, Ledger!TailFrom(cp.coveredBytes)).acc)
        \in Ledger!Accumulators
  BY <1>2, FinalTyped
<1> QED
  BY <1>1, <1>3 DEF Ledger!Replayed, Fed, Ledger!Checkpoints

\* What the checkpoint in memory may become, and the file with it.
Wrote(cp) == cp \in Ledger!Checkpoints /\ checkpoint' \in {cp, checkpoint}
  /\ lastWrite' \in Nat \cup {None}

LEMMA WriteTyped ==
    ASSUME NEW cp \in Ledger!Checkpoints, Ledger!writeLedgerCheckpointAtomic(cp)
    PROVE  Wrote(cp)
BY DEF Ledger!writeLedgerCheckpointAtomic, Wrote, Ledger!Checkpoints

LEMMA BlocksTyped ==
    ASSUME Ledger!LedgerAssumption, glInst \in LedgerInstances
    PROVE  glInst.blocks \subseteq Seq(Ledger!Events)
BY DEF Ledger!LedgerAssumption

LEMMA LoadTyped ==
    ASSUME Ledger!LedgerAssumption, Ledger!GLTypeOK, Ledger!loadLedgerState
    PROVE  /\ checkpointCache' \in Ledger!Checkpoints
           /\ checkpoint' \in {checkpointCache', checkpoint}
           /\ lastWrite' \in Nat \cup {None}
<1>1. /\ ledger \in Seq(Ledger!Events) /\ Ledger!Bytes(ledger) \in Nat
      /\ checkpoint \in Ledger!Checkpoints \cup {None}
      /\ checkpointCache \in Ledger!Checkpoints \cup {None, Unread}
      /\ ledgerCache \in Ledger!Caches \cup {None} /\ lastWrite \in Nat \cup {None}
  BY BytesNat DEF Ledger!GLTypeOK
<1> DEFINE cp == Ledger!readLedgerCheckpointFile
           size == Ledger!Bytes(ledger)
<1>2. cp \in Ledger!Checkpoints \cup {None}
  BY <1>1 DEF Ledger!readLedgerCheckpointFile
<1> HIDE DEF cp
<1>3. CASE ledgerCache # None
  <2>1. ledgerCache.events \in Seq(Ledger!Events) /\ ledgerCache.size \in Nat
    BY <1>1, <1>3 DEF Ledger!Caches
  <2>2. Ledger!buildCheckpointFromEvents(ledgerCache.events, ledgerCache.size)
          \in Ledger!Checkpoints
    BY <2>1, BuiltTyped
  <2>3. /\ \/ checkpointCache \notin {Unread, None} /\ checkpointCache' = checkpointCache
           \/ checkpointCache' =
                Ledger!buildCheckpointFromEvents(ledgerCache.events, ledgerCache.size)
        /\ UNCHANGED <<checkpoint, lastWrite>>
    BY <1>3 DEF Ledger!loadLedgerState
  <2> QED
    BY <1>1, <2>2, <2>3
<1>4. CASE ledgerCache = None /\ cp # None /\ cp.coveredBytes = size
  <2>1. checkpointCache' = cp /\ UNCHANGED <<checkpoint, lastWrite>>
    BY <1>1, <1>2, <1>4 DEF Ledger!loadLedgerState, cp, Ledger!Checkpoints
  <2> QED
    BY <1>1, <1>2, <1>4, <2>1
<1>5. CASE ledgerCache = None /\ cp # None /\ cp.coveredBytes < size
  <2>1. checkpointCache' = Ledger!Replayed(cp)
          /\ Ledger!writeLedgerCheckpointAtomic(Ledger!Replayed(cp))
    BY <1>1, <1>2, <1>5 DEF Ledger!loadLedgerState, cp, Ledger!Checkpoints
  <2>2. Ledger!Replayed(cp) \in Ledger!Checkpoints
    BY <1>1, <1>2, <1>5, ReplayedTyped
  <2> QED
    BY <2>1, <2>2, WriteTyped DEF Wrote
<1>6. CASE ledgerCache = None /\ (cp # None => cp.coveredBytes > size)
  <2>1. /\ checkpointCache' = Ledger!buildCheckpointFromEvents(ledger, size)
        /\ Ledger!writeLedgerCheckpointAtomic(Ledger!buildCheckpointFromEvents(ledger, size))
    BY <1>1, <1>2, <1>6 DEF Ledger!loadLedgerState, cp, Ledger!Checkpoints
  <2>2. Ledger!buildCheckpointFromEvents(ledger, size) \in Ledger!Checkpoints
    BY <1>1, BuiltTyped
  <2> QED
    BY <2>1, <2>2, WriteTyped DEF Wrote
<1>7. cp # None => cp.coveredBytes \in Nat
  BY <1>2 DEF Ledger!Checkpoints
<1> QED
  BY <1>1, <1>3, <1>4, <1>5, <1>6, <1>7

-----------------------------------------------------------------------------
(* What follows a prefix agrees with its events, whichever state it is of.   *)

FollowsIn(s, cp, k) ==
  /\ Ledger!Settled(cp)
       = Ledger!Settled(Ledger!buildCheckpointFromEvents(SubSeq(s, 1, k),
           Ledger!Bytes(SubSeq(s, 1, k))))
  /\ cp.acc.focused = None \/ \E n \in 1..k : s[n].goal = cp.acc.focused

LEMMA PrefixIs ==
    ASSUME NEW s \in Seq(Ledger!Events), NEW k \in 0..Len(s)
    PROVE  /\ SubSeq(s, 1, k) \in Seq(Ledger!Events) /\ Len(SubSeq(s, 1, k)) = k
           /\ DOMAIN SubSeq(s, 1, k) = 1..k
           /\ \A n \in 1..k : SubSeq(s, 1, k)[n] = s[n]
<1>1. /\ 1 \in Int /\ k \in Int /\ k \in Nat /\ k <= Len(s) /\ Len(s) \in Nat
      /\ \A n \in 1..k : n \in 1..Len(s) /\ s[n] \in Ledger!Events
  OBVIOUS
<1>2. /\ SubSeq(s, 1, k) \in Seq(Ledger!Events)
      /\ Len(SubSeq(s, 1, k)) = IF 1 <= k THEN k - 1 + 1 ELSE 0
      /\ \A n \in 1..k - 1 + 1 : SubSeq(s, 1, k)[n] = s[1 + n - 1]
  BY <1>1, SubSeqProperties
<1>3. DOMAIN SubSeq(s, 1, k) = 1..Len(SubSeq(s, 1, k))
  BY <1>2
<1> QED
  BY <1>1, <1>2, <1>3

LEMMA FollowsAgrees ==
    ASSUME Ledger!LedgerAssumption, NEW s \in Seq(Ledger!Events), NEW k \in 0..Len(s),
           NEW cp \in Ledger!Checkpoints
    PROVE  FollowsIn(s, cp, k) <=> Agrees(cp, SubSeq(s, 1, k))
<1> DEFINE u == SubSeq(s, 1, k)
<1>1. u \in Seq(Ledger!Events) /\ DOMAIN u = 1..k /\ \A n \in 1..k : u[n] = s[n]
  BY PrefixIs
<1>2. (cp.acc.focused = None \/ \E n \in 1..k : s[n].goal = cp.acc.focused)
        <=> NamedIn(cp.acc.focused, u)
  BY <1>1 DEF NamedIn
<1> HIDE DEF u
<1>3. Ledger!buildCheckpointFromEvents(u, Ledger!Bytes(u)) = Exact(u)
  BY <1>1, BuiltIs
<1> QED
  BY <1>2, <1>3 DEF FollowsIn, Agrees, u

LEMMA FollowsIs ==
    ASSUME NEW cp, NEW k
    PROVE  Ledger!Follows(cp, k) <=> FollowsIn(ledger, cp, k)
BY DEF Ledger!Follows, FollowsIn, Ledger!Covers, Ledger!Named, Ledger!Prefix

LEMMA FollowsWill ==
    ASSUME NEW cp, NEW k
    PROVE  Ledger!Follows(cp, k)' <=> FollowsIn(ledger', cp', k')
BY DEF Ledger!Follows, FollowsIn, Ledger!Covers, Ledger!Named, Ledger!Prefix

-----------------------------------------------------------------------------
(* The invariant, of the parts of a state.                                   *)

LedgerKeptAt(s, rec, ready, cp, cc) ==
  /\ Len(s) - Len(rec) \in Nat /\ rec = SubSeq(s, Len(s) - Len(rec) + 1, Len(s))
  /\ rec # <<>> => ready
  /\ cp # None => \E k \in 0..Len(s) : FollowsIn(s, cp, k)
  /\ IF ready THEN cc \in Ledger!Checkpoints /\ FollowsIn(s, cc, Len(s) - Len(rec))
       ELSE cc = Unread

LEMMA InvIs ==
    Ledger!LedgerInv <=>
      /\ Ledger!GLTypeOK /\ Ledger!NewIds(ledger)
      /\ ledgerCache # None => ledgerCache = Ledger!WholeFile
      /\ glInst.readsFirst
           => LedgerKeptAt(ledger, recording, runtimeReady, checkpoint, checkpointCache)
BY DEF Ledger!LedgerInv, LedgerKeptAt, Ledger!Recorded, Ledger!Follows, FollowsIn,
   Ledger!Covers, Ledger!Named, Ledger!Prefix

LEMMA InvWill ==
    Ledger!LedgerInv' <=>
      /\ Ledger!GLTypeOK' /\ Ledger!NewIds(ledger')
      /\ ledgerCache' # None => ledgerCache' = Ledger!WholeFile'
      /\ glInst'.readsFirst =>
           LedgerKeptAt(ledger', recording', runtimeReady', checkpoint', checkpointCache')
BY DEF Ledger!LedgerInv, LedgerKeptAt, Ledger!Recorded, Ledger!Follows, FollowsIn,
   Ledger!Covers, Ledger!Named, Ledger!Prefix, Ledger!NewIds

\* A longer file has the same prefixes.
LEMMA FollowsOn ==
    ASSUME NEW s \in Seq(Ledger!Events), NEW r \in Seq(Ledger!Events), NEW k \in 0..Len(s),
           NEW cp,
           FollowsIn(s, cp, k)
    PROVE  FollowsIn(s \o r, cp, k) /\ k \in 0..Len(s \o r)
<1> DEFINE t == s \o r
<1>1. /\ t \in Seq(Ledger!Events) /\ Len(t) = Len(s) + Len(r) /\ Len(r) \in Nat /\ Len(s) \in Nat
      /\ \A n \in 1..Len(s) : t[n] = s[n]
  OBVIOUS
<1> HIDE DEF t
<1>2. k \in 0..Len(t) /\ \A n \in 1..k : t[n] = s[n]
  BY <1>1
<1>3. /\ SubSeq(t, 1, k) \in Seq(Ledger!Events) /\ Len(SubSeq(t, 1, k)) = k
      /\ \A n \in 1..k : SubSeq(t, 1, k)[n] = t[n]
  BY <1>1, <1>2, PrefixIs
<1>4. /\ SubSeq(s, 1, k) \in Seq(Ledger!Events) /\ Len(SubSeq(s, 1, k)) = k
      /\ \A n \in 1..k : SubSeq(s, 1, k)[n] = s[n]
  BY PrefixIs
<1>5. SubSeq(t, 1, k) = SubSeq(s, 1, k)
  BY <1>2, <1>3, <1>4, SeqEqual
<1>6. FollowsIn(t, cp, k)
  BY <1>2, <1>5 DEF FollowsIn
<1> QED
  BY <1>2, <1>6 DEF t

\* Bytes tell the prefixes of a file apart.
LEMMA BytesTell ==
    ASSUME NEW s \in Seq(Ledger!Events), NEW k \in 0..Len(s),
           Ledger!Bytes(SubSeq(s, 1, k)) = Ledger!Bytes(s)
    PROVE  k = Len(s)
<1>1. Len(s) \in 0..Len(s) /\ SubSeq(s, 1, Len(s)) = s
  BY Whole
<1>2. k < Len(s) => Ledger!Bytes(SubSeq(s, 1, k)) < Ledger!Bytes(s)
  BY <1>1, BytesGrow
<1>3. Ledger!Bytes(s) \in Nat
  BY BytesNat
<1> QED
  BY <1>2, <1>3

LEMMA NothingRecorded ==
    ASSUME NEW s \in Seq(Ledger!Events), NEW ready, NEW cp, NEW cc,
           cp # None => \E k \in 0..Len(s) : FollowsIn(s, cp, k),
           IF ready THEN cc \in Ledger!Checkpoints /\ FollowsIn(s, cc, Len(s)) ELSE cc = Unread
    PROVE  LedgerKeptAt(s, <<>>, ready, cp, cc)
<1>1. Len(s) \in Nat /\ Len(<<>>) = 0 /\ SubSeq(s, Len(s) + 1, Len(s)) = <<>>
  BY SubSeqEmpty
<1>2. Len(s) - Len(<<>>) = Len(s) /\ Len(s) - Len(<<>>) + 1 = Len(s) + 1
  BY <1>1
<1> QED
  BY <1>1, <1>2 DEF LedgerKeptAt

LEMMA AllFollows ==
    ASSUME Ledger!LedgerAssumption, NEW s \in Seq(Ledger!Events), NEW cp, Agrees(cp, s)
    PROVE  cp \in Ledger!Checkpoints /\ FollowsIn(s, cp, Len(s))
<1>1. Len(s) \in 0..Len(s) /\ SubSeq(s, 1, Len(s)) = s /\ cp \in Ledger!Checkpoints
  BY Whole DEF Agrees
<1> QED
  BY <1>1, FollowsAgrees

-----------------------------------------------------------------------------
(* The steps.  Each keeps the types, the cache of all events, and, in a      *)
(* session that reads first, the checkpoints.                                *)

LEMMA StartTyped ==
    ASSUME Ledger!LedgerAssumption, Ledger!GLInit
    PROVE  Ledger!LedgerInv
<1>1. Ledger!GLTypeOK
  <2>1. /\ glInst \in LedgerInstances /\ ledger = <<>> /\ recording = <<>> /\ checkpoint = None
        /\ checkpointCache = Unread /\ ledgerCache = None /\ runtimeReady = FALSE
        /\ lastWrite = None
    BY DEF Ledger!GLInit
  <2>2. ledger \in Seq(Ledger!Events) /\ Len(ledger) = 0
    BY <2>1
  <2>3. glInst.lines \in Nat
    BY <2>1 DEF Ledger!LedgerAssumption
  <2>4. Len(ledger) <= glInst.lines
    BY <2>2, <2>3
  <2>5. recording \in glInst.blocks \cup {<<>>}
    BY <2>1, Zenon
  <2> QED
    BY <2>1, <2>2, <2>4, <2>5 DEF Ledger!GLTypeOK
<1>2. ledger = <<>> /\ Len(ledger) = 0 /\ DOMAIN ledger = {}
  BY DEF Ledger!GLInit
<1>3. Ledger!NewIds(ledger)
  BY <1>2 DEF Ledger!NewIds
<1>4. LedgerKeptAt(ledger, <<>>, FALSE, None, Unread)
  BY <1>1, NothingRecorded DEF Ledger!GLTypeOK
<1> QED
  BY <1>1, <1>3, <1>4, InvIs DEF Ledger!GLInit

LEMMA AppendStep ==
    ASSUME Ledger!LedgerAssumption, Ledger!LedgerInv, NEW block \in glInst.blocks,
           Ledger!AppendBlock(block)
    PROVE  Ledger!LedgerInv'
<1>1. /\ Ledger!GLTypeOK /\ Ledger!NewIds(ledger) /\ ledger \in Seq(Ledger!Events)
      /\ glInst \in LedgerInstances
      /\ ledgerCache # None => ledgerCache = Ledger!WholeFile
      /\ glInst.readsFirst
           => LedgerKeptAt(ledger, recording, runtimeReady, checkpoint, checkpointCache)
  BY InvIs DEF Ledger!GLTypeOK
<1>2. block \in Seq(Ledger!Events)
  BY <1>1, BlocksTyped
<1>3. /\ recording = <<>> /\ ledger' = ledger \o block /\ recording' = block
      /\ UNCHANGED <<glInst, checkpoint, checkpointCache, runtimeReady, lastWrite>>
      /\ glInst.readsFirst => runtimeReady
      /\ Len(ledger) + Len(block) <= glInst.lines /\ Ledger!NewIds(ledger \o block)
      /\ ledgerCache' = IF ledgerCache = None THEN None
                        ELSE [size |-> ledgerCache.size + Ledger!Bytes(block),
                              events |-> ledgerCache.events \o block]
  BY DEF Ledger!AppendBlock
<1>4. /\ ledger' \in Seq(Ledger!Events) /\ Len(ledger') = Len(ledger) + Len(block)
      /\ Len(ledger) \in Nat /\ Len(block) \in Nat
  BY <1>1, <1>2, <1>3
<1>5. Ledger!Bytes(ledger') = Ledger!Bytes(ledger) + Ledger!Bytes(block)
        /\ Ledger!Bytes(ledger') \in Nat
  BY <1>1, <1>2, <1>3, <1>4, BytesCat, BytesNat
<1>6. ledgerCache # None => ledgerCache' = [size |-> Ledger!Bytes(ledger'), events |-> ledger']
  <2>1. ledgerCache # None =>
          ledgerCache.size = Ledger!Bytes(ledger) /\ ledgerCache.events = ledger
    BY <1>1 DEF Ledger!WholeFile
  <2>2. ledgerCache # None =>
          ledgerCache' = [size |-> ledgerCache.size + Ledger!Bytes(block),
                          events |-> ledgerCache.events \o block]
    BY <1>3
  <2> QED
    BY <1>3, <1>5, <2>1, <2>2
<1>7. ledgerCache' # None => ledgerCache' = Ledger!WholeFile'
  BY <1>3, <1>6 DEF Ledger!WholeFile
<1>8. ledgerCache' \in Ledger!Caches \cup {None}
  BY <1>3, <1>4, <1>5, <1>6 DEF Ledger!Caches
<1>9. Ledger!GLTypeOK'
  BY <1>1, <1>3, <1>4, <1>8 DEF Ledger!GLTypeOK
<1>10. ASSUME glInst.readsFirst
       PROVE  LedgerKeptAt(ledger', recording', runtimeReady', checkpoint', checkpointCache')
  <2>1. /\ runtimeReady /\ checkpointCache \in Ledger!Checkpoints
        /\ FollowsIn(ledger, checkpointCache, Len(ledger))
        /\ checkpoint # None => \E k \in 0..Len(ledger) : FollowsIn(ledger, checkpoint, k)
    <3>1. Len(ledger) - Len(<<>>) = Len(ledger)
      BY <1>4
    <3> QED
      BY <1>1, <1>3, <1>10, <3>1 DEF LedgerKeptAt
  <2>2. Len(ledger) \in 0..Len(ledger)
    BY <1>4
  <2>3. FollowsIn(ledger', checkpointCache, Len(ledger))
    BY <1>1, <1>2, <1>3, <2>1, <2>2, FollowsOn
  <2>4. checkpoint # None => \E k \in 0..Len(ledger') : FollowsIn(ledger', checkpoint, k)
    BY <1>1, <1>2, <1>3, <2>1, FollowsOn
  <2>5. Len(ledger') - Len(block) = Len(ledger)
    BY <1>4
  <2>6. block = SubSeq(ledger', Len(ledger) + 1, Len(ledger'))
    <3>1. /\ Len(ledger) + 1 \in Int /\ Len(ledger') \in Int
          /\ \A i \in Len(ledger) + 1..Len(ledger') : ledger'[i] \in Ledger!Events
      BY <1>4
    <3>2. /\ SubSeq(ledger', Len(ledger) + 1, Len(ledger')) \in Seq(Ledger!Events)
          /\ Len(SubSeq(ledger', Len(ledger) + 1, Len(ledger'))) = Len(block)
          /\ \A i \in 1..Len(block) :
               SubSeq(ledger', Len(ledger) + 1, Len(ledger'))[i] = ledger'[Len(ledger) + i]
      <4>1. /\ SubSeq(ledger', Len(ledger) + 1, Len(ledger')) \in Seq(Ledger!Events)
            /\ Len(SubSeq(ledger', Len(ledger) + 1, Len(ledger'))) =
                 IF Len(ledger) + 1 <= Len(ledger') THEN Len(ledger') - (Len(ledger) + 1) + 1
                   ELSE 0
            /\ \A i \in 1..Len(ledger') - (Len(ledger) + 1) + 1 :
                 SubSeq(ledger', Len(ledger) + 1, Len(ledger'))[i]
                   = ledger'[Len(ledger) + 1 + i - 1]
        BY <3>1, SubSeqProperties
      <4> QED
        BY <1>4, <4>1
    <3>3. \A i \in 1..Len(block) : ledger'[Len(ledger) + i] = block[i]
      BY <1>1, <1>2, <1>3
    <3> QED
      BY <1>2, <3>2, <3>3, SeqEqual
  <2> QED
    BY <1>3, <1>4, <2>1, <2>3, <2>4, <2>5, <2>6 DEF LedgerKeptAt
<1> QED
  BY <1>3, <1>7, <1>9, <1>10, InvWill

LEMMA RecordingTyped ==
    ASSUME Ledger!LedgerAssumption, Ledger!GLTypeOK
    PROVE  recording \in Seq(Ledger!Events)
<1>1. glInst.blocks \subseteq Seq(Ledger!Events)
  BY BlocksTyped DEF Ledger!GLTypeOK
<1>2. recording \in glInst.blocks \/ recording = <<>>
  BY DEF Ledger!GLTypeOK
<1>3. <<>> \in Seq(Ledger!Events)
  OBVIOUS
<1> QED
  BY <1>1, <1>2, <1>3

LEMMA UpdateTyped ==
    ASSUME Ledger!LedgerAssumption, Ledger!GLTypeOK, Ledger!updateLedgerCheckpointAfterAppend
    PROVE  Ledger!GLTypeOK'
<1>1. /\ ledger \in Seq(Ledger!Events) /\ glInst \in LedgerInstances
      /\ recording \in Seq(Ledger!Events) /\ ledgerCache \in Ledger!Caches \cup {None}
      /\ checkpoint \in Ledger!Checkpoints \cup {None}
      /\ checkpointCache \in Ledger!Checkpoints \cup {None, Unread}
      /\ lastWrite \in Nat \cup {None}
  BY RecordingTyped DEF Ledger!GLTypeOK
<1> DEFINE cp == Ledger!readLedgerCheckpointFile
<1>2. cp \in Ledger!Checkpoints \cup {None}
  BY <1>1 DEF Ledger!readLedgerCheckpointFile
<1> HIDE DEF cp
<1>3. /\ recording' = <<>> /\ UNCHANGED <<glInst, ledger, ledgerCache, runtimeReady>>
      /\ \/ /\ cp = None /\ ledgerCache = None /\ checkpointCache' = None
            /\ UNCHANGED <<checkpoint, lastWrite>>
         \/ /\ cp = None /\ ledgerCache # None
            /\ checkpointCache' =
                 Ledger!buildCheckpointFromEvents(ledgerCache.events, ledgerCache.size)
            /\ Ledger!writeLedgerCheckpointAtomic(
                 Ledger!buildCheckpointFromEvents(ledgerCache.events, ledgerCache.size))
         \/ /\ cp # None /\ checkpointCache' = Ledger!Incremented(cp)
            /\ \/ Ledger!writeLedgerCheckpointAtomic(Ledger!Incremented(cp))
               \/ UNCHANGED <<checkpoint, lastWrite>>
  BY DEF Ledger!updateLedgerCheckpointAfterAppend, cp, Ledger!writeLedgerCheckpointAtomic
<1>4. /\ checkpointCache' \in Ledger!Checkpoints \cup {None}
      /\ checkpoint' \in Ledger!Checkpoints \cup {None} /\ lastWrite' \in Nat \cup {None}
  <2>1. ASSUME cp = None, ledgerCache # None
        PROVE  Ledger!buildCheckpointFromEvents(ledgerCache.events, ledgerCache.size)
                 \in Ledger!Checkpoints
    BY <1>1, <2>1, BuiltTyped DEF Ledger!Caches
  <2>2. cp # None => Ledger!Incremented(cp) \in Ledger!Checkpoints
    BY <1>1, <1>2, FedTyped DEF Ledger!Incremented, Fed
  <2>3. CASE UNCHANGED <<checkpoint, lastWrite>>
    BY <1>1, <1>3, <2>1, <2>2, <2>3
  <2>4. CASE cp = None /\ ledgerCache # None
    <3>1. Wrote(Ledger!buildCheckpointFromEvents(ledgerCache.events, ledgerCache.size))
      BY <1>3, <2>1, <2>4, WriteTyped
    <3> QED
      BY <1>1, <1>3, <2>4, <3>1 DEF Wrote
  <2>5. CASE cp # None /\ Ledger!writeLedgerCheckpointAtomic(Ledger!Incremented(cp))
    <3>1. Wrote(Ledger!Incremented(cp))
      BY <2>2, <2>5, WriteTyped
    <3> QED
      BY <1>1, <1>3, <2>5, <3>1 DEF Wrote
  <2> QED
    BY <1>3, <2>3, <2>4, <2>5
<1> QED
  BY <1>3, <1>4 DEF Ledger!GLTypeOK

LEMMA UpdateStep ==
    ASSUME Ledger!LedgerAssumption, Ledger!LedgerInv, Ledger!updateLedgerCheckpointAfterAppend
    PROVE  Ledger!LedgerInv'
<1>1. /\ Ledger!GLTypeOK /\ Ledger!NewIds(ledger) /\ ledger \in Seq(Ledger!Events)
      /\ ledgerCache # None => ledgerCache = Ledger!WholeFile
      /\ glInst.readsFirst
           => LedgerKeptAt(ledger, recording, runtimeReady, checkpoint, checkpointCache)
  BY InvIs DEF Ledger!GLTypeOK
<1>2. /\ recording # <<>> /\ recording' = <<>>
      /\ UNCHANGED <<glInst, ledger, ledgerCache, runtimeReady>>
  BY DEF Ledger!updateLedgerCheckpointAfterAppend
<1>3. Ledger!GLTypeOK' /\ Ledger!NewIds(ledger')
  BY <1>1, <1>2, UpdateTyped
<1>4. ledgerCache' # None => ledgerCache' = Ledger!WholeFile'
  BY <1>1, <1>2 DEF Ledger!WholeFile
<1>5. ASSUME glInst.readsFirst
      PROVE  LedgerKeptAt(ledger', recording', runtimeReady', checkpoint', checkpointCache')
  <2> DEFINE k == Len(ledger) - Len(recording)
  <2>1. /\ runtimeReady /\ checkpointCache \in Ledger!Checkpoints
        /\ k \in Nat /\ recording = SubSeq(ledger, k + 1, Len(ledger))
        /\ FollowsIn(ledger, checkpointCache, k)
        /\ checkpoint # None => \E j \in 0..Len(ledger) : FollowsIn(ledger, checkpoint, j)
    BY <1>1, <1>2, <1>5 DEF LedgerKeptAt
  <2>2. k \in 0..Len(ledger)
    <3>1. Len(recording) \in Nat /\ Len(ledger) \in Nat
      <4>1. recording \in Seq(Ledger!Events)
        BY <1>1, RecordingTyped
      <4> QED
        BY <1>1, <4>1
    <3> QED
      BY <2>1, <3>1
  <2> HIDE DEF k
  <2>3. Agrees(checkpointCache, SubSeq(ledger, 1, k))
    BY <1>1, <2>1, <2>2, FollowsAgrees
  <2>4. Agrees(Fed(checkpointCache, recording), ledger)
    BY <1>1, <2>1, <2>2, <2>3, AgreesAlong
  <2>5. Ledger!readLedgerCheckpointFile = checkpointCache /\ checkpointCache # None
    BY <2>1 DEF Ledger!readLedgerCheckpointFile, Ledger!LedgerAssumption
  <2>6. checkpointCache' = Ledger!Incremented(checkpointCache)
        /\ checkpoint' \in {Ledger!Incremented(checkpointCache), checkpoint}
    BY <2>5 DEF Ledger!updateLedgerCheckpointAfterAppend, Ledger!writeLedgerCheckpointAtomic
  <2>7. /\ checkpointCache' \in Ledger!Checkpoints
        /\ FollowsIn(ledger, checkpointCache', Len(ledger))
        /\ checkpoint' \in {checkpointCache', checkpoint}
    BY <1>1, <2>4, <2>6, AllFollows DEF Ledger!Incremented, Fed
  <2>8. checkpoint' # None => \E j \in 0..Len(ledger) : FollowsIn(ledger, checkpoint', j)
    <3>1. Len(ledger) \in 0..Len(ledger)
      BY <1>1, Whole
    <3> QED
      BY <2>1, <2>7, <3>1
  <2>9. LedgerKeptAt(ledger, <<>>, TRUE, checkpoint', checkpointCache')
    BY <1>1, <2>7, <2>8, NothingRecorded
  <2> QED
    BY <1>2, <1>3, <2>1, <2>9 DEF Ledger!GLTypeOK
<1> QED
  BY <1>2, <1>3, <1>4, <1>5, InvWill

LEMMA ColdStep ==
    ASSUME Ledger!LedgerAssumption, Ledger!LedgerInv, Ledger!readGoalLedgerCold
    PROVE  Ledger!LedgerInv'
<1>1. /\ Ledger!GLTypeOK /\ Ledger!NewIds(ledger) /\ ledger \in Seq(Ledger!Events)
      /\ glInst.readsFirst
           => LedgerKeptAt(ledger, recording, runtimeReady, checkpoint, checkpointCache)
  BY InvIs DEF Ledger!GLTypeOK
<1>2. /\ ledgerCache' = Ledger!WholeFile
      /\ UNCHANGED <<glInst, ledger, checkpoint, checkpointCache, runtimeReady, lastWrite,
             recording>>
  BY DEF Ledger!readGoalLedgerCold
<1>3. Ledger!WholeFile \in Ledger!Caches /\ Ledger!WholeFile' = Ledger!WholeFile
  BY <1>1, <1>2, BytesNat DEF Ledger!WholeFile, Ledger!Caches
<1>4. Ledger!GLTypeOK'
  BY <1>1, <1>2, <1>3 DEF Ledger!GLTypeOK
<1> QED
  BY <1>1, <1>2, <1>3, <1>4, InvWill

\* A session starts anew: what is cached is nothing, or the whole file.
LEMMA AnewStep ==
    ASSUME Ledger!LedgerAssumption, Ledger!LedgerInv, NEW cache \in {None, Ledger!WholeFile},
           Ledger!invalidateGoalLedgerCache(cache), recording' = <<>>,
           UNCHANGED <<glInst, ledger, checkpoint>>
    PROVE  Ledger!LedgerInv'
<1>1. /\ Ledger!GLTypeOK /\ Ledger!NewIds(ledger) /\ ledger \in Seq(Ledger!Events)
      /\ glInst.readsFirst
           => LedgerKeptAt(ledger, recording, runtimeReady, checkpoint, checkpointCache)
  BY InvIs DEF Ledger!GLTypeOK
<1>2. /\ ledgerCache' = cache /\ checkpointCache' = Unread /\ runtimeReady' = FALSE
      /\ lastWrite' = None
  BY DEF Ledger!invalidateGoalLedgerCache
<1>3. Ledger!WholeFile \in Ledger!Caches /\ Ledger!WholeFile' = Ledger!WholeFile
  BY <1>1, BytesNat DEF Ledger!WholeFile, Ledger!Caches
<1>4. recording' \in glInst.blocks \cup {<<>>}
  BY Zenon
<1>5. Ledger!GLTypeOK'
  BY <1>1, <1>2, <1>3, <1>4 DEF Ledger!GLTypeOK
<1>6. ASSUME glInst.readsFirst
      PROVE  LedgerKeptAt(ledger', recording', runtimeReady', checkpoint', checkpointCache')
  <2>1. checkpoint # None => \E k \in 0..Len(ledger) : FollowsIn(ledger, checkpoint, k)
    BY <1>1, <1>6 DEF LedgerKeptAt
  <2>2. LedgerKeptAt(ledger, <<>>, FALSE, checkpoint, Unread)
    BY <1>1, <2>1, NothingRecorded
  <2> QED
    BY <1>2, <2>2
<1> QED
  BY <1>1, <1>2, <1>3, <1>5, <1>6, InvWill

LEMMA LoseStep ==
    ASSUME Ledger!LedgerAssumption, Ledger!LedgerInv, Ledger!LoseCheckpoint
    PROVE  Ledger!LedgerInv'
<1>1. /\ Ledger!GLTypeOK /\ Ledger!NewIds(ledger)
      /\ ledgerCache # None => ledgerCache = Ledger!WholeFile
      /\ glInst.readsFirst
           => LedgerKeptAt(ledger, recording, runtimeReady, checkpoint, checkpointCache)
  BY InvIs
<1>2. /\ checkpoint' = None
      /\ UNCHANGED <<glInst, ledger, ledgerCache, checkpointCache, runtimeReady, lastWrite,
             recording>>
  BY DEF Ledger!LoseCheckpoint
<1>3. Ledger!GLTypeOK'
  BY <1>1, <1>2 DEF Ledger!GLTypeOK
<1>4. Ledger!WholeFile' = Ledger!WholeFile
  BY <1>2 DEF Ledger!WholeFile
<1>5. glInst.readsFirst =>
        LedgerKeptAt(ledger', recording', runtimeReady', checkpoint', checkpointCache')
  BY <1>1, <1>2 DEF LedgerKeptAt
<1> QED
  BY <1>1, <1>2, <1>3, <1>4, <1>5, InvWill

LEMMA StutterStep ==
    ASSUME Ledger!LedgerInv, UNCHANGED ledgerVars
    PROVE  Ledger!LedgerInv'
<1>1. /\ Ledger!GLTypeOK /\ Ledger!NewIds(ledger)
      /\ ledgerCache # None => ledgerCache = Ledger!WholeFile
      /\ glInst.readsFirst
           => LedgerKeptAt(ledger, recording, runtimeReady, checkpoint, checkpointCache)
  BY InvIs
<1>2. UNCHANGED <<glInst, ledger, checkpoint, ledgerCache, checkpointCache, runtimeReady,
                  lastWrite, recording>>
  BY DEF ledgerVars
<1>3. Ledger!GLTypeOK' /\ Ledger!WholeFile' = Ledger!WholeFile
  BY <1>1, <1>2 DEF Ledger!GLTypeOK, Ledger!WholeFile
<1> QED
  BY <1>1, <1>2, <1>3, InvWill

\* What the first reader loads is what the file says, from wherever it loads it.
LEMMA LoadsCurrent ==
    ASSUME Ledger!LedgerAssumption, Ledger!LedgerInv, glInst.readsFirst, ~runtimeReady,
           recording = <<>>,
           Ledger!loadLedgerState
    PROVE  Agrees(checkpointCache', ledger)
<1>1. /\ Ledger!GLTypeOK /\ Ledger!NewIds(ledger) /\ ledger \in Seq(Ledger!Events)
      /\ checkpoint \in Ledger!Checkpoints \cup {None}
      /\ ledgerCache # None => ledgerCache = Ledger!WholeFile
      /\ LedgerKeptAt(ledger, recording, runtimeReady, checkpoint, checkpointCache)
  BY InvIs DEF Ledger!GLTypeOK
<1>2. /\ checkpointCache = Unread
      /\ checkpoint # None => \E k \in 0..Len(ledger) : FollowsIn(ledger, checkpoint, k)
  BY <1>1 DEF LedgerKeptAt
<1>3. Ledger!readLedgerCheckpointFile = checkpoint
  BY <1>2 DEF Ledger!readLedgerCheckpointFile
<1>4. /\ Ledger!buildCheckpointFromEvents(ledger, Ledger!Bytes(ledger)) = Exact(ledger)
      /\ Agrees(Exact(ledger), ledger)
  BY <1>1, BuiltIs, ExactAgrees
<1>5. checkpoint # None => \E k \in 0..Len(ledger) : Agrees(checkpoint, SubSeq(ledger, 1, k))
  BY <1>1, <1>2, FollowsAgrees
<1>6. CASE ledgerCache # None
  <2>1. ledgerCache.events = ledger /\ ledgerCache.size = Ledger!Bytes(ledger)
    BY <1>1, <1>6 DEF Ledger!WholeFile
  <2>2. checkpointCache' = Ledger!buildCheckpointFromEvents(ledgerCache.events, ledgerCache.size)
    BY <1>2, <1>6 DEF Ledger!loadLedgerState
  <2> QED
    BY <1>4, <2>1, <2>2
<1>7. CASE ledgerCache = None /\ checkpoint # None
        /\ checkpoint.coveredBytes = Ledger!Bytes(ledger)
  <2>1. checkpointCache' = checkpoint
    <3>1. Ledger!Bytes(ledger) \in Nat
      BY <1>1, BytesNat
    <3> QED
      BY <1>3, <1>7, <3>1 DEF Ledger!loadLedgerState
  <2>2. PICK k \in 0..Len(ledger) : Agrees(checkpoint, SubSeq(ledger, 1, k))
    BY <1>5, <1>7
  <2>3. SubSeq(ledger, 1, k) \in Seq(Ledger!Events)
    BY <1>1, PrefixIs
  <2>4. Ledger!Bytes(SubSeq(ledger, 1, k)) = Ledger!Bytes(ledger)
    BY <1>7, <2>2, <2>3, AgreesSettled
  <2>5. k = Len(ledger) /\ SubSeq(ledger, 1, Len(ledger)) = ledger
    BY <1>1, <2>4, BytesTell, Whole
  <2> QED
    BY <2>1, <2>2, <2>5
<1>8. CASE ledgerCache = None /\ checkpoint # None
        /\ checkpoint.coveredBytes < Ledger!Bytes(ledger)
  <2>1. checkpointCache' = Ledger!Replayed(checkpoint)
    <3>1. Ledger!Bytes(ledger) \in Nat /\ checkpoint.coveredBytes \in Nat
      BY <1>1, <1>8, BytesNat DEF Ledger!Checkpoints
    <3> QED
      BY <1>3, <1>8, <3>1 DEF Ledger!loadLedgerState
  <2>2. PICK k \in 0..Len(ledger) : Agrees(checkpoint, SubSeq(ledger, 1, k))
    BY <1>5, <1>8
  <2>3. SubSeq(ledger, 1, k) \in Seq(Ledger!Events)
    BY <1>1, PrefixIs
  <2>4. checkpoint.coveredBytes = Ledger!Bytes(SubSeq(ledger, 1, k))
    BY <2>2, <2>3, AgreesSettled
  <2>5. Ledger!TailFrom(checkpoint.coveredBytes) = SubSeq(ledger, k + 1, Len(ledger))
    BY <1>1, <2>4, TailIs
  <2> DEFINE f == Fed(checkpoint, SubSeq(ledger, k + 1, Len(ledger)))
  <2>6. Agrees(f, ledger)
    BY <1>1, <2>2, AgreesAlong
  <2>7. Ledger!Replayed(checkpoint) =
          [f EXCEPT !.coveredBytes = Ledger!Bytes(ledger), !.acc = Ledger!finalizeLedgerState(@)]
    BY <2>5 DEF Ledger!Replayed, Fed
  <2> HIDE DEF f
  <2>8. Ledger!Replayed(checkpoint) = Ledger!Settled(f) /\ Agrees(Ledger!Settled(f), ledger)
    BY <1>1, <2>6, <2>7, AgreesSettled
  <2> QED
    BY <2>1, <2>8
<1>9. CASE ledgerCache = None
        /\ (checkpoint # None => checkpoint.coveredBytes > Ledger!Bytes(ledger))
  <2>1. checkpointCache' = Ledger!buildCheckpointFromEvents(ledger, Ledger!Bytes(ledger))
    <3>1. Ledger!Bytes(ledger) \in Nat /\ (checkpoint # None => checkpoint.coveredBytes \in Nat)
      BY <1>1, BytesNat DEF Ledger!Checkpoints
    <3> QED
      BY <1>3, <1>9, <3>1 DEF Ledger!loadLedgerState
  <2> QED
    BY <1>4, <2>1
<1>10. Ledger!Bytes(ledger) \in Nat /\ (checkpoint # None => checkpoint.coveredBytes \in Nat)
  BY <1>1, BytesNat DEF Ledger!Checkpoints
<1> QED
  BY <1>6, <1>7, <1>8, <1>9, <1>10

LEMMA IndexStep ==
    ASSUME Ledger!LedgerAssumption, Ledger!LedgerInv, Ledger!runtimeIndex
    PROVE  Ledger!LedgerInv'
<1>1. /\ Ledger!GLTypeOK /\ Ledger!NewIds(ledger) /\ ledger \in Seq(Ledger!Events)
      /\ glInst.readsFirst
           => LedgerKeptAt(ledger, recording, runtimeReady, checkpoint, checkpointCache)
  BY InvIs DEF Ledger!GLTypeOK
<1>2. /\ recording = <<>> /\ ~runtimeReady /\ Ledger!loadLedgerState
      /\ ledgerCache' = None /\ runtimeReady' = TRUE /\ UNCHANGED <<glInst, ledger, recording>>
  BY DEF Ledger!runtimeIndex
<1>3. /\ checkpointCache' \in Ledger!Checkpoints /\ checkpoint' \in {checkpointCache', checkpoint}
      /\ lastWrite' \in Nat \cup {None}
  BY <1>1, <1>2, LoadTyped
<1>4. Ledger!GLTypeOK'
  BY <1>1, <1>2, <1>3 DEF Ledger!GLTypeOK
<1>5. ASSUME glInst.readsFirst
      PROVE  LedgerKeptAt(ledger', recording', runtimeReady', checkpoint', checkpointCache')
  <2>1. Agrees(checkpointCache', ledger)
    BY <1>2, <1>5, LoadsCurrent
  <2>2. FollowsIn(ledger, checkpointCache', Len(ledger))
    BY <1>1, <2>1, AllFollows
  <2>3. checkpoint # None => \E k \in 0..Len(ledger) : FollowsIn(ledger, checkpoint, k)
    BY <1>1, <1>5 DEF LedgerKeptAt
  <2>4. checkpoint' # None => \E k \in 0..Len(ledger) : FollowsIn(ledger, checkpoint', k)
    <3>1. Len(ledger) \in 0..Len(ledger)
      BY <1>1, Whole
    <3> QED
      BY <1>3, <2>2, <2>3, <3>1
  <2>5. LedgerKeptAt(ledger, <<>>, TRUE, checkpoint', checkpointCache')
    BY <1>1, <1>3, <2>2, <2>4, NothingRecorded
  <2> QED
    BY <1>2, <2>5
<1> QED
  BY <1>1, <1>2, <1>4, <1>5, InvWill

\* Every step keeps the invariant: an append, a load from wherever, a crash between the
\* append and its checkpoint, a refresh (goal-ledger.ts).
THEOREM LedgerSteps ==
    ASSUME Ledger!LedgerAssumption, Ledger!LedgerInv, [Ledger!GLNext]_ledgerVars
    PROVE  Ledger!LedgerInv'
<1>1. CASE Ledger!GLNext
  BY <1>1, AppendStep, UpdateStep, ColdStep, IndexStep, AnewStep, LoseStep
     DEF Ledger!GLNext, Ledger!Restart, Ledger!runGoalRefresh
<1>2. CASE UNCHANGED ledgerVars
  BY <1>2, StutterStep
<1> QED
  BY <1>1, <1>2

\* In a session that reads first, the invariant says that the index is current
\* and that the checkpoint is a prefix.
LEMMA LedgerSays ==
    ASSUME Ledger!LedgerInv, glInst.readsFirst
    PROVE  Ledger!IndexCurrent /\ Ledger!CheckpointIsPrefix
<1>1. /\ ledger \in Seq(Ledger!Events)
      /\ ledgerCache # None => ledgerCache = Ledger!WholeFile
      /\ LedgerKeptAt(ledger, recording, runtimeReady, checkpoint, checkpointCache)
  BY InvIs DEF Ledger!GLTypeOK
<1>2. \A cp, k : FollowsIn(ledger, cp, k) => Ledger!Covers(cp, k)
  BY DEF FollowsIn, Ledger!Covers, Ledger!Prefix
<1>3. ASSUME runtimeReady, recording = <<>>
      PROVE  Ledger!Covers(checkpointCache, Len(ledger))
  <2>1. Len(ledger) - Len(<<>>) = Len(ledger)
    BY <1>1
  <2>2. FollowsIn(ledger, checkpointCache, Len(ledger))
    BY <1>1, <1>3, <2>1 DEF LedgerKeptAt
  <2> QED
    BY <1>2, <2>2
<1>4. checkpoint # None => \E k \in 0..Len(ledger) : Ledger!Covers(checkpoint, k)
  BY <1>1, <1>2 DEF LedgerKeptAt
<1>5. Ledger!IndexCurrent
  BY <1>1, <1>3 DEF Ledger!IndexCurrent
<1>6. Ledger!CheckpointIsPrefix
  BY <1>4 DEF Ledger!CheckpointIsPrefix
<1> QED
  BY <1>5, <1>6
=============================================================================
