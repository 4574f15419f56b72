-------------------------- MODULE ExtensionsProofs --------------------------
(* Theorems about Extensions, for any of the instances its constants allow: *)
(* the properties of the components that have an inductive invariant, each  *)
(* of the behaviours in which the component runs.                           *)
EXTENDS Extensions, TLAPS

\* A step is one of the component that was chosen at the start.
LEMMA Acting ==
    ASSUME [Next]_vars
    PROVE  /\ which' = which
           /\ which = "scheduler" => [Scheduler!Next]_schedulerVars
           /\ which = "retries" => [Retries!Next]_schedulerVars
           /\ which = "workbuddy" => [Credentials!Pool!Next]_workbuddyVars
           /\ which = "antigravity" => [Credentials!Next]_antigravityVars
           /\ which = "advisor" => [Consultations!Next]_advisorVars
           /\ which = "gemini" => [Credentials!Gemini!GWNext]_geminiVars
           /\ which = "usage" => [Display!USNext]_usageVars
           /\ which = "outcome" => [Consultations!Outcome!GONext]_outcomeVars
           /\ which = "config" => [Consultations!Config!ConfigNext]_configVars
           /\ which = "bridge" => [Display!Bridge!EBNext]_bridgeVars
           /\ which = "ledger" => [Consultations!Ledger!GLNext]_ledgerVars
<1>1. CASE UNCHANGED vars
  BY <1>1 DEF vars
<1>2. CASE Next
  BY <1>2 DEF Next, Only
<1> QED
  BY <1>1, <1>2

\* The inductive invariants of the components with proofs; that of the WorkBuddy
\* pool where one process uses its file.
ExtensionsInv ==
  /\ which = "scheduler" => Scheduler!SchedulerInv
  /\ which = "retries" => Retries!SchedulerInv
  /\ which = "workbuddy" /\ Credentials!Pool!Alone => Credentials!Pool!WorkBuddyInv
  /\ which = "antigravity" => Credentials!AntigravityInv
  /\ which = "advisor" => Consultations!AdvisorInv
  /\ which = "gemini" => Credentials!Gemini!GeminiInv
  /\ which = "usage" => Display!UsageInv
  /\ which = "outcome" => Consultations!Outcome!OutcomeInv
  /\ which = "config" => Consultations!Config!ConfigInv
  /\ which = "bridge" => Display!Bridge!BridgeInv
  /\ which = "ledger" => Consultations!Ledger!LedgerInv

LEMMA ExtensionsInit == Init => ExtensionsInv
<1> SUFFICES ASSUME Init PROVE ExtensionsInv
  OBVIOUS
<1>1. which = "scheduler" => Scheduler!SchedulerInv
  BY Assumptions, Scheduler!InitInv DEF Init, Assumptions, Scheduler!InitInv
<1>2. which = "retries" => Retries!SchedulerInv
  BY Assumptions, Retries!InitInv DEF Init, Assumptions, Retries!InitInv
<1>3. which = "antigravity" => Credentials!AntigravityInv
  BY Assumptions, Credentials!AntigravityInit
     DEF Init, Assumptions, Credentials!AntigravityInit
<1>4. which = "advisor" => Consultations!AdvisorInv
  BY Assumptions, Consultations!AdvisorInit DEF Init, Assumptions, Consultations!AdvisorInit
<1>5. which = "usage" => Display!UsageInv
  BY Assumptions, Display!UsageInit DEF Init, Assumptions, Display!UsageInit
<1>6. which = "gemini" => Credentials!Gemini!GeminiInv
  BY Assumptions, Credentials!GeminiInit DEF Init, Assumptions, Credentials!GeminiInit
<1>7. which = "outcome" => Consultations!Outcome!OutcomeInv
  BY Assumptions, Consultations!OutcomeInit DEF Init, Assumptions, Consultations!OutcomeInit
<1>8. which = "workbuddy" => Credentials!Pool!WorkBuddyInv
  BY Assumptions, Credentials!WorkBuddyInit
     DEF Init, Assumptions, Credentials!WorkBuddyInit
<1>9. which = "config" => Consultations!Config!ConfigInv
  BY Assumptions, Consultations!ConfigStarts DEF Init, Assumptions, Consultations!ConfigStarts
<1>10. which = "bridge" => Display!Bridge!BridgeInv
  BY Assumptions, Display!BridgeStarts DEF Init, Assumptions, Display!BridgeStarts
<1>11. which = "ledger" => Consultations!Ledger!LedgerInv
  BY Assumptions, Consultations!StartTyped DEF Init, Assumptions, Consultations!StartTyped
<1> QED
  BY <1>1, <1>2, <1>3, <1>4, <1>5, <1>6, <1>7, <1>8, <1>9, <1>10, <1>11 DEF ExtensionsInv

LEMMA ExtensionsNext == ExtensionsInv /\ [Next]_vars => ExtensionsInv'
<1> SUFFICES ASSUME ExtensionsInv, [Next]_vars PROVE ExtensionsInv'
  OBVIOUS
<1>1. which = "scheduler" => Scheduler!SchedulerInv'
  BY Acting, Assumptions, Scheduler!NextStep, Scheduler!StutterStep
     DEF ExtensionsInv, schedulerVars, Scheduler!vars, Scheduler!GoodStep,
         Scheduler!NextStep, Scheduler!StutterStep
<1>2. which = "retries" => Retries!SchedulerInv'
  BY Acting, Assumptions, Retries!NextStep, Retries!StutterStep
     DEF ExtensionsInv, schedulerVars, Retries!vars, Retries!GoodStep,
         Retries!NextStep, Retries!StutterStep
<1>3. which = "antigravity" => Credentials!AntigravityInv'
  BY Acting, Assumptions, Credentials!AntigravityNext
     DEF ExtensionsInv, Assumptions, antigravityVars, Credentials!agvars,
         Credentials!AntigravityNext
<1>4. which = "advisor" => Consultations!AdvisorInv'
  BY Acting, Assumptions, Consultations!AdvisorNext
     DEF ExtensionsInv, Assumptions, advisorVars, Consultations!advars, Consultations!AdvisorNext
<1>5. which = "usage" => Display!UsageInv'
  BY Acting, Assumptions, Display!UsageNext
     DEF ExtensionsInv, Assumptions, usageVars, Display!usvars, Display!UsageNext
<1>6. which = "gemini" => Credentials!Gemini!GeminiInv'
  BY Acting, Assumptions, Credentials!GeminiNext
     DEF ExtensionsInv, Assumptions, geminiVars, Credentials!geminiVars, Credentials!GeminiNext
<1>7. which = "outcome" => Consultations!Outcome!OutcomeInv'
  BY Acting, Assumptions, Consultations!OutcomeNext
     DEF ExtensionsInv, Assumptions, outcomeVars, Consultations!outcomeVars,
         Consultations!OutcomeNext
<1>8. which = "workbuddy" /\ Credentials!Pool!Alone => Credentials!Pool!WorkBuddyInv'
  BY Acting, Assumptions, Credentials!WorkBuddyNext
     DEF ExtensionsInv, Assumptions, workbuddyVars, Credentials!workbuddyVars,
         Credentials!WorkBuddyNext
<1>9. which = "config" => Consultations!Config!ConfigInv'
  BY Acting, Assumptions, Consultations!ConfigSteps
     DEF ExtensionsInv, Assumptions, configVars, Consultations!configVars,
         Consultations!ConfigSteps
<1>10. which = "bridge" => Display!Bridge!BridgeInv'
  BY Acting, Assumptions, Display!BridgeSteps
     DEF ExtensionsInv, Assumptions, bridgeVars, Display!bridgeVars, Display!BridgeSteps
<1>11. which = "ledger" => Consultations!Ledger!LedgerInv'
  BY Acting, Assumptions, Consultations!LedgerSteps
     DEF ExtensionsInv, Assumptions, ledgerVars, Consultations!ledgerVars,
         Consultations!LedgerSteps
<1> QED
  BY Acting, <1>1, <1>2, <1>3, <1>4, <1>5, <1>6, <1>7, <1>8, <1>9, <1>10, <1>11
     DEF ExtensionsInv, Credentials!Pool!Alone

\* Whichever component runs, what its properties rest on holds in every state.
THEOREM ExtensionsHold == Spec => []ExtensionsInv
BY ExtensionsInit, ExtensionsNext, PTL DEF Spec

\* Whatever tokens expire and whatever logins and removals write meanwhile, no
\* request is sent again after a part of its answer was shown
\* (antigravity/stream/stream.ts).
THEOREM NothingIsReplayed == Spec => []NoReplay
<1>1. ExtensionsInv => NoReplay
  BY DEF ExtensionsInv, NoReplay, Credentials!AntigravityInv, Credentials!NoReplay,
         Credentials!Fits, Credentials!Asking
<1> QED
  BY <1>1, ExtensionsHold, PTL

\* However consultations are skipped, aborted and replaced, the calls stay
\* within the budget, and an outcome is logged once for an advice
\* (advisor/src/session-state.ts).
THEOREM AdviceIsCounted == Spec => []AdviceCounted
<1>1. ExtensionsInv => AdviceCounted
  BY DEF ExtensionsInv, AdviceCounted, Consultations!AdvisorInv, Consultations!Counted,
         Consultations!OutcomeOnce
<1> QED
  BY <1>1, ExtensionsHold, PTL

\* Whatever is imported, logged out, closed or killed while pages and rotations
\* are under way, a cookie stays with its identity, which is rotated at most
\* once in a period (gemini-web/client.ts, auth.ts).
THEOREM CookiesAreSound == Spec => []CookiesSound
<1>1. ExtensionsInv => CookiesSound
  BY Assumptions, Credentials!GeminiSound
     DEF Assumptions, ExtensionsInv, CookiesSound, Credentials!GeminiSound
<1> QED
  BY <1>1, ExtensionsHold, PTL

\* Whatever the user, a newer attempt or a replaced session does while a model
\* answers, what is complete was audited in the very revision it has, an audit
\* ends once, and a blocker gets one consultation (goal-completion.ts,
\* goal-oracle.ts).
THEOREM OutcomesAreSound == Spec => []OutcomesSound
<1>1. ExtensionsInv => OutcomesSound
  BY Assumptions, Consultations!OutcomeSound
     DEF Assumptions, ExtensionsInv, OutcomesSound, Consultations!OutcomeSound
<1> QED
  BY <1>1, ExtensionsHold, PTL

\* However requests, logins and removals of one process interleave, an update of
\* the account file is one step, and what a refresh brings replaces the token
\* that it was made out of, or nothing (workbuddy-pool/store.ts, auth.ts).
THEOREM AccountsAreKept == Credentials!Pool!Alone => (Spec => AccountsKept)
<1> SUFFICES ASSUME Credentials!Pool!Alone PROVE Spec => AccountsKept
  OBVIOUS
<1>1. ExtensionsInv /\ [Next]_vars =>
        [which = "workbuddy" => Credentials!Pool!Atomic /\ Credentials!Pool!Descends]_vars
  <2> SUFFICES ASSUME ExtensionsInv, [Next]_vars, which = "workbuddy"
               PROVE  Credentials!Pool!Atomic /\ Credentials!Pool!Descends
    OBVIOUS
  <2>1. [Credentials!Pool!Next]_workbuddyVars /\ Credentials!Pool!WorkBuddyInv
    BY Acting DEF ExtensionsInv
  <2> QED
    BY <2>1, Assumptions, Credentials!StepKeepsAccounts
       DEF Assumptions, workbuddyVars, Credentials!workbuddyVars, Credentials!StepKeepsAccounts
<1> QED
  BY <1>1, ExtensionsHold, PTL DEF Spec, AccountsKept

\* A step of one of the two schedulers is one of those that they take.
LEMMA Scheduled ==
    ASSUME ExtensionsInv, Next, Scheduling
    PROVE  /\ which' = which
           /\ which = "scheduler" => Scheduler!GoodStep
           /\ which = "retries" => Retries!GoodStep
<1>1. which' = which
  BY Acting
<1>2. CASE which = "scheduler"
  <2>1. Scheduler!Next /\ Scheduler!SchedulerInv
    BY <1>2 DEF ExtensionsInv, Next, Only
  <2>2. Scheduler!GoodStep
    BY Assumptions, <2>1, Scheduler!NextStep DEF Assumptions, Scheduler!NextStep
  <2> QED
    BY <1>1, <1>2, <2>2
<1>3. CASE which = "retries"
  <2>1. Retries!Next /\ Retries!SchedulerInv
    BY <1>3 DEF ExtensionsInv, Next, Only
  <2>2. Retries!GoodStep
    BY Assumptions, <2>1, Retries!NextStep DEF Assumptions, Retries!NextStep
  <2> QED
    BY <1>1, <1>3, <2>2
<1> QED
  BY <1>2, <1>3 DEF Scheduling

\* A superseded checkpoint starts no run, whatever sessions share the goal and
\* whatever is retried (goal-scheduler.ts).
THEOREM RunsAreAuthorised == Spec => OnlyAuthorisedRuns
<1>1. ExtensionsInv /\ [Next]_vars => [Scheduling => Scheduler!Authorised]_vars
  <2> SUFFICES ASSUME ExtensionsInv, Next, Scheduling PROVE Scheduler!Authorised
    OBVIOUS
  <2>1. CASE which = "scheduler"
    BY <2>1, Scheduled DEF Scheduler!GoodStep
  <2>2. CASE which = "retries"
    <3>1. Retries!Authorised
      BY <2>2, Scheduled DEF Retries!GoodStep
    <3> QED
      BY <3>1 DEF Retries!Authorised, Scheduler!Authorised, Retries!Starts, Scheduler!Starts
  <2> QED
    BY <2>1, <2>2 DEF Scheduling
<1> QED
  BY <1>1, ExtensionsHold, PTL DEF OnlyAuthorisedRuns, Spec

\* The two schedulers implement the allowance (goal-scheduler.ts).
THEOREM AllowanceHolds == Spec => AllowanceKept
<1>1. Init => Allowed!Init
  <2>1. Scheduler!Init => goal.used = 0 /\ started = 0
    BY DEF Scheduler!Init
  <2>2. Retries!Init => goal.used = 0 /\ started = 0
    BY DEF Retries!Init
  <2> QED
    BY <2>1, <2>2 DEF Init, Scheduling, Allowed!Init
<1>2. ExtensionsInv /\ [Next]_vars => [Allowed!Next]_(Allowed!vars)
  <2> SUFFICES ASSUME ExtensionsInv, [Next]_vars PROVE [Allowed!Next]_(Allowed!vars)
    OBVIOUS
  <2>1. CASE UNCHANGED vars
    BY <2>1 DEF vars, schedulerVars, Scheduling, Allowed!vars
  <2>2. CASE Next /\ Scheduling
    <3>1. which' = which /\ (Scheduler!AllowedStep \/ Retries!AllowedStep)
      BY <2>2, Scheduled DEF Scheduling, Scheduler!GoodStep, Retries!GoodStep
    <3> QED
      BY <2>2, <3>1 DEF Scheduling, Scheduler!AllowedStep, Retries!AllowedStep,
         Allowed!Next, Allowed!Pay, Allowed!Start, Allowed!Renew, Allowed!vars
  <2>3. CASE Next /\ ~Scheduling
    BY <2>3, Acting DEF Scheduling, Allowed!vars
  <2> QED
    BY <2>1, <2>2, <2>3
<1> QED
  BY <1>1, <1>2, ExtensionsHold, PTL DEF Spec, AllowanceKept, Allowed!Spec

\* A provider that is shown is about to be polled, a hidden one is left alone,
\* and no late answer replaces a later one, however refreshes, file syncs,
\* commands and sessions overtake one another (subscription-usage.ts).
THEOREM UsageIsFollowed == Spec => UsageFollowed
<1>1. ExtensionsInv => (which = "usage" => Display!PollingGoesOn /\ Display!HiddenIsQuiet)
  BY DEF ExtensionsInv, Display!UsageInv
<1>2. ExtensionsInv /\ [Next]_vars => [which = "usage" => Display!InOrder]_vars
  <2> SUFFICES ASSUME ExtensionsInv, Next, which = "usage" PROVE Display!InOrder \/ UNCHANGED vars
    OBVIOUS
  <2>1. Display!USNext /\ Display!UsageInv
    BY DEF ExtensionsInv, Next, Only
  <2>2. [Display!InOrder]_usageVars
    BY Assumptions, <2>1, Display!UsageNext
       DEF Assumptions, usageVars, Display!usvars, Display!UsageNext
  <2>3. CASE UNCHANGED usageVars
    BY Assumptions, <2>1, <2>3, Display!StillInOrder
       DEF Assumptions, usageVars, Display!StillInOrder
  <2> QED
    BY <2>2, <2>3
<1> QED
  BY <1>1, <1>2, ExtensionsHold, PTL DEF Spec, UsageFollowed

\* However cycles, markers, compactions and results are mixed, every part of an
\* answer lands in its own block, a result comes after its call, and what is
\* shown as context and as spent is what the cycles reported last
\* (claude-cli/src/event-bridge.ts).
THEOREM AnswersAreFaithful == Spec => []AnswerFaithful
<1>1. ExtensionsInv => AnswerFaithful
  BY DEF ExtensionsInv, AnswerFaithful, EveryPartInPlace, UsageHonest,
         Display!Bridge!BridgeInv, Display!Bridge!PartsFit, Display!Bridge!BillFits
<1> QED
  BY <1>1, ExtensionsHold, PTL

\* Wherever a crash falls between an append and its checkpoint, whatever write is
\* held back or fails and whichever cache a session loads from, the index, the
\* cache and the checkpoint of a session that reads first say what the ledger
\* says (goal-ledger.ts, goal-ledger-index.ts).
THEOREM LedgerIsKept == Spec => []LedgerKept
<1>1. ExtensionsInv => LedgerKept
  BY Consultations!LedgerSays DEF ExtensionsInv, LedgerKept, Consultations!LedgerSays
<1> QED
  BY <1>1, ExtensionsHold, PTL

\* However dialogs, choices, activations and the writes of other processes
\* interleave, a process saves only what it set since it read the file, and
\* tools that were disabled stay off until they are asked for
\* (advisor/src/config/storage.ts, commands/activation.ts).
THEOREM SettingsAreKept == Spec => SettingsKept
<1>1. ExtensionsInv /\ [Next]_vars =>
        [which = "config" => Consultations!Config!SavesOwn /\ Consultations!Config!OffStays']_vars
  <2> SUFFICES ASSUME ExtensionsInv, [Next]_vars, which = "config"
               PROVE  Consultations!Config!SavesOwn /\ Consultations!Config!OffStays'
    OBVIOUS
  <2>1. [Consultations!Config!ConfigNext]_configVars /\ Consultations!Config!ConfigInv
    BY Acting DEF ExtensionsInv
  <2> QED
    BY <2>1, Assumptions, Consultations!ConfigSteps
       DEF Assumptions, configVars, Consultations!configVars, Consultations!ConfigSteps
<1> QED
  BY <1>1, ExtensionsHold, PTL DEF Spec, SettingsKept
=============================================================================
