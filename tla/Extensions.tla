----------------------------- MODULE Extensions -----------------------------
(* The extensions that do not act on one another.  A behaviour is one of    *)
(* one component, chosen at the start; the variables of the others stay     *)
(* None.  The modules of the components say what they and their properties  *)
(* mean.                                                                    *)
EXTENDS Naturals, FiniteSets, Sequences

CONSTANTS
  None, Unread,
  Tasks,              \* the concurrent handlers of a process
  \* the scheduler of one goal; the second instance has runs that fail
  GoalSessions, Creator, Limit, StrictChoices, Mishaps, Uuids,
  FineOutcomes, SchedulerActs, ShakyOutcomes, RetryChecks, RetryActs,
  \* the goal files and the ledger
  StoreSessions, Completing, StoreInstances, RecentCap, WriteInterval, LedgerInstances,
  Goals, Edits,
  \* account pools
  Accounts, PoolProcesses, maxAttempts, WorkBuddyInstances, AntigravityInstances,
  \* the advisor's budget
  AdvisorTasks, maxCalls, loopThreshold, everyTurns, overrideWindow,
  AdvisorStarts, MaxTurns, MaxSessions, Questions, Works,
  \* the cookie file
  Processes, MaxImports, MaxDay, MaxTokens, GeminiStarts,
  \* the usage footer, the event bridge and the end of a goal
  Providers, Shared, UsageInstances, Tools, BridgeInstances, OutcomeInstances,
  \* the advisor's settings
  ConfigProcesses, Models, Values, Unusable, ConfigInstances

VARIABLES
  which,
  goal, mem, strict, started, acts, grant, failed,
  file, archived, snap, lock, ses, host, fate, charged, crashes, gsInst,
  glInst, ledger, checkpoint, ledgerCache, checkpointCache, runtimeReady, lastWrite, recording,
  wbInst, accounts, chain, flights, wbTask, upstream, wbNow, wbStarts,
  agInst, store, auth, agTask, google, agNow, agStarts,
  session, adTask, adStarts, told, begun,
  credentials, gwLock, client, gwTask, issued, day, imports, gwStarts, rotations,
  usInst, cache, usTask, disk, model, usSession, routed, mode, toggling, watching, usNow, usStarts,
  ebInst, blocks, content, cycle, cumulative, cycleUsage, lastCycle, usage, stopReason,
  markedTools, forwardedResultIds, open, said, phase, bill, context,
  goInst, outcome, goFocus, goTurn, stopped, armed, advice, audits, active, goCalls, modal, tried,
  goActs,
  cfInst, cfFile, cfProc, cfTouched, cfOff, cfEdits, cfBreaks, cfFailures, cfCommands

schedulerVars == <<goal, mem, strict, started, acts, grant, failed>>
storeVars == <<gsInst, file, archived, snap, lock, ses, host, fate, charged, crashes>>
ledgerVars == <<glInst, ledger, checkpoint, ledgerCache, checkpointCache, runtimeReady, lastWrite,
                recording>>
workbuddyVars == <<wbInst, accounts, chain, flights, wbTask, upstream, wbNow, wbStarts>>
antigravityVars == <<agInst, store, auth, agTask, google, agNow, agStarts>>
advisorVars == <<session, adTask, adStarts, told, begun>>
geminiVars == <<credentials, gwLock, client, gwTask, issued, day, imports, gwStarts, rotations>>
usageVars == <<usInst, cache, usTask, disk, model, usSession, routed, mode, toggling, watching,
               usNow, usStarts>>
bridgeVars == <<ebInst, blocks, content, cycle, cumulative, cycleUsage, lastCycle, usage,
                stopReason, markedTools, forwardedResultIds, open, said, phase, bill, context>>
outcomeVars == <<goInst, outcome, goFocus, goTurn, stopped, armed, advice, audits, active, goCalls,
                 modal, tried, goActs>>
configVars == <<cfInst, cfFile, cfProc, cfTouched, cfOff, cfEdits, cfBreaks, cfFailures,
                cfCommands>>
vars == <<which, schedulerVars, storeVars, ledgerVars, workbuddyVars, antigravityVars, advisorVars,
          geminiVars, usageVars, bridgeVars, outcomeVars, configVars>>

----------------------------------------------------------------------------
(* The components.  Of the scheduler there are two instances, one whose    *)
(* users act and one whose runs fail and are retried.                      *)
Scheduler == INSTANCE GoalSchedulerProofs WITH
  Sessions <- GoalSessions, Backoff <- FALSE, MaxChecks <- 0, Outcomes <- FineOutcomes,
  MaxActs <- SchedulerActs
Retries == INSTANCE GoalSchedulerProofs WITH
  Sessions <- GoalSessions, Backoff <- FALSE, MaxChecks <- RetryChecks, Outcomes <- ShakyOutcomes,
  MaxActs <- RetryActs
Scheduling == which \in {"scheduler", "retries"}
Store == INSTANCE GoalStore WITH
  Sessions <- StoreSessions, Complete <- Completing, Instances <- StoreInstances, inst <- gsInst
Credentials == INSTANCE CredentialProofs WITH
  Instances <- AntigravityInstances, inst <- agInst, task <- agTask, now <- agNow,
  starts <- agStarts
Consultations == INSTANCE ConsultationProofs WITH
  Tasks <- AdvisorTasks, MaxStarts <- AdvisorStarts, task <- adTask, starts <- adStarts,
  OutcomeTasks <- Tasks, counsel <- advice
Display == INSTANCE DisplayProofs WITH
  Instances <- UsageInstances, inst <- usInst, task <- usTask, session <- usSession,
  now <- usNow, starts <- usStarts

ASSUME Assumptions ==
  /\ Scheduler!SchedulerAssumption /\ Scheduler!NoneAssumption
  /\ Retries!SchedulerAssumption /\ Retries!NoneAssumption
  /\ Store!StoreAssumption /\ Consultations!Ledger!LedgerAssumption
  /\ Credentials!AntigravityAssumption /\ Consultations!AdvisorAssumption
  /\ Credentials!Pool!WorkBuddyAssumption /\ Credentials!Gemini!GeminiAssumption
  /\ Display!SharedAssumption /\ Display!Bridge!BridgeAssumption
  /\ Consultations!Outcome!OutcomeAssumption /\ Consultations!Config!ConfigAssumption

----------------------------------------------------------------------------
Init ==
  /\ which \in {"scheduler", "retries", "store", "ledger", "workbuddy", "antigravity",
                "advisor", "gemini", "usage", "bridge", "outcome", "config"}
  /\ IF which = "scheduler" THEN Scheduler!Init
     ELSE IF which = "retries" THEN Retries!Init
     ELSE /\ goal = None /\ mem = None /\ strict = None /\ started = None /\ acts = None
          /\ grant = None /\ failed = None
  /\ IF which = "store" THEN Store!Init
     ELSE /\ gsInst = None /\ file = None /\ archived = None /\ snap = None /\ lock = None
          /\ ses = None /\ host = None /\ fate = None /\ charged = None /\ crashes = None
  /\ IF which = "ledger" THEN Consultations!Ledger!GLInit
     ELSE /\ glInst = None /\ ledger = None /\ checkpoint = None /\ ledgerCache = None
          /\ checkpointCache = None /\ runtimeReady = None /\ lastWrite = None
          /\ recording = None
  /\ IF which = "workbuddy" THEN Credentials!Pool!Init
     ELSE /\ wbInst = None /\ accounts = None /\ chain = None /\ flights = None /\ wbTask = None
          /\ upstream = None /\ wbNow = None /\ wbStarts = None
  /\ IF which = "antigravity" THEN Credentials!Init
     ELSE /\ agInst = None /\ store = None /\ auth = None /\ agTask = None /\ google = None
          /\ agNow = None /\ agStarts = None
  /\ IF which = "advisor" THEN Consultations!Init
     ELSE session = None /\ adTask = None /\ adStarts = None /\ told = None /\ begun = None
  /\ IF which = "gemini" THEN Credentials!Gemini!GWInit
     ELSE /\ credentials = None /\ gwLock = None /\ client = None /\ gwTask = None
          /\ issued = None /\ day = None /\ imports = None /\ gwStarts = None /\ rotations = None
  /\ IF which = "usage" THEN Display!USInit
     ELSE /\ usInst = None /\ cache = None /\ usTask = None /\ disk = None /\ model = None
          /\ usSession = None /\ routed = None /\ mode = None /\ toggling = None
          /\ watching = None
          /\ usNow = None /\ usStarts = None
  /\ IF which = "bridge" THEN Display!Bridge!EBInit
     ELSE /\ ebInst = None /\ blocks = None /\ content = None /\ cycle = None
          /\ cumulative = None /\ cycleUsage = None /\ lastCycle = None /\ usage = None
          /\ stopReason = None /\ markedTools = None /\ forwardedResultIds = None
          /\ open = None /\ said = None /\ phase = None /\ bill = None /\ context = None
  /\ IF which = "outcome" THEN Consultations!Outcome!GOInit
     ELSE /\ goInst = None /\ outcome = None /\ goFocus = None /\ goTurn = None /\ stopped = None
          /\ armed = None /\ advice = None /\ audits = None /\ active = None /\ goCalls = None
          /\ modal = None /\ tried = None /\ goActs = None
  /\ IF which = "config" THEN Consultations!Config!ConfigInit
     ELSE /\ cfInst = None /\ cfFile = None /\ cfProc = None /\ cfTouched = None /\ cfOff = None
          /\ cfEdits = None /\ cfBreaks = None /\ cfFailures = None /\ cfCommands = None

Only(component) ==
  /\ which = component /\ UNCHANGED which
  /\ component \notin {"scheduler", "retries"} => UNCHANGED schedulerVars
  /\ component # "store" => UNCHANGED storeVars
  /\ component # "ledger" => UNCHANGED ledgerVars
  /\ component # "workbuddy" => UNCHANGED workbuddyVars
  /\ component # "antigravity" => UNCHANGED antigravityVars
  /\ component # "advisor" => UNCHANGED advisorVars
  /\ component # "gemini" => UNCHANGED geminiVars
  /\ component # "usage" => UNCHANGED usageVars
  /\ component # "bridge" => UNCHANGED bridgeVars
  /\ component # "outcome" => UNCHANGED outcomeVars
  /\ component # "config" => UNCHANGED configVars

Next ==
  \/ Only("scheduler") /\ Scheduler!Next
  \/ Only("retries") /\ Retries!Next
  \/ Only("store") /\ Store!Next
  \/ Only("ledger") /\ Consultations!Ledger!GLNext
  \/ Only("workbuddy") /\ Credentials!Pool!Next
  \/ Only("antigravity") /\ Credentials!Next
  \/ Only("advisor") /\ Consultations!Next
  \/ Only("gemini") /\ Credentials!Gemini!GWNext
  \/ Only("usage") /\ Display!USNext
  \/ Only("bridge") /\ Display!Bridge!EBNext
  \/ Only("outcome") /\ Consultations!Outcome!GONext
  \/ Only("config") /\ Consultations!Config!ConfigNext

Spec == Init /\ [][Next]_vars

----------------------------------------------------------------------------
(* The properties, each of the component that runs; the modules say what   *)
(* they mean.                                                              *)

\* The state of the running component is well formed; of the components with
\* proofs of their own, what those rest on holds.
TypeOK ==
  /\ which = "scheduler" => Scheduler!TypeOK
  /\ which = "retries" => Retries!TypeOK
  /\ which = "store" => Store!TypeOK
  /\ which = "ledger" => Consultations!Ledger!LedgerInv
  /\ which = "workbuddy" => Credentials!Pool!TypeOK
  /\ which = "workbuddy" /\ Credentials!Pool!Alone => Credentials!Pool!WorkBuddyInv
  /\ which = "antigravity" => Credentials!AntigravityInv
  /\ which = "advisor" => Consultations!AdvisorInv
  /\ which = "gemini" => Credentials!Gemini!GWTypeOK /\ Credentials!Gemini!GeminiInv
  /\ which = "usage" => Display!UsageInv
  /\ which = "bridge" => Display!Bridge!BridgeInv
  /\ which = "outcome" => Consultations!Outcome!GOTypeOK /\ Consultations!Outcome!OutcomeInv
  /\ which = "config" => Consultations!Config!ConfigInv

\* Sharing a goal, crashing and resuming start no more autonomous runs than
\* were allowed, and none that was not paid for (goal-scheduler.ts).
Allowed == INSTANCE Allowance WITH
  paid <- IF Scheduling THEN goal.used ELSE 0,
  started <- IF Scheduling THEN started ELSE 0
AllowanceKept == Allowed!Spec

\* A checkpoint that was superseded never starts a run (goal-scheduler.ts).
OnlyAuthorisedRuns ==
  [][Scheduling => Scheduler!Authorised]_vars

\* A refused edit never turns up, an accepted one stays buffered, what one
\* process alone saved stays saved, and the revision check keeps what others
\* wrote outside a turn (goal-service.ts).
EditsKept ==
  [][which = "store" =>
       Store!KeepsOthers /\ Store!NothingVanishes' /\ Store!AloneKeeps']_vars

\* In a session that reads the index before it appends, the index and the
\* checkpoint say what the ledger says (goal-ledger.ts).
LedgerKept ==
  which = "ledger" /\ glInst.readsFirst =>
    Consultations!Ledger!IndexCurrent /\ Consultations!Ledger!CheckpointIsPrefix

\* Within a process an update of the account file is one step, and a refresh
\* begun before a login never replaces what the login brought
\* (workbuddy-pool/store.ts, auth.ts).
AccountsKept ==
  [][which = "workbuddy" => Credentials!Pool!Atomic /\ Credentials!Pool!Descends]_vars

\* No request is sent again after a part of its answer was shown
\* (antigravity/stream/stream.ts).
NoReplay == which = "antigravity" => Credentials!NoReplay

\* Calls spent and reserved stay within the session's budget, and an outcome is
\* logged once for an advice (advisor/src/session-state.ts, tools/register-outcome.ts).
AdviceCounted == which = "advisor" => Consultations!BudgetKept /\ Consultations!OutcomeOnce

\* Cookies stay with the identity they were imported with, which is rotated once
\* in a period (gemini-web/client.ts, auth.ts).
CookiesSound ==
  which = "gemini" => Credentials!Gemini!OneIdentity /\ Credentials!Gemini!RotationPaced

\* A provider that is shown is about to be polled, a hidden one is left alone,
\* and an answer that was superseded changes nothing (subscription-usage.ts).
UsageFollowed ==
  /\ [](which = "usage" => Display!PollingGoesOn /\ Display!HiddenIsQuiet)
  /\ [][which = "usage" => Display!InOrder]_vars

\* Every part of an answer lands in its own block, every result after its call,
\* and what is shown as context and as spent is what the cycles reported last
\* (claude-cli/src/event-bridge.ts).
EveryPartInPlace ==
  which = "bridge" => Display!Bridge!EveryPartInPlace /\ Display!Bridge!ResultsFollowCalls
UsageHonest == which = "bridge" => Display!Bridge!GaugeIsContext /\ Display!Bridge!BilledOnce
AnswerFaithful == EveryPartInPlace /\ UsageHonest

\* A complete goal was audited in the very revision it has, an audit ends once,
\* and a blocker gets one consultation, whatever the user, a newer attempt or a
\* replaced session does while a model answers (goal-completion.ts, goal-oracle.ts).
OutcomesSound ==
  which = "outcome" =>
    /\ Consultations!Outcome!AuditedCompletion
    /\ Consultations!Outcome!AuditsEndOnce /\ Consultations!Outcome!OneConsultation

\* A save writes only what its process set since it read the file, whatever
\* other processes, users and commands write meanwhile; and tools that were
\* disabled stay off until they are asked for (advisor/src/config/storage.ts,
\* commands/activation.ts).
SettingsKept ==
  [][which = "config" => Consultations!Config!SavesOwn /\ Consultations!Config!OffStays']_vars
=============================================================================
