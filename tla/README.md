# pi-pulse, verified

pi-pulse is a set of extensions for the Pi coding agent. Pi is one Node process
per session: its extensions are callbacks on one event loop, several sessions may
live in a process, and several processes share files in the user's home. Almost
every hard behaviour of the code comes from that: what one callback reads before
an `await` is changed by another before it goes on, an external program (the
Claude CLI, an account server) answers late or not at all, and two processes
write the same file.

This directory holds TLA+ models of the parts where that matters, the TLC
configurations that check them on small instances, and proofs that TLAPS checks
for every value of the constants. `PROJECT.json` indexes it: which definition
stands for which lines of the source, which run checks which property, a mutant
that each property catches, the hazards and the findings.

    cd tla
    tlc -workers 2 -config Extensions.cfg MCExtensions
    tlapm TodoProofs.tla

## 1. Inventory

Paths are below `src/extensions/`.

| Component | State | Operations | What makes it hard | What makes it correct |
|---|---|---|---|---|
| **Codex account pool** `codex-pool/` | the account file (credential, cooldown and needsLogin of each account, the preferred one), its lock directory, per process the sticky map | select and refresh an account, stream with failover, record a refusal, add / switch / remove | several processes, awaits inside a locked update, refresh tokens that work once, crashes, refusals that come late, output already passed on | updates exclude each other and none is lost; a spent token is never offered again; a refusal touches only the credential it was for; no replay after output; every request ends |
| **Claude CLI processes** `claude-cli/src/cli-process.ts`, `provider.ts`, `handoff-broker.ts`, `session-map.ts` | a process that outlives a call: pending, awaited and ready tool calls, a buffer while no call is attached, timers; the pool of parked processes; the map from pi's session to the CLI's | choose or spawn a process, attach, deliver results, route tools/call, park, retire, abort, wait for sub-agents, report a lost session | two channels (stdout and a socket) without an order between them, turns the CLI takes by itself, timers that outlive what they were set for, death at any moment | a result reaches the call it is for; every call is answered and every stream ends once; no process is left running; a turn ends on its own result |
| **Claude event bridge** `claude-cli/src/event-bridge.ts` | the blocks of the message under way, the usage of the API call and of those before it, tools marked | one handler for each kind of event | indexes that start over, retried calls, repeated envelopes, usage that some events leave out | every part lands in its own block; spent tokens are counted once; the gauge shows the context |
| **Todo list** `todo/state/`, `todo.ts` | per session the tasks and nextId; the branch of the session that replays it | create, update, delete, clear, list, get; replay; navigation and restart | long sequences of legal calls; results that land late or never; forks | dependencies are acyclic and within the list; a replay gives the list in memory |
| **Todo overlay** `todo/index.ts`, `todo-overlay.ts` | the module memo, the overlay, the UI it is bound to, generation, foreground pointer, hidden ids | refresh, session start and shutdown, prewarm, hide what was completed | a dynamic import that fails and is retried under awaits; contexts that go stale | one import at a time; no widget of an ended session; the widget follows the list |
| **Goal store** `goal/goal-service.ts`, `storage/`, handlers of `goal-state.ts`, `goal-events.ts`, `goal-completion.ts` | one file per goal with a revision, a lock file, a pool snapshot; per session the pool cache, the focused record and the turn's buffer | apply, update tasks, flush, reconcile, charge usage, complete, archive, clear | optimistic revisions under a lock that may be stolen; caches that another process's write does not reach; buffered changes against other writers | a refused edit changes nothing, an accepted one is not lost; what others wrote is kept |
| **Goal ledger** `goal/goal-ledger.ts`, `goal-ledger-index.ts` | an append-only file of events, a checkpoint file; per process the events, the checkpoint in memory and when it was last written | append, extend and write the checkpoint, load, refresh, start a session | a checkpoint that lags behind the file in bytes, held-back writes, crashes between append and checkpoint | index and checkpoint say what the file says |
| **Goal scheduler and runtime** `goal/goal-scheduler.ts`, `goal-runtime.ts`, `goal-recovery.ts` | phase, generation, allowance used, wait, dispatch (in the goal's file); timers and flags in memory | schedule, claim, admit a checkpoint, settle, declare, signal, take over, recover, pause, restore | durable intent against timers in memory; crashes between claim and run; ownership that moves between sessions | one dispatch per claim; the allowance is never exceeded or reset; a stale checkpoint never runs; an active goal goes on |
| **End of a goal** `goal/goal-completion.ts`, `goal-core-tools.ts`, `goal-oracle.ts` | the active audit, the revision of the focus, advice armed in memory, advice in the ledger, the modal count | update_goal (complete, blocked, paused), audit, consult, Escape, choose | two models and a dialog are awaited while the user edits, pauses, unfocuses or replaces the session, and late answers come back to another one | what is complete was audited as it is; an audit ends once; a blocker is consulted once and its advice tried |
| **Goal drafting, dashboards** `goal/` | forms and prompts | tools, commands, widgets | mostly text | – |
| **Advisor, budget** `advisor/src/` | calls consumed and reserved, the repetition counter, blocked, advice issued and reported | reserve and consult, loop gate, turn gate, record an outcome, reset | a limit checked before an await and used after it; a session reset under a call under way | the limit holds; an outcome is recorded once |
| **Advisor, consultation** `advisor/src/tools/`, `follow-up.ts`, `attachments.ts` | the settings in force, the cache of what was sent, per consultation its models and what it discloses | consult, disclose, fall back, follow up | settings that change between the awaits; a cache that expires; limits that add up | a follow-up discloses what the settings allow and asks who gave the advice; a failing model is replaced once |
| **Advisor, Scout** `advisor/src/scout*.ts` | a projection of the branch, its groups, Scout's choice | project, group, fit, stream, fall back | compactions, resets, results without calls, budgets, timeouts, aborts | a call is not parted from its result, the user's request is kept, the bounds hold |
| **Advisor, reports** `advisor/src/herdr*.ts` | a queue per source, the leases, the blocked edge | report, send, repeat, toggle | a socket that refuses or does not answer | Herdr shows what was said last, no notification is shown twice |
| **Advisor, settings** `advisor/src/config/`, `commands/`, `ui/settings-selector.ts` | advisor.json, its baseline and live values per process, an activation under way | load, save, dialog, pick, activate, off | two processes and a text editor over one file; what an await finds changed | a save writes what its process set; what was turned off stays off |
| **WorkBuddy pool** `workbuddy-pool/` | the account file, a chain of updates and the refreshes under way in each process | request with failover, refresh, mark, login, switch, remove | a chain per process without a lock between processes; tokens that are refreshed by several requests at once | within a process no update is lost; what a login brought is not replaced by what went before |
| **Antigravity pool** `antigravity/auth/`, `stream/`, `models/discovery.ts` | account store, pi's own credential record | request with failover and repeats, discover, activate, remove, login | the whole store is loaded, changed and saved around awaits | no repeat after output; an account is marked for what it answered |
| **Gemini web client** `gemini-web/` | cookies with a revision, a cached bootstrap, a setup mutex, a lock directory | refresh with rotation, generate, import, logout, close | double-checked cache, rotation under a cross-process lock, a client closed while it works | requests keep one identity; a rotation is not undone nor repeated |
| **Subscription usage** `subscription-usage.ts` | per provider: request id, timer, backoff, data; a cache file | refresh, poke, command, sync, route, toggle, clear | superseded requests that answer late; states cleared and re-created under a request | the newest answer is shown; what is shown is polled, what is hidden is not |
| **Alpakyros pool, loop guard, lens, code mode, comment checker** | small counters, sets and timers | tool-call hooks | little concurrency | – |
| **Throughput status, command wrappers** | none that a guard reads | – | – | – |

`hazards` in `PROJECT.json` lists, line by line, what can go wrong in these parts
and would hardly be met by a test, with the property that would catch it, or why
none does.

## 2. Plan

1. `CodexPool`: the account pool, with proofs about its file and its requests.
   *Done.*
2. `CliProcess`: one pi session with its CLI processes, with proofs about calls
   and attempts. *Done.* `EventBridge`:
   the message that an episode of it becomes. *Done.*
3. `TodoList`, `TodoGraph`, `Todo`: the list, its cycle check against a
   definition, the session that replays it and its overlay, with proofs. *Done.*
4. `GoalScheduler`: the durable scheduling state of a goal against sessions that
   take it over, crash and restart, with its timers, and an abstract `Allowance`
   that it implements, with proofs of its invariants and of the refinement. *Done.*
5. `GoalStore`: two processes over one goal file. `GoalScheduler` takes a save as
   one step, and this module shows what of that the lock and the revision give,
   and what the pool cache takes away. *Done.*
6. `WorkBuddyPool`, `AntigravityPool`: the account pools whose stores have no
   lock between processes. *Done.*
7. `AdvisorSession`, `GeminiWeb`, `UsageRefresh`. *Done.*
   `AdvisorConsult`, `AdvisorScout`, `HerdrReports`, `AdvisorConfig`. *Done.*
8. `GoalLedger`: the event ledger and its checkpoint. `GoalOutcome`: how a goal
   ends. *Done.*
9. `MCRequests`, `MCProviders`, `Extensions` with `MCExtensions`, and `MCSessionParts`: one instance each
   of components that do not act on one another, a component per behaviour. *Done.*
10. Theorems: `CodexPool`, `CliProcess`, `Todo`, `GoalScheduler`, `AdvisorSession`,
   `GoalOutcome`, `AdvisorConfig`, `AntigravityPool`, `GeminiWeb`, `WorkBuddyPool`,
   `UsageRefresh`, `EventBridge` and `GoalLedger`, and `Extensions`, where the last
   nine and the scheduler meet. *Done.*

## 3. The modules

### CodexPool

A *client* is a request's stream or an account command; it runs in one process.
Every `await` of a client is a boundary, and what runs between two is one action.
`pc` says where a client awaits, `op` holds its update, `mem` the copy of the
file the update has changed, `req` the locals of the failover loop (`allowed`,
`tried`, the account, what is buffered), `disk` and `lock` the file and the lock
directory, `sticky` the map per process. An update is `Acquire` (the `mkdir`),
the read with its function, `Save`, and the `rm` (`Unlock...`); `SelectExpired`,
`SendRefresh`, `RefreshOk` and `RefreshFails` are the refresh inside it, with its
own save. Each await can fail; `Crash` ends a process between any two steps and
leaves its lock.

Abstractions. A credential is a number, its successor the next one; whether it
has expired, and when a signal aborts, is a choice at each use. A reading and its
function are one step, as no other client can act under the lock; the two steps
that may fail are apart. The stream begins with the end of the unlock. An error's
text is the class the code finds in it. `spends`, `sends` and `blamed` record
history for the properties and guard nothing.

### CliProcess

`cli[p]` is the `CliProcess` object, `os[p]` the program behind it with the lines
it wrote and that are not read, `tool[t]` a tool_use block on its way, `call` the
one pi call under way with the locals of `provider.ts`, `parked` the pool, `map`
the session map. Callbacks are actions: `HandleLine`, `StdoutClose`, `ProcClose`,
the timers (`IdleExpires`, `GraceExpires`, `KillExpires`, `Backstop`,
`Inactive`, `AgentsWaitedOut`), `Dispatch` for a tools/call that reaches the
broker. A call is `PiCalls`, then `Choose` (continue, reuse or spawn), its awaits
(`ThinkingApplied`, `ThinkingRefused`, `SpawnAfterRetire`) and the episode.
`CliStep` is the CLI as the comments in `provider.ts` describe it: it names
blocks, asks permission, calls tools, ends turns, takes turns of its own, reports
agents, exits and crashes, and nothing makes it do any of that.

A handler is built from operators on a `World` record, one for each function of
the code that changes several parts of the state (`Retire`, `Park`, `Release`,
`FailPending`, `OnResult`, `OnClose`, ...), so that a caller reads in the order
of the code's calls.

Abstractions. Whether the arguments of a parked process fit, and whether the
history is stale, are choices (`fits`, `stale`). An error at spawn is a crash.
The limits of the buffer, of the empty and the agent continuations are small. The
check of a call's tool name, usage, markers and rate limits are left out. The
parked process is kept (a positive keepalive) and pi's session has an id. The
lines that `attach` replays are fed to the sink in their order by a recursive
function (`Fed`), and a message of the CLI names its blocks in the order of their
numbers.

### TodoList, TodoGraph, Todo

`TodoList` is the reducer: `Create`, `Update`, `Delete` with their refusals as
`CreateError`, `UpdateError`, `DeleteError`. A refused call changes nothing.
`TodoGraph` has `detectCycle` as the code's depth-first search; `TodoList` says
what it decides (`Cyclic`: a set of tasks each of which waits for another of the
set), and a run compares them. `TodoList` uses the definition, so that proofs
can.

`Todo` has, per session, `life`, the `branch` of entries, the results `landing`
(returned by a call and not yet appended) and the list in `mem`; and, shared by
the sessions of a process, `memo` and `imports` (the overlay's loader), `waiting`
(refreshes at their await), `generation`, `uiCtx`, `overlay`, `shown`, `display`
(the hidden ids) and `fg` (the foreground pointer). Handlers are `SessionStart`,
`SessionShutdown`, `ReplayAndRefresh` (compaction and navigation), `ToolEnd`,
`AgentStart`, `Prewarm`; `Settle` ends an import and `Continue` the await of one
refresh.

Abstractions. Subject, description, owner and metadata are one value. The order
of blockers is not kept. Navigation goes back to a prefix of the branch and only
while no result is under way. A snapshot read back is one the program wrote.

### GoalScheduler, Allowance

`goal` is the scheduling part of the goal's file, shared by the sessions: who
owns it, the generation, the runs charged, the phase with its decision, the wait,
the dispatch, `repairUsed` and the idle pacing. `mem[s]` is what a session keeps:
the flags of `GoalScheduler` (`inRun`, `declared`, `denied`, the armed
generation, the timer), of `GoalRuntime` (`cont` the pending continuation,
`retry` the network retry), of `GoalInterruption` (`held`, `ignore`), what
`agent_end` leaves for `agent_settled` (`after`), and its Pi host: where it
stands (`pc`), the checkpoint it was given (`queue`) and the prompt it prepares.

The functions of the code are functions from a context to a context (the
session, the goal, the memory, how many more writes succeed), so that `Schedule`,
`Pause`, `Claim`, `Takeover`, `SettleRun` and the rest compose as the code's
calls do; each event of pi, each timer and each thing the user does is one
action. None of them awaits between reading and writing, so a handler is one
step; a write may fail at each point where one is made.

Abstractions. One goal, always in focus, and `pauseOrder` "together" with pi's
own interrupt beside it. The token budget and the accounting are left out. Times
are flags that time sets: a check or a pacing delay that has passed (`due`,
`passed`), a deadline that has (`expired`). A generation or a dispatch id is taken
from those nobody holds, which keeps the state finite and compares like a random
one. A wake event that names an old token does nothing in the code and is no
step. The copy of the goal in memory is the file, except where a decision is
made on it unread: a continuation that goes on to claim, and a user's pause,
which the revision check then refuses (`UnreadWrites`). A goal that the agent
completes is one that stops. The cap on network retries, which is off by default,
and reading a file that something else has damaged are left out.

`started`, `grant` and `failed` record history for the properties. `Allowance`
is the promise behind `maxAutonomousRuns`: pay before a run starts, start no more
than was paid for, renew only when the user resumes. `AllowanceKept` says that
`GoalScheduler` implements it with `paid` the runs charged in the file.

### GoalStore

`file` and `archived` are the goal files, `snap` the pool snapshot, `lock` the
lock files; `ses[s]` is a session's memory: the focused record, the pool cache
that only its own writes invalidate, the base its usage is counted from, the
turn's buffer, and `todo`, the calls of the handler under way. A handler (`Turn`,
a tool, a command, `Compact`, completion, `Clear`, `StartSession`) is a list of
calls; a call that writes is `TakeLock`, `WriteFile`, `FinishWrite` or `Refuse`,
and between these steps other processes run. `LockBusy` gives up at the
deadline; `RecoverLock` takes a stale lock; `Crash` leaves one behind.
Completion ends with an audit, an await in which anything may happen
(`BeginAudit`, `Commit`).

Abstractions. A record is its revision, the set of edits it contains and its
usage: an edit stands for whatever a tool or a command changes, and is made once.
The ledger is `GoalLedger`'s; left out are a record's text and its tasks; `updateTask`
keeps its own path through the lock (`task`).

### GoalLedger

`ledger` is the file of events and `checkpoint` the checkpoint file;
`ledgerCache`, `checkpointCache` (`Unread`, or absent, or extended in memory),
`runtimeReady` and `lastWrite` are the maps of the process. An append is two
steps, `AppendBlock` and `updateLedgerCheckpointAfterAppend`, with a crash
possible between them. `runtimeIndex` loads from the cache, from the checkpoint,
from the checkpoint and the tail, or from the whole file. `Restart` is a new
session or a new process; `runGoalRefresh` forgets the caches and reads the
file; `LoseCheckpoint` removes the checkpoint or has it refused.

Abstractions. An event is its type, goal, audit and size; the index has what is
kept per goal without the activity feed, and one goal's consults count together.
Two seconds may or may not have passed. Lines are whole, as one append writes
them; a tail that begins inside a line drops it. A goal is created under an id that no
earlier event names (`NewIds`), as `newGoalId` makes one of the time and a random
number; so a goal that ended is never created again. `readsFirst` says whether a
session reads the index before it appends, as one does that shows the widget of
a goal in focus.

### GoalOutcome

One goal and the calls of `update_goal` that wait: for the auditor, for the
oracle, or for the user's choice after Escape. `calls[t]` is such a call with its
focus token; one that a replaced session left behind goes on (`live` is FALSE)
and finds out whether it is still current. `audits` are the completion attempts,
each with the revision and shape it was for and how it ended, `active` the
`activeAudit`, `armed` the marker of the advice not yet followed, `advice` what
the ledger says of each fingerprint, `turn` the buffer of the turn's events,
`modal` the `goalModalDepth`. `Blocked`, `Complete` and `Paused` are the calls,
`OracleAnswers`, `AuditorAnswers` and `Choose` what comes after their awaits,
`Work` any other tool with the `tool_call` handler before it, and `Changes`,
`Leaves`, `Focuses`, `ReplaceSession`, `Restart` the rest of the world.

Abstractions. The objective, the tasks and the blocker's reason are one number,
the fingerprint, which an edit changes; the revision does not count charges of
usage. A second process that writes the goal is `GoalStore`'s, the refusal of
stale dispatches `GoalScheduler`'s. `tried` records work done since advice came
and guards nothing.

`AuditFits`, `AdviceFits`, `CallFits` and `Awaited` are the parts of `OutcomeInv`, which
the proofs are about and `TypeOK` of the run checks.

### WorkBuddyPool, AntigravityPool

Both have an account file, a set of `task`s (requests and commands under way) and
the upstream that gives out tokens, which are numbers. In `WorkBuddyPool` an
update waits in `chain` for those before it and awaits its read and its rename;
`flights` holds the refreshes that requests of a process share. In
`AntigravityPool` a task keeps the whole store it `loaded` over an awaited refresh
and saves it after; `auth` is pi's own record, which `Sync` adopts at each load.
`Request` then runs the code's loop: `Send`, `Mark` what a refusal says of the
account, `Chunk` and `Finish` the stream, repeat an answer without content.

Abstractions. Prompts, wire formats, endpoints and runtime models are left out;
one model is asked for. Time is a count of cooldown periods.

What an update of WorkBuddy's file does with it is `Changed`, a function of the file, of
what the task brings and of the time; an update that reads before its turn, or that saves
what it read earlier, is then seen as `Atomic` violated. `Orders` are the orders in which
a request may try the accounts that are left.

### AdvisorSession

`session` is `AdvisorSessionState`; a `task` is an `ask_advisor` call (announced,
screened, consulted), a manual consultation, a loop gate, a turn gate or the
recording of an outcome, with its awaits between its steps. `told` records what
was appended for each advice. Prompts, redaction and what is answered are left
out, and a question is one of a small set.

### AdvisorConsult, AdvisorScout, HerdrReports, AdvisorConfig

`AdvisorConsult` is what `AdvisorSession` takes as one call: `talk[t]` a
consultation with its awaits (permission, preparation, a request to a model),
`settings` what `loadConfig` and the dialog change meanwhile, `followUps` the
cached payloads. Of a message it keeps which disclosures each part was made
under, and the sizes that limits are about.

`AdvisorScout` is mostly functions: `projectBranch`, `buildGroups`, the fit to
the transport, `recentConversation`, composed by the steps of one consultation
(offer, resolve a model, stream, time out, abort, use what was selected). A
message is its kind, its calls and its size.

`HerdrReports` has the queue of each source with the report being sent and its
second attempt, against a socket that refuses, answers, or takes a request and
says nothing. That Herdr keeps the report with the highest number is assumed.

`AdvisorConfig` is `advisor.json` with, in each process, what it read
(`baseline`), what is live (`refs`), the dialog, the picker and the activation,
whose awaits are steps. Of keys that are handled alike one is kept. A save reads,
merges and writes in one callback and is one step. `touched` and `off` record
history: `touched` the keys set in a process since it read the file, among them
the consent to outcome logging, which each choice in the dialog writes as the
dialog has it (`InDialog`), and `off` that tools were disabled and not asked for
since.

### GeminiWeb

`store` and `lock` are the credential file and its lock directory, `client[p]` a
process's cached bootstrap with the queue of its setup mutex. Tasks generate,
refresh, import and log out. A cookie header is its identity, its rotated token
and its other cookies; `google` is what was issued last. A crash leaves the lock
for ever, as `auth.ts:402-404` says. Pages, frames and models are left out.

### UsageRefresh

`cache[p]` is the state of a provider (the data, who it came from, when, the
timer), `task` a refresh or a sync of the file under way, `disk` the shared
cache file. Data is the moment it describes, so an older answer over a newer one
can be seen. Intervals (cooldown, burst, backoff) may or may not have passed
whenever the code asks. Rendering and the requests themselves are left out.

### EventBridge

The handlers of the bridge, one action each, against a CLI that sends well-formed
cycles, starts one over while blocks are open, and repeats envelopes. `content`
is the message with, for each part, what was pushed for it; `open` and `said` are
what the CLI knows it sent; `bill` lists what each cycle reported last, and
`context` the size reported last. Texts are counted, not spelt; arguments,
signatures and cost are left out. `inst` bounds an episode (cycles, blocks of a
cycle, parts of a block, sizes reported, tools called) and is chosen at the start.

### MCRequests, MCProviders, Extensions, MCSessionParts

Components that share no state are composed as alternatives: a behaviour chooses
one at the start (`which`), its variables follow the component's module and those
of the others stay `None`. The components' properties are guarded by `which` and
their meaning is stated where they are defined. What a liveness property asks is
the same for each component of `MCRequests`: who asked is answered. `MCProviders`
extends both `CodexPool` and `CliProcess`, which is why no name is defined in both;
it asks what may never happen in them.

`Extensions` is such a composition with constants, which `MCExtensions` gives
values and `ExtensionsProofs` proves about. It takes most components by an
`INSTANCE` of the module with their proofs (`CredentialProofs`,
`ConsultationProofs`, `DisplayProofs`, `GoalSchedulerProofs`, which extend or instantiate
the components), so that the lemmas come with them: a theorem about `Extensions`
cites the lemma of the component under the name of its instance.

## 4. The runs

| Run | Instance | Shows |
|---|---|---|
| `requests` | the Codex pool with 2 linked accounts, a request and a command, a sticky map of one entry, every failure; a CLI that may stay silent at any point, aborts, retirement and thinking changes; both under the fair loop | a valid file, no lost update, one try per account, one source of output, no replay after output; every request, command, stream and tools/call ends |
| `providers` | one of two instances, chosen at the start. The Codex pool: 1 account, linked or not, 2 processes with a request each and a command, 2 credentials, crashes. The CLI: eleven scenarios: two blocks with calls tagged and untagged; the CLI's own context with `--resume`, crashes and a queue of its own; aborts in every phase, beside retirement and changes, and with crashes; unprompted turns beside calls and beside aborts; hooks that settle a tool while the next block is named, or beside crashes; agents that report or never do | the pool: lock exclusion, spent tokens fenced and spent once, late refusals harmless. The CLI: results reach their calls; turns continue whole; a lost session is reimported; `ServedInTurn`; no orphan, no open call without an owner, streams ended once |
| `goal_alone` | 1 session, an allowance of 2, both contracts with a change between them, pacing, waits with and without a check, every outcome, failing writes and dispatches, a crash, 1 act of the user | what is saved can be read back, no intent is stranded or left unserved, no repair loop |
| `session_parts` | the todo list: any call on every list of 3 tasks with every graph, the histories of one session, an overlay that fails to load, two sessions with a UI; and the parts of the Advisor (below) | the list stays sound, replay equals memory, one import, the overlay follows the foreground; `AdvisorSound` |
| `extensions` | twelve components, one per behaviour (below) | one type invariant, and the safety of each |
| `cli_stolen`, `cli_backstop`, `cli_aborted`, `goal_saved`, `goal_blocked`, `goal_ledger`, `config_unusable` | the smallest instance of each | statements of the code's comments that the code does not keep (section 6) |

The components of `extensions`:

| Component | Instance | Properties |
|---|---|---|
| scheduler, retries | 2 sessions over one goal, an allowance of 1, the strict contract, crashes and 2 acts of the user without checks of a wait, or failing runs and 1 act | `AllowanceKept` (the refinement of `Allowance`), `OnlyAuthorisedRuns`: what was superseded never starts a run |
| store | 2 sessions over one goal, or a goal each, or one alone with every handler; up to 3 edits, a stale lock, revisions up to 4 | `EditsKept`: a refused edit never turns up, an accepted one stays buffered until it is saved or refused, what one process alone saved stays, and a write outside a turn keeps what others wrote |
| ledger | up to 4 events of an audit started twice with a late verdict, or 5 of a goal focused, failing a consult and ending; sizes 1 and 2, a write every 2 events | `LedgerKept`: in a session that reads first, index, cache and checkpoint say what the file says, through crashes and held-back writes |
| workbuddy | 2 tasks of one process, 1 account with two new token pairs and a cooldown, or 2 with one new pair between them | `AccountsKept`: an update is one step, tokens only descend from those they replace |
| antigravity | 2 tasks over 2 accounts with every command beside a request, and with tokens refreshed by a request, a discovery or a login; one task with 3 tokens that expire | `NoReplay`: no repeat once a part of the answer was shown |
| advisor | 3 tasks, a budget of 2, a reset | `AdviceCounted`: spent and reserved calls within the budget, one outcome per advice |
| gemini | 2 processes, 2 imports, 2 days, 3 commands | `CookiesSound`: cookies stay with their identity, which is rotated once a period |
| usage | 2 providers, one of them shared with other processes, side by side; the shared one alone through time and 3 tasks | `UsageFollowed`: what is shown is polled, what is hidden is not, and a superseded answer changes nothing |
| bridge | 1 cycle of 2 blocks, 2 with markers, 3 that report sizes, 2 with forwarding | `AnswerFaithful`: each part in its block, each result after its call, usage as last reported |
| outcome | 2 audits and 1 act of the user; 1 audit whose appends may fail, with and without an auditor; a blocker with the oracle and 1 act | `OutcomesSound`: a complete goal was approved or excused in the revision it has, an audit ends once, a blocker is consulted once |
| config | 2 processes over one file: the dialog beside edits by hand (one of them of the consent) and a broken file, the dialog with `off`, activations, pickers | `SettingsKept`: a save leaves alone what its process did not set, tools that were disabled stay so |

The parts of the Advisor in `session_parts`:

| Part | Instance | Properties |
|---|---|---|
| scout | every branch of three messages after a question, or with a compaction or a reset among them; four budgets | `AdvisorSound`: what is selected is what is sent, within its bounds, calls with their results, and the user's request among it |
| herdr | 2 consultations, 4 reports, a queue of one, a change of the setting | `AdvisorSound`: the pane shows the last report, edges are reported in pairs, no notification is shown twice |
| paired, alone, attached | 2 consultations side by side; one with a follow-up while settings change and time passes; one with files and images against every limit | `AdvisorSound`: a follow-up asks the model that answered with what it was allowed, a failing model is replaced once, attachments stay within their limits |

Why these bounds are enough for what the runs ask. Two clients are needed for a
race over the file, and a third actor adds no new kind of step; two credentials
tell a current one from its predecessor; the clock needs one tick to tell a
cooldown that lapsed from one that holds, which `requests` has; in `providers` it
stands still, for the five properties of the pool checked there are proved for any
clock. One call is ever attached, so the
hazards of `CliProcess` are of a call with its predecessor (3 calls, and a third
process for the one that retires the second); two blocks are the fewest that can
be answered out of order or in part. A scenario switches on what it is about
(crashes, aborts, agents, turns of the CLI's own) and the rest is off: the
product of all of them does not finish, and each property is checked in every
scenario that can disturb it. A cycle in a list of three tasks is of every shape
an edge can close; two sessions are the fewest with a foreground and a child. In
`GoalScheduler` only the user's acts are bounded (`MaxActs`: prompts, steering,
pauses, interrupts, resumes, crashes, changes of the setting); two of them, with
two sessions, are enough to claim, lose the claim to the other session, and come
back with the old checkpoint. An allowance of 1 makes the second run the one too
many; a second repair needs an allowance of 2. `MaxChecks` 1 has a wait with its
check, after it, and without any. The advisor's budget of 2 is one less than its
tasks. Where the full product of a module's parts is too large, `Instances` (or
`Scenarios`) lists combinations of them, of which a behaviour takes one; each
handler is in one of them beside each other that it shares state with.

`CHECK_DEADLOCK FALSE`: the models stop where the system does (every client has
ended, every session is shut down, the bound of a counter is reached).

## 5. Fairness

Three runs need it. `CodexPool` takes weak fairness of each client's own
steps: Node resumes an await that settled, a wait for the lock has a deadline, a
refresh a timeout of 15 s, and a request whose server is silent its idle timeout.
That holds of account commands too. Nothing is assumed of crashes, restarts, the clock, or of a person who removes a lock. `CliProcess` takes weak fairness of
`EventLoop` as a whole, the disjunction of the callbacks that are due: Node goes
on running callbacks, in any order. Nothing is assumed of pi, of the user or of
the CLI. `GoalScheduler` takes weak fairness of the timers, of the host's starting
what it was given and ending its runs, and of the time that deadlines and delays
wait for; and strong fairness of `Settled`, because after `agent_end` the host's
own retries and compactions, each of which disables it, are bounded in number.
Nothing is assumed of the user, of the agent's declarations, of wake events or of
a session's restart. The other modules have safety properties only: the author of
`Todo` promises no refresh that an import failed for, a Gemini lock that a dead
process left stays, and `UsageRefresh` says what it must do as an invariant (a
provider that is shown has a timer, a request or a backoff).

## 6. Findings

Each is a run whose property states a comment of the code, and TLC's trace.

* `cli_stolen`: a call is ended by the result of a turn that the CLI took by
  itself. Nobody's turn is on record for a parked process, so the next call reuses
  it and writes its prompt behind that turn. The turn's result has content, which
  tells it from the empty one that `provider.ts:960` reads past, and ends the call:
  replayed by `attach` before the prompt is written, or read after it
  (`provider.ts:1017`). The prompt is then answered to nobody, or to the next call.
  `provider.ts:139` speaks of such a loss in the past tense. `ServedInTurn` of the
  run `providers` asks for a call's own result in every other case.
* `cli_backstop`: the SIGKILL that backs an abort up is cleared by the process's
  close only. A turn that ends in time parks its process, and two seconds after
  the abort the timer kills it, or the call that took it meanwhile
  (`provider.ts:723`).
* `cli_aborted`: a signal that fired during the awaits before the episode makes
  the call return without ending its stream (`provider.ts:727`).
* `goal_saved`: a session whose flush was refused takes the fresh record, but its
  pool cache still has the old one. The reconciliation of its next
  `accountProgress` brings the old record back, and the next flush saves it with
  the fresh revision over the other session's edit (`goal-service.ts:326`).
* `goal_blocked`: the handler that records an attempt to follow the oracle's advice
  counts `update_goal` as work, so a second `update_goal(blocked)` is its own
  attempt and blocks the goal (`goal-events.ts:159`, `goal-tool-names.ts:57`).
* `goal_ledger`: the first append of a session that has not read the index
  extends the checkpoint file as if it had covered the ledger. Events held back by
  the write throttle are lost to the index, and the new one counts twice
  (`goal-ledger.ts:541`). A session that starts with no goal in focus appends
  first (`goal_focused`).
* `config_unusable`: an activation that names a model without a key is refused,
  but the model stays live, because the snapshot that decides what to restore was
  taken before the arguments were applied; the next choice of an executor saves it
  (`activation.ts:224`).

Met while modelling and not run.

* `CliProcess`: an inactivity timer is armed after `attach` even when
  `attach` ended the episode at once (`provider.ts:1018`); a tools/call for a
  block whose line is still in the detached buffer is refused, as a block that no
  pi call has seen (`cli-process.ts:404`; scenario `Hooked`, and the one refusal
  that `ServedInTurn` lets a live turn meet); a
  block that a hook settled is still waited for, and takes the next call of a CLI
  that tags none (`cli-process.ts:393`); a
  turn that ended by a timeout or an exit keeps the session's pointer, which a
  failed result drops (`provider.ts:941`).
* `GoalStore`: the stale pool cache of `goal_saved` also lets a goal be completed
  that changed during its audit (`CompletedAsAudited`, against
  `goal-completion.ts:23`) and lets two sessions charge usage twice
  (`goal-service.ts:231-233`); a teardown persists after its session gave the buffer
  up; a second waiter for a stale lock can remove the first one's new lock,
  which takes three sessions (`goal-lock.ts:108`).
* `WorkBuddyPool`: with two processes `UpdatesAtomic` fails, for the chain is the
  process's own; a login is merged over the stored account and does not reset
  `needsLogin`, so an account that lost its login stays out of every request
  (`store.ts:92`); a 401 marks the account without comparing the token it was for
  (`transport.ts:204-208`).
* `AntigravityPool`: the store that a task saves is the one it loaded before a
  refresh, over what was saved meanwhile (`accounts.ts:308`). No line promises
  otherwise. `response` survives from the account before, so an account that
  answered nothing is marked for its predecessor's refusal (`stream.ts:1554`).
* `GoalLedger`: with two processes the appends of one advance `coveredBytes` past
  the other's lines, so a later session replays its own and misses the other's
  (`goal-ledger.ts:552`).
* `GoalOutcome`: `commitBlocked` does not look at the status again after the
  consultation, so a pause or a budget limit that came meanwhile is overwritten
  (`goal-core-tools.ts:440`, against `goal-policy.ts:43`); a follow-up event
  buffered in a turn that writes no record is dropped with its buffer while its
  marker is gone (`goal-service.ts:207`), and so is a marker at a restart, after
  which that blocker is refused until it is worded otherwise, for the "re-arm"
  arms nothing (`goal-core-tools.ts:323`); an audit that is cancelled under its
  dialog leaves `goalModalDepth` above 0, and the goal's keys are ignored until
  the session ends (`goal-completion.ts:145`).
* `AdvisorConfig`: every choice in the dialog also writes the consent to outcome logging
  as the dialog has it, over what an edit by hand or another process set meanwhile
  (`settings-persistence.ts:154`, where `storage.ts:253` has external edits coexist with a
  later settings save). A choice that disables the tools and cannot be saved turns the
  live `alwaysOn` off (`settings-commands.ts:104`), which the next save of anything writes. So
  `SavesOwn` counts both as set by the process; the first came to light when its proof
  could not be found, and a run with an edit of the consent then showed it.
* `GeminiWeb`: a bootstrap that began before a rotation writes its own copy of the
  cookies over the rotated ones (`client.ts:739`); the ten minutes' backoff after a failed rotation is never reached.
* `UsageRefresh`: `fetchedAt` is when the data was written to the file and not
  when it was fetched (`subscription-usage.ts:2291`, `:2302`); a poke for a
  provider that was left can arm a timer on a state that `/usage refresh all`
  re-created meanwhile (`:2563`).
* `AdvisorSession`: the turn ordinal that "is never reset by anything"
  (`session-state.ts:334-336`) is reset by `resetTask`.

## 7. Proofs

Every theorem is for any values of the constants that the module's assumptions
allow: sets of accounts, sessions and processes of any size, any scenarios and
bounds. Each invariant below is also checked by TLC, or was before it was proved.

| Module | Invariant | Theorems |
|---|---|---|
| `CodexPoolProofs` | `IInv`, `FileInv`, `RequestInv` | `LockExclusion`, `SpentNeverUsable`, `NoDoubleSpend`; `NeedsLoginJustified`, `NoLostUpdate`, `CooldownMonotone`; `FailoverSound`, `NoReplayAfterOutput` |
| `CliProcessProofs` | `CliInv` | `OpenCallsHeld`, `ContinuesWhole`, `AttemptsSound`; `AnswersMatch` where calls are tagged |
| `TodoProofs` | `IInv`, `RefreshInv` | `ListsSound`, `MemoryIsReplay`, `OneImport`, `OverlayBound`; `OverlayCurrent` where `CallsEnd` |
| `GoalSchedulerProofs` | `SchedulerInv`, `IntentInv` | `SavesAccepted`, `OnlyAuthorisedRuns`, `RepairOnce`, `AllowanceKept` (the refinement), `NoStrandedIntent` |
| `ConsultationProofs` | `AdvisorInv`, `OutcomeInv`, `ConfigInv`, `LedgerInv` | `BudgetKept`, `OutcomeOnce`; `AuditedCompletion`, `AuditsEndOnce`, `OneConsultation`; `SavesOwn`, `OffStays`; `IndexCurrent`, `CheckpointIsPrefix` where the session `readsFirst` |
| `CredentialProofs` | `AntigravityInv`, `GeminiInv`, `WorkBuddyInv` | `NoReplay`; `OneIdentity`, `RotationPaced`; `Atomic` and `Descends` where one process is `Alone` |
| `DisplayProofs` | `UsageInv`, `BridgeInv` | `PollingGoesOn`, `HiddenIsQuiet`, `InOrder`; `EveryPartInPlace`, `ResultsFollowCalls`, `GaugeIsContext`, `BilledOnce` |
| `ExtensionsProofs` | `ExtensionsInv` | of the run `extensions`: `NoReplay`, `AdviceCounted`, `CookiesSound`, `OutcomesSound`, `AnswerFaithful`, `AllowanceKept`, `OnlyAuthorisedRuns`, `UsageFollowed`, `SettingsKept`, `LedgerKept`; `AccountsKept` where one process is `Alone` |

### CodexPool

From `PoolAssumption` and `InitStoreAssumption`. `SpentNeverUsable` says that a
token handed to the server is fenced *in the file*; a client under the lock has a
copy in `mem` that it will save, so `IInv` says the same of that copy, that the
copy was read under the lock the client still owns, that credentials in file,
copies and requests were all issued, and that a client about to send a token
fenced it first. A step is shown to keep this by what it does to the file and its
copies: nothing (`Quiet`), a copy derived from the file, a save, a new
credential, a refresh sent, answered or failed; each action is one of these.

`FileInv` adds what a copy about to be saved owes the file: it is valid, equal to
the file in every account but the one its update worked on, and has no shorter
cooldown for an unchanged credential (`Faithful`). That is why no save loses an
update, although the file is written whole. It holds because of `LockExclusion`,
which is proved first: the file cannot have moved since the copy was read.

`RequestInv` is about the failover loop: an account that was never tried was sent
nothing (so a retry cannot repeat one), an account is tried before it is sent to,
and what the consumer saw is of the account being sent to, from the moment the
output is committed to the end of the request.

### CliProcess

`CliInv` is a statement about a world and its settings, for the callbacks are
built from operators that take a world and return one. Its parts: an open call is
in one pending map, of a process that is alive and serves (`Held`); a block is
announced by one line, read after it was written and before anything waits for
it (`Announced`); a process other than the parked one serves only while it is in
the call's hands (`KeptBut`); how a call is ended (`CallSound`), what holds of a
second attempt (`Missed`), and, between callbacks, that an open call is attached
to a process whose turn lives (`Live`). `ContinuesWhole` needs three more: that
a process between turns waits on nothing (`Quiet`), that what the parked process
waits on is what pi is running tools for (`Owed`), and that what an attached
process waits on is what its line told this call of (`Whole`).

A callback breaks some of this between two of its operators: a process that is
retired has let go of its calls before the call that held it is ended. So each
operator has a lemma that says what it keeps (`Moves`: nobody gains a call, a
block is settled only by an answer to the call that waited), and what holds of
the world in between (`Core`, the same without `Live`; `CoreBut`, with one process
released). Steps of the CLI itself, which change a program and its blocks and
nothing that node holds, are covered once (`Beside`, `TalksStep`). Replaying the
buffer is a fold over the lines, whose lemma is by induction over the number of
lines fed (a well-founded minimum, as no induction theorem with an operator
parameter can be cited).

`AnswersMatch` is proved where `\A c \in Scenarios : c.idTags`. Without tags the
code takes the one block that waits, if there is one; that this is the right one
needs a CLI that settles no block by itself, as TLC shows (with `hooks` a
block that a hook settled is still waited for, and takes the next call), and
what such a CLI does in order; that stays with TLC.
`WellFormed` stays there too: that every parked process has its idle timer and
that no process has two owners is checked in all scenarios, and needs more of
the timers than `CliInv` says.

### Todo

`IInv == ListInv /\ ImportInv /\ ScreenInv`. First the reducer's lemmas: a create,
an update and a delete that are not refused keep a list sound (a new cycle would
need the edge that was refused). Then replay: an appended state entry decides it,
and a result only while there is none. `MemoryIsReplay` is not inductive, for a
result may land after later calls: the missing fact is `LandingIsMemory`, that
while a branch has no state entry no call has changed the list, so each result
under way repeats it. `ImportInv` says that an import under way is the memo's, and
`ScreenInv` ties widget, overlay, UI and foreground.

`WidgetIsCurrent` has the hypothesis `CallsEnd`: a session with a UI has only the
model's own calls. A call made through another tool is followed by no
`tool_execution_end` of its own, and the widget then waits for the next one; the
scenarios of the run are of both kinds, and keep such calls to sessions without
a UI. `RefreshInv` says that whenever no call and no refresh of the present
generation is under way, the widget is what another look would make it. A list
that changes outside the foreground, an import that is lost, a new turn that hides
completed tasks: each is shown to leave that alone, and a refresh to bring it
about.

### GoalScheduler

From `SchedulerAssumption`, whose one bound on data says that there are more ids
than can be held at once (`Cardinality(Uuids) > 5 * Cardinality(Sessions) + 3`), so that
a fresh one exists as a random one does; that is proved by counting the holders.
`SchedulerInv` says of the file that it would be accepted (`GoalSound`), that
a claim is charged before it runs (`Paid`), and that a checkpoint of the
current claim is only with the session it was granted to (`Granted`). Handlers are
functions from a context to a context, so each has a lemma: it keeps the context
well-formed and what a handler keeps (`Keeps`), except the three that are meant
to do otherwise, which admit a checkpoint (`Admits`), claim (`Claims`) and resume.
`AllowanceHolds` proves that the scheduler implements `Allowance` under
`paid <- goal.used`: each step of the scheduler is a payment, a start, a renewal by
the user, or a stutter.

`NoStrandedIntent` is about timers and flags in the memory of the session that
owns the intent, and needs `IntentInv`: where the session's host stands decides
which of them may be set (`MemoryOK`), and while it is busy something of the run
will still settle (`Scheduled`). In the proof this is a predicate on contexts
(`Fit`), one lemma per handler, in which a failed write or run is a separate way to
fit: `failed` excuses the intent, and must be shown to be set whenever it is
needed.

### AdvisorSession, GoalOutcome

From the modules' own assumptions. `BudgetKept` is what the code's
check before a reservation and at its execution gives; it is inductive with the
types. `OutcomeOnce` is not: `Counted` adds that the number of a task is of no
other and has no outcome yet, that an outcome of an issued advice is written or
under way only once, and that tasks of an earlier session, which still hold
advice after a reset, cannot append to what was reported since.

`OutcomeInv` says, of an audit, that it is of the goal's revision or an earlier one
(and of its shape, if of the same revision), that it ends when its phase does, and
that the one that has not ended is the active one with a current call that waits
for it; so a verdict that finds its audit active and its revision unchanged
completes what was audited. Of the calls, one is of the present session, and those
of a replaced one have lost the focus: so while a current call
waits for the oracle, nobody else brings advice for its fingerprint, and an answer to
any other call is not recorded as a result.

### AdvisorConfig

From `ConfigAssumption`, which types the values. `SavesOwn` is about one step, and
needs to know what a process would write if it saved now: `OwnChanges` says that
the keys in which its live values differ from its baseline are among those it
has set since it read the file, and so are those in which its dialog differs
from that baseline, unless the dialog is older than the reading. Each command reads,
changes or saves; `Merged` then writes at most what `Changed` names. `OffStays` needs that
an activation under way is of an earlier revision than the one that
disabled the tools (`Outdated`), and that what it would put back is what was there.

### GoalLedger

From `LedgerAssumption`, which types the blocks of an instance; goals, blocks, sizes,
caps and intervals are any. A checkpoint covers a prefix of the file, is extended
by an event at a time (`Applied`), and is compared with the one built of that prefix
after both are settled (`Settled`), for a load forgets the focus on a goal that ended
and an extension in memory does not. Settled checkpoints that are equal stay equal
under an event (`AppliedSame`), with one exception: an event that creates the goal
which one of them still has in focus would open it again. `LedgerInv` therefore adds
that the focus of a checkpoint is on a goal its prefix names, and that ids are
new. Without new ids the property is false, as TLC showed when ids could be used again:
a session that had settled its checkpoint and one that had not would then disagree. The rest of
`LedgerInv` says which prefix: some one for the checkpoint file, all that is
recorded for the one in memory. The events past a checkpoint are found by its bytes,
and as a line has at least one, bytes tell prefixes apart (`BytesTell`, `TailIs`).
Bytes and checkpoints are folds; what a fold does to an event more is proved from
the folding function itself (`FedAppend`, `BytesAppend`), and what it does to a run of
events by the least length at which it would not (`AgreesAlong`).

### AntigravityPool, GeminiWeb, WorkBuddyPool

`NoReplay` needs that a request tries an account once: that every token it or the
store holds was minted, so that a new one was not tried; that its failover set
is of untried tokens of the store it loaded; and, for each place in its loop,
what may have been shown.

`GeminiInv`: whatever holds a cookie (the file, a cached page, a request) holds it with
the identity it was imported under; who rotates or verifies holds the lock, and
what it read is still what the file says, for every writer of the file takes the
lock; and a rotation of the stored identity is not later than the date in the
file, so that `Due` refuses a second one in its period.

`WorkBuddyInv` has two ideas. A task that writes is the head of the chain of its
process, so what it is about to write is its change of the file as it *is*
(`TaskFits`); this needs `Alone`, for the code has a chain for each process and no
lock between them, and with two processes TLC refutes it. And of the tokens of an
account that anyone knows, at most one is close to expiry (`TokensFit`), so a request
that joins a refresh under way would have spent the very token that it spends, and
the pair it brings descends from that one. The work on this proof found two
cases of a `CASE` in the model that were true together; they are disjoint now.

### UsageRefresh

`PollingGoesOn` and `HiddenIsQuiet` are inductive with the types and `Fits`: a
provider has one request whose answer will be applied, its state lives, and what
this process fetched before describes no later moment than the one that request
was sent at. The last is what makes `InOrder` hold of every step. A state that
is cleared disowns its requests, so the state that is re-created after it owes
nothing to them.

### EventBridge

From `BridgeAssumption`: the tools are finitely many, and an instance calls some of
them. `BridgeInv` has three parts. `PartsFit`, for `EveryPartInPlace`: the blocks of
a cycle are numbered from 0 without gaps, so that a block which starts has a key
that nothing has yet (`SaidFits`); a tracked block that was not stopped has counted
what was sent of it, shares its key with no other, and its place in the message
is its own and not ended (`BlockFits`); and a block of the message that is
still open is tracked, so that no part of it is dropped (`ItemFits`). A cycle that starts over
leaves blocks of the last one tracked: their keys name the earlier cycle, and that
is why an index of the new one does not find them. `BillFits`, for
`GaugeIsContext` and `BilledOnce`: until the result there is a bill for each cycle,
and the open cycle's figures are its last entry, so what `message_delta` replaces
is what was added. `Total` is a recursive function over the bill; that it grows by
what is appended (`TotalAppend`), and changes by what is replaced (`TotalReplace`), is
proved by the least length at which it would not. `ResultsFollowCalls` is by
counting: the places of a tool's markers before a step, and those it appends.

### Extensions

`ExtensionsInv` is the invariant of the component that runs. A step of `Extensions` is
one of that component (`Acting`), so each theorem combines it with the component's
lemmas, cited through its instance. The scheduler is instantiated twice, with
different constants for outcomes and acts, and `AllowanceHolds` shows that both
implement one `Allowance`. The hypotheses are `Assumptions`, which TLC evaluates,
and for `AccountsAreKept` that one process uses WorkBuddy's file, as the run has it.

### What stays with TLC

Liveness, because TLAPS has no rules for fairness here: `RequestsEnd`,
`AnswersCome`, `IntentServed`. `ServedInTurn`, which rests on the order of
prompts and results in the pipes. `DetectCycleExact`, whose
search is recursive, which the SMT backend does not take. `WellFormed` and
`AnswersMatch` without tags, as said above. `EditsKept`, whose invariant would speak of
every list of calls a handler may leave behind at a lock, and `AdvisorSound`, which is
about functions of a branch more than about steps; both are checked only.

## 8. Not modelled

What `components` lists as not modelled, for the reason it gives: text built for a
model or a terminal, forms and settings that one user edits, single requests, and
display. Of the modelled parts: permissions of files, symbolic links and fsync;
the parsing of SSE, of JSON lines and of web pages; task text and widget layout;
what a model answers. No run composes components of different extensions, for
none of them writes another's state: they meet in pi, which each model has as its
environment.

Steps that are coarser than the code. `UsageRefresh`: the end of a bare `/usage` arms
the provider that is active then, the code the one it began with
(`subscription-usage.ts:2677`), and `lastFetch` is taken after the disk is read, the
code takes it before (`:2299`). `WorkBuddyPool`: an import is of a pair that is
not about to expire, so it makes no refresh beside one under way
(`workbuddy-pool/index.ts:96`). `GeminiWeb`: a rotation and its save are one step
(`client.ts:793-808`); a crash between them leaves the lock, as one before does.
`GoalOutcome`: the flush before an audit succeeds; where it fails, the code answers
with its error and starts none (`goal-completion.ts:51`).
`AdvisorScout`: a budget is positive (`scout-curation.ts:35`). `AntigravityPool`: what
is tried with one token within a round is one step.
