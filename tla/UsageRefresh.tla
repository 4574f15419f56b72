---------------------------- MODULE UsageRefresh ----------------------------
(***************************************************************************)
(* The usage footer of one process (subscription-usage.ts): per provider a *)
(* state with the last data, one pending timer and at most one current     *)
(* request; a fetch is started by a timer, by the session's events         *)
(* ("poke") or by /usage, and its answer is dropped when a newer request   *)
(* or a cleared state has overtaken it.  Providers in Shared also exchange *)
(* data through a cache file with the other processes (cache.ts).          *)
(*                                                                         *)
(* Rendering is left out.  Data is the moment it describes.  A clear       *)
(* disowns the tasks of the old state, which is how `cache.get(id) ===     *)
(* state` fails; a newer request makes the older ones not current.  The    *)
(* cooldown, burst and backoff intervals may or may not have passed.       *)
(***************************************************************************)
EXTENDS Naturals

CONSTANTS
  Providers, Shared, Tasks,
  Instances,  \* bounds, of which a behaviour takes one: the providers used, how many
              \* moments pass and how many tasks begin
  None

Kinds == {"poke", "timer", "command", "sync"}
State == [data : Nat \cup {None}, own : BOOLEAN, fetched : Nat \cup {None}, text : BOOLEAN,
          timer : BOOLEAN]
Refresh == [kind : Kinds, of : Providers, force : BOOLEAN,
            stage : {"disk", "joined", "fetch", "write"}, with : Tasks \cup {None},
            owns : BOOLEAN, current : BOOLEAN, live : BOOLEAN, start : Nat, data : Nat]

SharedAssumption ==
  /\ Shared \subseteq Providers
  /\ Instances \subseteq [used : SUBSET Providers, now : Nat, starts : Nat]
  /\ None \notin Providers \cup Nat \cup {"on", "off"}
  /\ None \notin State /\ None \notin Refresh

VARIABLES
  inst,
  cache,    \* by provider: None, or its state
  task,     \* by task: None, or a refresh or a file sync under way
  disk,     \* by provider: None, or what the shared file says
  model,    \* the provider of the session's model, None for one without usage
  session,  \* is a session open
  routed,   \* have the handlers of the last session or model event run
  mode,     \* "on" (bars or percent) or "off"
  toggling, \* a /usage toggle that awaits savePrefs
  watching, \* is the shared file watched
  now, starts

usvars == <<inst, cache, task, disk, model, session, routed, mode, toggling, watching, now, starts>>

USTypeOK ==
  /\ inst \in Instances
  /\ cache \in [Providers -> State \cup {None}]
  /\ task \in [Tasks -> Refresh \cup {None}]
  /\ disk \in [Providers -> [data : Nat, at : Nat] \cup {None}]
  /\ model \in Providers \cup {None} /\ session \in BOOLEAN /\ routed \in BOOLEAN
  /\ mode \in {"on", "off"} /\ toggling \in {"on", "off", None} /\ watching \in BOOLEAN
  /\ now \in 0..inst.now /\ starts \in 0..inst.starts

USInit ==
  /\ cache = [p \in Providers |-> None] /\ task = [t \in Tasks |-> None]
  /\ disk = [p \in Providers |-> None]
  /\ inst \in Instances
  /\ model \in inst.used /\ session = TRUE /\ routed = FALSE
  /\ mode = "on" /\ toggling = None /\ watching = FALSE /\ now = 0 /\ starts = 0

freshState == [data |-> None, own |-> FALSE, fetched |-> None, text |-> FALSE, timer |-> FALSE]

Idle == {t \in Tasks : task[t] = None}
Busy(p, tasks) == {t \in Tasks : tasks[t] # None /\ tasks[t].of = p}
\* Mutant: only a cleared state makes an answer stale.
OwnedRequest(t) == task[t].owns

isCurrentRequest(t) == task[t].owns /\ task[t].current

(* clear: the states are dropped with their timers, their tasks disowned.  *)
ClearedCache(ps) == [p \in Providers |-> IF p \in ps THEN None ELSE cache[p]]
ClearedTasks(ps) ==
  [t \in Tasks |-> IF task[t] # None /\ task[t].of \in ps
                   THEN [task[t] EXCEPT !.owns = FALSE, !.current = FALSE] ELSE task[t]]

(* refresh, up to its first await: a request that is not `hard` joins one  *)
(* under way; any other supersedes it and every file sync of the provider. *)
InFlight(p, tasks) ==
  {t \in Busy(p, tasks) : tasks[t].kind # "sync" /\ tasks[t].owns /\ tasks[t].current}

Request(kind, p, force) ==
  [kind |-> kind, of |-> p, force |-> force, stage |-> "disk", with |-> None, owns |-> TRUE,
   current |-> TRUE, live |-> TRUE, start |-> 0, data |-> 0]

Started(tasks, t, kind, p, force) ==
  IF InFlight(p, tasks) # {}
  THEN [tasks EXCEPT ![t] = [Request(kind, p, force) EXCEPT
          !.stage = "joined", !.current = FALSE, !.with = CHOOSE u \in InFlight(p, tasks) : TRUE]]
  ELSE [u \in Tasks |->
          IF u = t THEN Request(kind, p, force)
          ELSE IF u \in Busy(p, tasks) THEN [tasks[u] EXCEPT !.current = FALSE] ELSE tasks[u]]

Ensured(states, p) ==
  IF states[p] = None THEN [states EXCEPT ![p] = freshState] ELSE states

(* The promise of t settles: so do those that joined it, and each runs on  *)
(* to its end: a poke and a timer arm the provider's timer (poke only if   *)
(* it fetched or none is armed), a timer only for the state it was set on, *)
(* the last request of a command for the provider that is active then.     *)
Settling(t) == {t} \cup {u \in Busy(task[t].of, task) : task[u].with = t}

\* Mutant: a poke arms the timer only when it fetched.
ArmsAfterFetch(u, p, done, outcome, states) ==
  /\ states[p] # None /\ task[u].live
  /\ CASE task[u].kind = "poke" -> p = task[u].of /\ outcome = "fetched"
       [] task[u].kind = "timer" -> p = task[u].of /\ task[u].owns
       [] OTHER -> p = model /\ {v \in Tasks \ done : task[v] # None /\ task[v].kind = "command"} = {}

Arms(u, p, done, outcome, states) ==
  /\ states[p] # None /\ task[u].live
  /\ CASE task[u].kind = "poke" -> p = task[u].of /\ (outcome = "fetched" \/ ~states[p].timer)
       [] task[u].kind = "timer" -> p = task[u].of /\ task[u].owns
       [] OTHER -> p = model /\ {v \in Tasks \ done : task[v] # None /\ task[v].kind = "command"} = {}

Settle(t, outcome, states) ==
  LET done == Settling(t)
      armed == {p \in Providers : \E u \in done : Arms(u, p, done, outcome, states)}
  IN  /\ cache' = [p \in Providers |->
                     IF p \in armed THEN [states[p] EXCEPT !.timer = TRUE] ELSE states[p]]
      /\ task' = [u \in Tasks |-> IF u \in done THEN None ELSE task[u]]

----------------------------------------------------------------------------
(* The stages of refresh                                                   *)

Adopted(p) ==
  IF p \in Shared /\ disk[p] # None /\ (cache[p].fetched = None \/ disk[p].at > cache[p].fetched)
  THEN [cache EXCEPT ![p].data = disk[p].data, ![p].own = FALSE, ![p].fetched = disk[p].at]
  ELSE cache

(* The shared file is read, newer data adopted; then what was fetched or   *)
(* tried moments ago is reused, or the provider is asked.                  *)
DiskRead(t) ==
  /\ task[t] # None /\ task[t].stage = "disk" /\ task[t].kind # "sync"
  /\ LET p == task[t].of IN
     IF ~isCurrentRequest(t) THEN Settle(t, "cached", cache)
     ELSE \/ /\ \/ task[t].kind = "poke" /\ ~task[t].force /\ cache[p].text
                \/ task[t].kind # "command" /\ Adopted(p)[p].data # None
             /\ Settle(t, "cached", [Adopted(p) EXCEPT ![p].text = @ \/ Adopted(p)[p].data # None])
          \/ /\ cache' = Adopted(p)
             /\ task' = [task EXCEPT ![t].stage = "fetch", ![t].start = now]
  /\ UNCHANGED <<inst, disk, model, session, routed, mode, toggling, watching, now, starts>>

(* The answer describes a moment since the request was sent.  It is        *)
(* applied unless the session is gone or the request no longer current.    *)
Fetched(t) ==
  /\ task[t] # None /\ task[t].stage = "fetch"
  /\ LET p == task[t].of IN
     \E data \in task[t].start..now :
       IF ~task[t].live \/ ~isCurrentRequest(t) THEN Settle(t, "cached", cache)
       ELSE LET applied == [cache EXCEPT ![p].data = data, ![p].own = TRUE,
                                         ![p].fetched = task[t].start, ![p].text = TRUE]
            IN  IF p \in Shared
                THEN cache' = applied /\ task' = [task EXCEPT ![t].stage = "write", ![t].data = data]
                ELSE Settle(t, "fetched", applied)
  /\ UNCHANGED <<inst, disk, model, session, routed, mode, toggling, watching, now, starts>>

(* An error, a missing credential or an abort.                             *)
FetchFails(t) ==
  /\ task[t] # None /\ task[t].stage = "fetch"
  /\ \E outcome \in {"skipped", "failed"} :
       IF ~task[t].live \/ ~isCurrentRequest(t) THEN Settle(t, "cached", cache)
       ELSE Settle(t, outcome, [cache EXCEPT ![task[t].of].text = TRUE])
  /\ UNCHANGED <<inst, disk, model, session, routed, mode, toggling, watching, now, starts>>

(* diskCache.write dates the data when it is written; a failure is logged. *)
Written(t) ==
  /\ task[t] # None /\ task[t].stage = "write"
  /\ \/ disk' = [disk EXCEPT ![task[t].of] = [data |-> task[t].data, at |-> now]]
     \/ UNCHANGED disk
  /\ Settle(t, "fetched", cache)
  /\ UNCHANGED <<inst, model, session, routed, mode, toggling, watching, now, starts>>

(* Another process writes what it fetched some time ago.                   *)
OtherWrites(p) ==
  /\ p \in Shared
  /\ \E data \in 0..now : disk' = [disk EXCEPT ![p] = [data |-> data, at |-> now]]
  /\ disk' # disk
  /\ UNCHANGED <<inst, cache, task, model, session, routed, mode, toggling, watching, now, starts>>

----------------------------------------------------------------------------
(* What starts a refresh                                                   *)

Start == starts < inst.starts /\ starts' = starts + 1

TimerFires(t, p) ==
  /\ t \in Idle /\ cache[p] # None /\ cache[p].timer /\ Start
  /\ cache' = [cache EXCEPT ![p].timer = FALSE]
  /\ task' = Started(task, t, "timer", p, FALSE)
  /\ UNCHANGED <<inst, disk, model, session, routed, mode, toggling, watching, now>>

(* route: the other providers' states go, the active one is poked.         *)
Route(t, force) ==
  /\ session /\ (force <=> ~routed)
  /\ routed' = TRUE
  /\ IF mode = "off"
     THEN watching' = FALSE /\ UNCHANGED <<cache, task, starts>>
     ELSE LET gone == {p \in Providers : p # model \/ (force /\ p \notin Shared)}
          IN  IF model = None
              THEN /\ cache' = ClearedCache(gone) /\ task' = ClearedTasks(gone)
                   /\ watching' = FALSE /\ UNCHANGED starts
              ELSE /\ t \in Idle /\ Start
                   /\ cache' = Ensured(ClearedCache(gone), model)
                   /\ task' = Started(ClearedTasks(gone), t, "poke", model, force)
                   /\ watching' = (model \in Shared)
  /\ UNCHANGED <<inst, disk, model, session, mode, toggling, now>>

(* /usage and /usage refresh [all]: a hard request for each target.        *)
Command(ts, targets) ==
  /\ session /\ mode = "on" /\ ts \subseteq Idle /\ targets # {} /\ Start
  /\ \A u \in Tasks : task[u] # None => task[u].kind # "command"
  /\ targets \in {{model}, inst.used} \ {{None}}
  /\ \E at \in [ts -> targets] :
       /\ \A p \in targets : \E t \in ts : at[t] = p
       /\ \A t, u \in ts : at[t] = at[u] => t = u
       /\ cache' = [p \in Providers |-> IF p \in targets /\ cache[p] = None THEN freshState ELSE cache[p]]
       /\ task' = [u \in Tasks |->
            IF u \in ts THEN Request("command", at[u], TRUE)
            ELSE IF task[u] # None /\ task[u].of \in targets THEN [task[u] EXCEPT !.current = FALSE]
            ELSE task[u]]
  /\ UNCHANGED <<inst, disk, model, session, routed, mode, toggling, watching, now>>

(* syncFromDisk, from the watched file's change to the end of its read.    *)
SyncStart(t) ==
  /\ t \in Idle /\ watching /\ session /\ mode = "on" /\ model \in Shared /\ cache[model] # None
  /\ Start
  /\ task' = [task EXCEPT ![t] = Request("sync", model, FALSE)]
  /\ UNCHANGED <<inst, cache, disk, model, session, routed, mode, toggling, watching, now>>

SyncRead(t) ==
  /\ task[t] # None /\ task[t].kind = "sync"
  /\ LET p == task[t].of IN
     cache' = IF isCurrentRequest(t) /\ Adopted(p) # cache
              THEN [Adopted(p) EXCEPT ![p].text = TRUE, ![p].timer = TRUE] ELSE cache
  /\ task' = [task EXCEPT ![t] = None]
  /\ UNCHANGED <<inst, disk, model, session, routed, mode, toggling, watching, now, starts>>

(* /usage toggle: the mode changes at once, the rest after savePrefs.      *)
Toggle(next) ==
  /\ session /\ toggling = None /\ mode' = next /\ toggling' = next /\ Start
  /\ UNCHANGED <<inst, cache, task, disk, model, session, routed, watching, now>>

Toggled(t) ==
  /\ toggling # None /\ toggling' = None
  /\ IF toggling = "off"
     THEN /\ cache' = ClearedCache(Providers) /\ task' = ClearedTasks(Providers)
          /\ watching' = FALSE /\ UNCHANGED starts
     ELSE /\ UNCHANGED watching
          /\ IF model = None \/ ~session THEN UNCHANGED <<cache, task, starts>>
             ELSE IF cache[model] # None /\ cache[model].data # None
             THEN cache' = [cache EXCEPT ![model].timer = TRUE] /\ UNCHANGED <<task, starts>>
             ELSE /\ t \in Idle /\ Start
                  /\ cache' = Ensured(cache, model)
                  /\ task' = Started(task, t, "poke", model, TRUE)
  /\ UNCHANGED <<inst, disk, model, session, routed, mode, now>>

----------------------------------------------------------------------------
(* The session: its model changes, it ends, another begins                 *)

SelectModel(p) ==
  /\ session /\ model # p /\ model' = p /\ routed' = FALSE
  /\ UNCHANGED <<inst, cache, task, disk, session, mode, toggling, watching, now, starts>>

Shutdown ==
  /\ session /\ session' = FALSE /\ watching' = FALSE /\ routed' = FALSE
  /\ cache' = ClearedCache(Providers)
  /\ task' = [t \in Tasks |-> IF task[t] = None THEN None
                              ELSE [ClearedTasks(Providers)[t] EXCEPT !.live = FALSE]]
  /\ toggling' = IF toggling = "on" THEN None ELSE toggling
  /\ UNCHANGED <<inst, disk, model, mode, now, starts>>

NewSession ==
  /\ ~session /\ session' = TRUE
  /\ UNCHANGED <<inst, cache, task, disk, model, routed, mode, toggling, watching, now, starts>>

Tick ==
  /\ now < inst.now /\ now' = now + 1
  /\ UNCHANGED <<inst, cache, task, disk, model, session, routed, mode, toggling, watching, starts>>

USNext ==
  \/ \E t \in Tasks :
       \/ DiskRead(t) \/ Fetched(t) \/ FetchFails(t) \/ Written(t)
       \/ SyncStart(t) \/ SyncRead(t) \/ Toggled(t)
       \/ \E force \in BOOLEAN : Route(t, force)
       \/ \E p \in Providers : TimerFires(t, p)
  \/ \E ts \in SUBSET Tasks, targets \in SUBSET Providers : Command(ts, targets)
  \/ \E next \in {"on", "off"} : Toggle(next)
  \/ \E p \in inst.used \cup {None} : SelectModel(p)
  \/ \E p \in inst.used : OtherWrites(p)
  \/ Shutdown \/ NewSession \/ Tick

USSpec == USInit /\ [][USNext]_usvars

----------------------------------------------------------------------------
(* A task that will arm the timer of provider p.                           *)
Polls(x, p) ==
  /\ x # None /\ x.live
  /\ \/ x.kind = "poke" /\ x.of = p
     \/ x.kind = "timer" /\ x.of = p /\ x.owns
     \/ x.kind = "command"

(* Polling never stops by itself: while usage is shown for the session's   *)
(* provider and its events are handled, its timer is armed or a task is    *)
(* under way that arms it, however refreshes, file syncs, commands and     *)
(* sessions overtook one another.                                          *)
PollingGoesOn ==
  session /\ routed /\ mode = "on" /\ toggling = None /\ model # None =>
    /\ cache[model] # None
    /\ cache[model].timer \/ \E t \in Tasks : Polls(task[t], model)

(* Hidden usage costs nothing: no timer is left and no answer will be      *)
(* applied once a toggle to "off" or the end of the session has cleared    *)
(* the states.                                                             *)
HiddenIsQuiet ==
  (mode = "off" /\ toggling = None) \/ ~session =>
    \A p \in Providers : cache[p] = None

(* An answer that arrives late never takes the place of a later one: what  *)
(* this process fetched itself of one provider only moves forward, as long *)
(* as its state lives.                                                     *)
InOrder ==
  \A p \in Providers :
    cache[p] # None /\ cache'[p] # None /\ cache[p].own /\ cache'[p].own
      => cache'[p].data >= cache[p].data
AnswersInOrder == [][InOrder]_usvars

----------------------------------------------------------------------------
(* What these rest on.  A provider has one request whose answer will be    *)
(* applied, of a state that lives, and what this process fetched before    *)
(* describes no later moment than the one that request was sent at.        *)
CurrentOf(p, tasks) == {t \in InFlight(p, tasks) : tasks[t].stage = "fetch"}

Fits(states, tasks, n) ==
  /\ \A t \in Tasks : tasks[t] # None =>
       /\ tasks[t].owns => states[tasks[t].of] # None
       /\ tasks[t].kind = "sync" => tasks[t].stage = "disk"
       /\ tasks[t].stage = "fetch" => tasks[t].start <= n
  /\ \A p \in Providers : \A t, u \in InFlight(p, tasks) : t = u
  /\ \A t, u \in Tasks :
       /\ tasks[t] # None /\ tasks[t].kind = "command"
       /\ tasks[u] # None /\ tasks[u].kind = "command"
       => tasks[t].live = tasks[u].live
  /\ \A p \in Providers : states[p] # None /\ states[p].own =>
       /\ states[p].data \in 0..n
       /\ \A t \in CurrentOf(p, tasks) : states[p].data <= tasks[t].start

UsageInv ==
  /\ USTypeOK /\ Fits(cache, task, now) /\ PollingGoesOn /\ HiddenIsQuiet
  /\ toggling # None => mode = toggling
  /\ routed => session
=============================================================================
