---------------------------- MODULE DisplayProofs ----------------------------
(* Theorems about what a user is shown: of UsageRefresh, that polling goes  *)
(* on, hidden usage is left alone and answers come in order, for any number *)
(* of providers, tasks, moments and sessions; of EventBridge, that parts    *)
(* land in their blocks, markers come in order, and the gauge and the bill  *)
(* say what was reported, for any number of cycles, blocks, parts and tools. *)
EXTENDS UsageRefresh, FiniteSetTheorems, SequenceTheorems, WellFoundedInduction, TLAPS

CONSTANTS Tools, BridgeInstances

VARIABLES ebInst, blocks, content, cycle, cumulative, cycleUsage, lastCycle, usage, stopReason,
          markedTools, forwardedResultIds, open, said, phase, bill, context

bridgeVars == <<ebInst, blocks, content, cycle, cumulative, cycleUsage, lastCycle, usage,
                stopReason, markedTools, forwardedResultIds, open, said, phase, bill, context>>

Bridge == INSTANCE EventBridge WITH Instances <- BridgeInstances, inst <- ebInst

-----------------------------------------------------------------------------
(* The usage footer.                                                         *)

CacheType == [Providers -> State \cup {None}]
TaskType == [Tasks -> Refresh \cup {None}]

\* From states s to z timers are armed and data of others is adopted; nothing
\* that this process fetched itself appears.
Milder(s, z) ==
  /\ z \in CacheType
  /\ \A p \in Providers :
       /\ z[p] = None <=> s[p] = None
       /\ s[p] # None =>
            /\ z[p].own => s[p].own /\ z[p].data = s[p].data
            /\ s[p].timer => z[p].timer

\* What another set of states must keep of the cache.
Follows(z) ==
  /\ z \in CacheType
  /\ \A p \in Providers :
       /\ z[p] = None <=> cache[p] = None
       /\ cache[p] # None =>
            /\ cache[p].timer => z[p].timer
            /\ z[p].own /\ cache[p].own => z[p].data >= cache[p].data

Without(t) == [u \in Tasks |-> IF u \in Settling(t) THEN None ELSE task[u]]

\* From tasks T to U some are gone, overtaken or disowned.
Fewer(T, U) ==
  \A t \in Tasks : U[t] # None =>
    /\ T[t] # None /\ U[t].kind = T[t].kind /\ U[t].of = T[t].of /\ U[t].stage = T[t].stage
    /\ U[t].start = T[t].start /\ U[t].live = T[t].live
    /\ U[t].owns => T[t].owns
    /\ U[t].current => T[t].current

LEMMA FitsMilder ==
    ASSUME SharedAssumption, NEW s \in CacheType, NEW z, Milder(s, z), NEW T, NEW n,
           Fits(s, T, n), T \in TaskType
    PROVE  Fits(z, T, n)
BY DEF Fits, Milder, TaskType, Refresh, SharedAssumption

\* Only what this process fetched itself matters.
LEMMA FitsAlike ==
    ASSUME SharedAssumption, NEW s, NEW z, NEW T \in TaskType, NEW n, Fits(s, T, n),
           \A p \in Providers : s[p] # None => z[p] # None,
           \A p \in Providers : z[p] # None /\ z[p].own =>
             s[p] # None /\ s[p].own /\ z[p].data = s[p].data
    PROVE  Fits(z, T, n)
BY DEF Fits, TaskType, Refresh, SharedAssumption

LEMMA FitsFewer ==
    ASSUME NEW s, NEW T, NEW U, Fewer(T, U), NEW n, Fits(s, T, n)
    PROVE  Fits(s, U, n)
<1>1. \A p \in Providers : InFlight(p, U) \subseteq InFlight(p, T)
  BY DEF InFlight, Busy, Fewer
<1>2. \A p \in Providers : CurrentOf(p, U) \subseteq CurrentOf(p, T)
  BY <1>1 DEF CurrentOf, Fewer, InFlight, Busy
<1>4. \A p \in Providers : \A t \in CurrentOf(p, U) : U[t].start = T[t].start
  BY DEF CurrentOf, InFlight, Busy, Fewer
<1>5. \A t \in Tasks : U[t] # None =>
        /\ U[t].owns => s[U[t].of] # None
        /\ U[t].kind = "sync" => U[t].stage = "disk"
        /\ U[t].stage = "fetch" => U[t].start <= n
  BY DEF Fits, Fewer
<1>6. \A p \in Providers : \A t, u \in InFlight(p, U) : t = u
  BY <1>1 DEF Fits
<1>7. \A t, u \in Tasks :
        /\ U[t] # None /\ U[t].kind = "command"
        /\ U[u] # None /\ U[u].kind = "command"
        => U[t].live = U[u].live
  BY DEF Fits, Fewer
<1>8. \A p \in Providers : s[p] # None /\ s[p].own =>
        /\ s[p].data \in 0..n
        /\ \A t \in CurrentOf(p, U) : s[p].data <= U[t].start
  BY <1>2, <1>4 DEF Fits
<1> QED
  BY <1>5, <1>6, <1>7, <1>8 DEF Fits

LEMMA TypesOf ==
    ASSUME SharedAssumption, UsageInv
    PROVE  /\ cache \in CacheType /\ task \in TaskType /\ inst \in Instances
           /\ now \in Nat /\ inst.now \in Nat /\ inst.starts \in Nat /\ starts \in Nat
           /\ inst.used \subseteq Providers
           /\ disk \in [Providers -> [data : Nat, at : Nat] \cup {None}]
           /\ model \in Providers \cup {None} /\ Fits(cache, task, now)
<1>1. inst \in [used : SUBSET Providers, now : Nat, starts : Nat]
  BY DEF UsageInv, USTypeOK, SharedAssumption
<1> QED
  BY <1>1 DEF UsageInv, USTypeOK, CacheType, TaskType

LEMMA SettleKeeps ==
    ASSUME SharedAssumption, UsageInv, NEW t \in Tasks, task[t] # None, NEW outcome,
           NEW states, Follows(states), Fits(states, Without(t), now),
           Settle(t, outcome, states), disk' \in [Providers -> [data : Nat, at : Nat] \cup {None}],
           UNCHANGED <<inst, model, session, routed, mode, toggling, watching, now, starts>>
    PROVE  UsageInv' /\ InOrder
<1> DEFINE done == Settling(t)
           armed == {p \in Providers : \E u \in done : Arms(u, p, done, outcome, states)}
<1>1. /\ cache' = [p \in Providers |->
                     IF p \in armed THEN [states[p] EXCEPT !.timer = TRUE] ELSE states[p]]
      /\ task' = Without(t)
  BY DEF Settle, Without
<1>2. done \subseteq Tasks
  BY DEF Settling, Busy
<1>3. \A p \in armed : states[p] \in State
  BY DEF Arms, Follows, CacheType
<1>4. task \in TaskType /\ task' \in TaskType /\ Fewer(task, task')
  BY <1>1, TypesOf DEF Without, TaskType, Fewer
<1>5. Milder(states, cache')
  <2>1. \A p \in armed : [states[p] EXCEPT !.timer = TRUE] \in State
    BY <1>3 DEF State
  <2>2. cache' \in CacheType
    BY <1>1, <2>1 DEF CacheType, Follows
  <2>3. ASSUME NEW p \in Providers
        PROVE  /\ cache'[p] = None <=> states[p] = None
               /\ states[p] # None =>
                    /\ cache'[p].own => states[p].own /\ cache'[p].data = states[p].data
                    /\ states[p].timer => cache'[p].timer
    <3>1. CASE p \in armed
      <4>1. cache'[p] = [states[p] EXCEPT !.timer = TRUE]
        BY <1>1, <3>1
      <4> HIDE DEF armed
      <4> QED
        BY <4>1, <1>3, <2>1, <3>1 DEF State, SharedAssumption
    <3>2. CASE p \notin armed
      BY <1>1, <3>2
    <3> QED
      BY <3>1, <3>2
  <2> QED
    BY <2>2, <2>3 DEF Milder
<1>6. \A u \in done : \A p \in Providers :
        Arms(u, p, done, outcome, states) => cache'[p].timer
  <2> SUFFICES ASSUME NEW u \in done, NEW p \in Providers, Arms(u, p, done, outcome, states)
               PROVE  cache'[p].timer
    OBVIOUS
  <2>1. p \in armed
    OBVIOUS
  <2>2. cache'[p] = [states[p] EXCEPT !.timer = TRUE]
    BY <1>1, <2>1
  <2> HIDE DEF armed
  <2> QED
    BY <1>3, <2>1, <2>2 DEF State
<1>7. \A u \in Tasks : u \notin done => task'[u] = task[u]
  BY <1>1 DEF Without
<1>8. states \in CacheType /\ task' \in TaskType /\ Fits(states, task', now)
  BY <1>1, <1>4 DEF Follows
<1> HIDE DEF done, armed
<1>9. Fits(cache', task', now)
  BY <1>5, <1>8, FitsMilder
<1>10. PollingGoesOn'
  <2> SUFFICES ASSUME session, routed, mode = "on", toggling = None, model # None
               PROVE  /\ cache'[model] # None
                      /\ cache'[model].timer \/ \E v \in Tasks : Polls(task'[v], model)
    BY DEF PollingGoesOn
  <2>1. model \in Providers /\ PollingGoesOn
    BY TypesOf DEF UsageInv
  <2>2. cache[model] # None /\ states[model] # None /\ cache'[model] # None
    BY <2>1, <1>5 DEF PollingGoesOn, Follows, Milder
  <2>3. CASE cache[model].timer
    BY <2>1, <2>2, <2>3, <1>5 DEF Follows, Milder
  <2>4. CASE ~cache[model].timer
    <3>1. PICK v \in Tasks : Polls(task[v], model)
      BY <2>1, <2>4 DEF PollingGoesOn
    <3>2. CASE v \notin done
      <4>1. task'[v] = task[v]
        BY <1>7, <3>2
      <4> QED
        BY <2>2, <3>1, <4>1
    <3>3. CASE v \in done /\ task[v].kind = "poke"
      <4>1. task[v].of = model
        BY <3>1, <3>3 DEF Polls
      <4>2. states[model].timer \/ Arms(v, model, done, outcome, states)
        BY <2>2, <3>1, <3>3, <4>1 DEF Arms, Polls
      <4> QED
        BY <1>5, <1>6, <2>1, <2>2, <3>3, <4>2 DEF Milder
    <3>4. CASE v \in done /\ task[v].kind = "timer"
      <4>1. Arms(v, model, done, outcome, states)
        BY <2>2, <3>1, <3>4 DEF Arms, Polls
      <4> QED
        BY <1>6, <2>1, <2>2, <3>4, <4>1
    <3>5. CASE v \in done /\ task[v].kind = "command"
      <4>1. CASE \E w \in Tasks \ done : task[w] # None /\ task[w].kind = "command"
        <5>1. PICK w \in Tasks \ done : task[w] # None /\ task[w].kind = "command"
          BY <4>1
        <5>2. Polls(task[w], model)
          BY <3>1, <3>5, <5>1, TypesOf DEF Fits, Polls
        <5>3. w \in Tasks /\ task'[w] = task[w]
          BY <1>7, <5>1
        <5> QED
          BY <2>2, <5>2, <5>3
      <4>2. CASE ~ \E w \in Tasks \ done : task[w] # None /\ task[w].kind = "command"
        <5>1. Arms(v, model, done, outcome, states)
          BY <2>2, <3>1, <3>5, <4>2 DEF Arms, Polls
        <5> QED
          BY <1>6, <2>1, <2>2, <3>5, <5>1
      <4> QED
        BY <4>1, <4>2
    <3> QED
      BY <3>1, <3>2, <3>3, <3>4, <3>5 DEF Polls
  <2> QED
    BY <2>3, <2>4
<1>11. HiddenIsQuiet'
  BY <1>5 DEF UsageInv, HiddenIsQuiet, Follows, Milder
<1>12. USTypeOK'
  BY <1>4, <1>5 DEF UsageInv, USTypeOK, Milder, CacheType, TaskType
<1>13. InOrder
  BY <1>5 DEF InOrder, Follows, Milder
<1> QED
  BY <1>9, <1>10, <1>11, <1>12, <1>13 DEF UsageInv

-----------------------------------------------------------------------------
(* What is read and fetched.                                                *)

LEMMA MilderFollows ==
    ASSUME SharedAssumption, UsageInv, NEW z, Milder(cache, z)
    PROVE  Follows(z)
<1>1. Fits(cache, task, now) /\ now \in Nat
  BY TypesOf
<1>2. \A p \in Providers : cache[p] # None /\ cache[p].own => cache[p].data \in Nat
  BY <1>1 DEF Fits
<1> QED
  BY <1>2 DEF Milder, Follows

\* A step that settles no task, and takes none away.
LEMMA QuietKeeps ==
    ASSUME SharedAssumption, UsageInv, Follows(cache'), task' \in TaskType,
           Fits(cache', task', now), \A u \in Tasks : Polls(task[u], model) => Polls(task'[u], model),
           disk' \in [Providers -> [data : Nat, at : Nat] \cup {None}],
           UNCHANGED <<inst, model, session, routed, mode, toggling, watching, now, starts>>
    PROVE  UsageInv' /\ InOrder
<1>1. USTypeOK'
  BY DEF UsageInv, USTypeOK, Follows, CacheType, TaskType
<1>2. PollingGoesOn'
  BY DEF UsageInv, USTypeOK, PollingGoesOn, Follows
<1>3. HiddenIsQuiet'
  BY DEF UsageInv, HiddenIsQuiet, Follows
<1>4. InOrder
  BY DEF InOrder, Follows
<1> QED
  BY <1>1, <1>2, <1>3, <1>4 DEF UsageInv

LEMMA WithoutFewer ==
    ASSUME NEW t \in Tasks
    PROVE  Fewer(task, Without(t)) /\ Without(t)[t] = None
BY DEF Fewer, Without, Settling

LEMMA SettleMild ==
    ASSUME SharedAssumption, UsageInv, NEW t \in Tasks, task[t] # None, NEW outcome,
           NEW states, Milder(cache, states), Settle(t, outcome, states),
           disk' \in [Providers -> [data : Nat, at : Nat] \cup {None}],
           UNCHANGED <<inst, model, session, routed, mode, toggling, watching, now, starts>>
    PROVE  UsageInv' /\ InOrder
<1>1. Fits(cache, Without(t), now) /\ cache \in CacheType
  BY TypesOf, WithoutFewer, FitsFewer
<1>2. Without(t) \in TaskType
  BY TypesOf DEF Without, TaskType
<1>3. Fits(states, Without(t), now)
  BY <1>1, <1>2, FitsMilder
<1> QED
  BY <1>3, MilderFollows, SettleKeeps

LEMMA SameMilder ==
    ASSUME SharedAssumption, UsageInv
    PROVE  Milder(cache, cache)
BY TypesOf DEF Milder

\* What the shared file says is adopted.
LEMMA AdoptedMilder ==
    ASSUME SharedAssumption, UsageInv, NEW p \in Providers, cache[p] # None
    PROVE  /\ Milder(cache, Adopted(p)) /\ Adopted(p)[p] \in State
           /\ Adopted(p)[p].timer = cache[p].timer
           /\ \A q \in Providers : q # p => Adopted(p)[q] = cache[q]
<1>1. cache \in CacheType /\ cache[p] \in State
  BY TypesOf DEF CacheType
<1>2. CASE Adopted(p) = cache
  BY <1>1, <1>2, SameMilder
<1>3. CASE Adopted(p) # cache
  <2> DEFINE z == [cache[p] EXCEPT !.data = disk[p].data, !.own = FALSE, !.fetched = disk[p].at]
  <2>1. disk[p] # None /\ disk[p] \in [data : Nat, at : Nat]
    BY <1>3, TypesOf DEF Adopted
  <2>2. Adopted(p) = [cache EXCEPT ![p] = z]
    BY <1>1, <1>3 DEF Adopted, CacheType
  <2>3. z \in State /\ z.own = FALSE /\ z.timer = cache[p].timer
    BY <1>1, <2>1 DEF State
  <2> HIDE DEF z
  <2>4. z # None
    BY <2>3 DEF SharedAssumption
  <2> QED
    BY <1>1, <2>2, <2>3, <2>4 DEF Milder, CacheType
<1> QED
  BY <1>2, <1>3

LEMMA RunningTyped ==
    ASSUME SharedAssumption, UsageInv, NEW t \in Tasks, task[t] # None
    PROVE  /\ task[t] \in Refresh /\ task[t].of \in Providers
           /\ isCurrentRequest(t) => cache[task[t].of] # None /\ cache[task[t].of] \in State
<1>1. task[t] \in Refresh
  BY TypesOf DEF TaskType
<1>2. task[t].of \in Providers
  BY <1>1 DEF Refresh
<1>3. task[t].owns => cache[task[t].of] # None
  BY TypesOf DEF Fits
<1> QED
  BY <1>1, <1>2, <1>3, TypesOf DEF isCurrentRequest, CacheType

LEMMA DiskReadKeeps ==
    ASSUME SharedAssumption, UsageInv, NEW t \in Tasks, DiskRead(t)
    PROVE  UsageInv' /\ InOrder
<1> DEFINE p == task[t].of
           reused == [Adopted(p) EXCEPT ![p].text = @ \/ Adopted(p)[p].data # None]
<1>1. /\ task[t] # None /\ task[t].stage = "disk" /\ task[t].kind # "sync" /\ UNCHANGED disk
      /\ UNCHANGED <<inst, model, session, routed, mode, toggling, watching, now, starts>>
  BY DEF DiskRead
<1>2. disk' \in [Providers -> [data : Nat, at : Nat] \cup {None}]
  BY <1>1, TypesOf
<1>3. CASE ~isCurrentRequest(t)
  <2>1. Settle(t, "cached", cache)
    BY <1>3 DEF DiskRead
  <2> QED
    BY <1>1, <1>2, <2>1, SameMilder, SettleMild
<1>4. CASE isCurrentRequest(t) /\ Settle(t, "cached", reused)
  <2>1. p \in Providers /\ cache[p] # None
    BY <1>1, <1>4, RunningTyped
  <2>2. Milder(cache, Adopted(p)) /\ Adopted(p)[p] \in State
    BY <2>1, AdoptedMilder
  <2>3. Milder(cache, reused)
    <3> DEFINE z == [Adopted(p)[p] EXCEPT !.text = @ \/ Adopted(p)[p].data # None]
    <3>1. reused = [Adopted(p) EXCEPT ![p] = z]
      BY <2>1, <2>2 DEF Milder, CacheType
    <3>2. /\ z \in State /\ z.data = Adopted(p)[p].data /\ z.own = Adopted(p)[p].own
          /\ z.timer = Adopted(p)[p].timer
      BY <2>2 DEF State
    <3> HIDE DEF z, p, reused
    <3>3. z # None
      BY <3>2 DEF SharedAssumption
    <3> QED
      BY <2>1, <2>2, <3>1, <3>2, <3>3 DEF Milder, CacheType
  <2> QED
    BY <1>1, <1>2, <1>4, <2>3, SettleMild
<1>5. CASE isCurrentRequest(t) /\ cache' = Adopted(p)
           /\ task' = [task EXCEPT ![t].stage = "fetch", ![t].start = now]
  <2>1. p \in Providers /\ cache[p] # None /\ task[t] \in Refresh
    BY <1>1, <1>5, RunningTyped
  <2>2. Milder(cache, cache')
    BY <1>5, <2>1, AdoptedMilder
  <2> DEFINE r == [task[t] EXCEPT !.stage = "fetch", !.start = now]
  <2>3. task \in TaskType /\ now \in Nat /\ Fits(cache, task, now) /\ cache \in CacheType
    BY TypesOf
  <2>4. task' = [task EXCEPT ![t] = r]
    BY <1>5, <2>3 DEF TaskType
  <2>5. /\ r \in Refresh /\ r.stage = "fetch" /\ r.start = now /\ r.kind = task[t].kind
        /\ r.of = p /\ r.owns = task[t].owns /\ r.current = task[t].current
        /\ r.live = task[t].live
    BY <2>1, <2>3 DEF Refresh
  <2> HIDE DEF r, p
  <2>6. r # None /\ task' \in TaskType /\ task'[t] = r
        /\ \A u \in Tasks : u # t => task'[u] = task[u]
    BY <2>3, <2>4, <2>5 DEF SharedAssumption, TaskType
  <2>7. \A q \in Providers : InFlight(q, task') = InFlight(q, task)
    BY <1>1, <2>5, <2>6 DEF InFlight, Busy, p
  <2>8. \A q \in Providers : \A u \in CurrentOf(q, task') :
          u # t => u \in CurrentOf(q, task) /\ task'[u] = task[u]
    BY <2>6, <2>7 DEF CurrentOf, InFlight, Busy
  <2>9. \A q \in Providers : cache[q] # None /\ cache[q].own =>
          /\ cache[q].data \in 0..now
          /\ \A u \in CurrentOf(q, task') : cache[q].data <= task'[u].start
    BY <2>3, <2>5, <2>6, <2>8 DEF Fits
  <2>10. \A q \in Providers : \A u, v \in InFlight(q, task') : u = v
    BY <2>3, <2>7 DEF Fits
  <2>11. \A u \in Tasks : task'[u] # None =>
           /\ task'[u].owns => cache[task'[u].of] # None
           /\ task'[u].kind = "sync" => task'[u].stage = "disk"
           /\ task'[u].stage = "fetch" => task'[u].start <= now
    BY <1>1, <2>3, <2>5, <2>6 DEF Fits, p
  <2>12. \A u, v \in Tasks :
           /\ task'[u] # None /\ task'[u].kind = "command"
           /\ task'[v] # None /\ task'[v].kind = "command"
           => task'[u].live = task'[v].live
    BY <1>1, <2>3, <2>5, <2>6 DEF Fits
  <2>13. Fits(cache', task', now)
    <3>1. Fits(cache, task', now)
      BY <2>9, <2>10, <2>11, <2>12 DEF Fits
    <3> QED
      BY <2>2, <2>3, <2>6, <3>1, FitsMilder
  <2>14. \A u \in Tasks : Polls(task[u], model) => Polls(task'[u], model)
    BY <2>5, <2>6 DEF Polls, p
  <2> QED
    BY <1>1, <1>2, <2>2, <2>6, <2>13, <2>14, MilderFollows, QuietKeeps
<1> QED
  BY <1>3, <1>4, <1>5 DEF DiskRead

\* An answer is applied to a state that lives.
LEMMA AppliedFits ==
    ASSUME SharedAssumption, UsageInv, NEW p \in Providers, cache[p] # None,
           NEW v \in State, v.own, v.data \in 0 .. now, v.timer = cache[p].timer,
           cache[p].own => cache[p].data <= v.data,
           NEW z, z = [cache EXCEPT ![p] = v],
           NEW U, Fits(cache, U, now), CurrentOf(p, U) = {}
    PROVE  Follows(z) /\ Fits(z, U, now)
<1>1. cache \in CacheType /\ now \in Nat /\ Fits(cache, task, now)
  BY TypesOf
<1>4. /\ v # None /\ z \in CacheType /\ z[p] = v
      /\ \A q \in Providers : q # p => z[q] = cache[q]
  BY <1>1 DEF SharedAssumption, CacheType
<1>5. \A q \in Providers : cache[q] # None /\ cache[q].own => cache[q].data \in Nat
  BY <1>1 DEF Fits
<1>6. Follows(z)
  BY <1>1, <1>4, <1>5 DEF Follows
<1>7. \A q \in Providers : z[q] # None /\ z[q].own =>
        /\ z[q].data \in 0 .. now
        /\ \A u \in CurrentOf(q, U) : z[q].data <= U[u].start
  BY <1>4 DEF Fits
<1>8. \A u \in Tasks : U[u] # None /\ U[u].owns => z[U[u].of] # None
  BY <1>4 DEF Fits
<1> QED
  BY <1>6, <1>7, <1>8 DEF Fits

\* The request whose answer will be applied is the only one of its provider.
LEMMA OnlyCurrent ==
    ASSUME SharedAssumption, UsageInv, NEW t \in Tasks, task[t] # None,
           task[t].stage = "fetch", isCurrentRequest(t), NEW U, Fewer(task, U), U[t] = None
    PROVE  CurrentOf(task[t].of, U) = {}
<1>1. t \in InFlight(task[t].of, task) /\ task[t].of \in Providers
  BY RunningTyped, TypesOf DEF InFlight, Busy, isCurrentRequest, Fits
<1>2. InFlight(task[t].of, U) \subseteq InFlight(task[t].of, task)
  BY DEF InFlight, Busy, Fewer
<1>3. \A u \in InFlight(task[t].of, U) : u = t
  BY <1>1, <1>2, TypesOf DEF Fits
<1> QED
  BY <1>3 DEF CurrentOf, InFlight, Busy

LEMMA FetchedKeeps ==
    ASSUME SharedAssumption, UsageInv, NEW t \in Tasks, Fetched(t)
    PROVE  UsageInv' /\ InOrder
<1> DEFINE p == task[t].of
<1>1. /\ task[t] # None /\ task[t].stage = "fetch" /\ UNCHANGED disk
      /\ UNCHANGED <<inst, model, session, routed, mode, toggling, watching, now, starts>>
  BY DEF Fetched
<1>2. disk' \in [Providers -> [data : Nat, at : Nat] \cup {None}]
  BY <1>1, TypesOf
<1>3. PICK data \in task[t].start .. now :
        IF ~task[t].live \/ ~isCurrentRequest(t) THEN Settle(t, "cached", cache)
        ELSE LET applied == [cache EXCEPT ![p].data = data, ![p].own = TRUE,
                                          ![p].fetched = task[t].start, ![p].text = TRUE]
             IN  IF p \in Shared
                 THEN cache' = applied /\ task' = [task EXCEPT ![t].stage = "write", ![t].data = data]
                 ELSE Settle(t, "fetched", applied)
  BY DEF Fetched
<1> DEFINE applied == [cache EXCEPT ![p].data = data, ![p].own = TRUE,
                                    ![p].fetched = task[t].start, ![p].text = TRUE]
<1>4. CASE Settle(t, "cached", cache)
  BY <1>1, <1>2, <1>4, SameMilder, SettleMild
<1>5. ASSUME isCurrentRequest(t)
      PROVE  /\ p \in Providers /\ cache[p] # None /\ data \in 0 .. now /\ task[t].start \in Nat
             /\ cache[p].own => cache[p].data <= data
             /\ task[t] \in Refresh /\ task \in TaskType /\ data \in Nat
  <2>1. p \in Providers /\ cache[p] # None /\ task[t] \in Refresh
    BY <1>1, <1>5, RunningTyped
  <2>2. /\ task \in TaskType /\ now \in Nat /\ Fits(cache, task, now)
        /\ task[t].start \in Nat
    BY <2>1, TypesOf DEF Refresh
  <2>3. t \in CurrentOf(p, task)
    BY <1>1, <1>5, <2>2 DEF CurrentOf, InFlight, Busy, isCurrentRequest, Fits
  <2>4. cache[p].own => cache[p].data \in Nat /\ cache[p].data <= task[t].start
    BY <2>1, <2>2, <2>3 DEF Fits
  <2> QED
    BY <2>1, <2>2, <2>4
<1> DEFINE w == [cache[p] EXCEPT !.data = data, !.own = TRUE]
           answer == [w EXCEPT !.fetched = task[t].start, !.text = TRUE]
<1>6. applied = [cache EXCEPT ![p] = answer]
  BY TypesOf DEF CacheType
<1>7. ASSUME isCurrentRequest(t)
      PROVE  answer \in State /\ answer.data = data /\ answer.own /\ answer.timer = cache[p].timer
  <2>1. cache[p] \in State
    BY <1>1, <1>7, RunningTyped
  <2>2. w \in State /\ w.data = data /\ w.own /\ w.timer = cache[p].timer
    BY <1>5, <1>7, <2>1 DEF State
  <2> HIDE DEF w
  <2> QED
    BY <1>5, <1>7, <2>2 DEF State
<1> HIDE DEF answer, applied
<1>8. CASE isCurrentRequest(t) /\ Settle(t, "fetched", applied)
  <2>1. Fits(cache, Without(t), now) /\ CurrentOf(p, Without(t)) = {}
    BY <1>1, <1>8, TypesOf, WithoutFewer, FitsFewer, OnlyCurrent
  <2>2. Follows(applied) /\ Fits(applied, Without(t), now)
    BY <1>5, <1>8, <1>6, <1>7, <2>1, AppliedFits
  <2> QED
    BY <1>1, <1>2, <1>8, <2>2, SettleKeeps
<1>9. CASE isCurrentRequest(t) /\ cache' = applied
           /\ task' = [task EXCEPT ![t].stage = "write", ![t].data = data]
  <2> DEFINE r == [task[t] EXCEPT !.stage = "write", !.data = data]
             Gone == [task EXCEPT ![t] = None]
  <2>1. task' = [task EXCEPT ![t] = r]
    BY <1>5, <1>9 DEF TaskType
  <2>2. /\ r \in Refresh /\ r.stage = "write" /\ r.kind = task[t].kind
        /\ r.of = p /\ r.owns = task[t].owns /\ r.current = task[t].current
        /\ r.live = task[t].live
    BY <1>5, <1>9 DEF Refresh
  <2> HIDE DEF r
  <2>3. r # None /\ task' \in TaskType /\ task'[t] = r
        /\ \A u \in Tasks : u # t => task'[u] = task[u]
    BY <1>5, <1>9, <2>1, <2>2 DEF SharedAssumption, TaskType
  <2>4. Fewer(task, Gone) /\ Gone[t] = None /\ (\A u \in Tasks : u # t => Gone[u] = task[u])
    BY <1>5, <1>9 DEF Fewer, TaskType
  <2>5. Fits(cache, Gone, now) /\ CurrentOf(p, Gone) = {}
    BY <1>1, <1>9, <2>4, TypesOf, FitsFewer, OnlyCurrent
  <2>6. Follows(cache') /\ Fits(cache', Gone, now)
    BY <1>5, <1>9, <1>6, <1>7, <2>5, AppliedFits
  <2> HIDE DEF Gone
  <2>7. \A q \in Providers : CurrentOf(q, task') \subseteq CurrentOf(q, Gone)
    BY <2>2, <2>3, <2>4 DEF CurrentOf, InFlight, Busy
  <2>8. \A q \in Providers : \A u \in CurrentOf(q, task') : task'[u] = Gone[u]
    BY <2>2, <2>3, <2>4 DEF CurrentOf, InFlight, Busy
  <2>9. \A q \in Providers : cache'[q] # None /\ cache'[q].own =>
          /\ cache'[q].data \in 0..now
          /\ \A u \in CurrentOf(q, task') : cache'[q].data <= task'[u].start
    BY <2>6, <2>7, <2>8 DEF Fits
  <2>10. \A q \in Providers : InFlight(q, task') = InFlight(q, task)
    BY <1>1, <2>2, <2>3 DEF InFlight, Busy
  <2>11. \A q \in Providers : \A u, v \in InFlight(q, task') : u = v
    BY <2>10, TypesOf DEF Fits
  <2>12. task[t].kind # "sync" /\ cache'[p] # None
    BY <1>1, <1>5, <1>9, <2>6, TypesOf DEF Fits, Follows
  <2>13. \A u \in Tasks : task'[u] # None =>
           /\ task'[u].owns => cache'[task'[u].of] # None
           /\ task'[u].kind = "sync" => task'[u].stage = "disk"
           /\ task'[u].stage = "fetch" => task'[u].start <= now
    BY <2>2, <2>3, <2>4, <2>6, <2>12 DEF Fits
  <2>14. \A u, v \in Tasks :
           /\ task'[u] # None /\ task'[u].kind = "command"
           /\ task'[v] # None /\ task'[v].kind = "command"
           => task'[u].live = task'[v].live
    BY <1>1, <2>2, <2>3, TypesOf DEF Fits
  <2>15. Fits(cache', task', now)
    BY <2>9, <2>11, <2>13, <2>14 DEF Fits
  <2>16. \A u \in Tasks : Polls(task[u], model) => Polls(task'[u], model)
    BY <2>2, <2>3 DEF Polls
  <2> QED
    BY <1>1, <1>2, <2>3, <2>6, <2>15, <2>16, QuietKeeps
<1> QED
  BY <1>3, <1>4, <1>8, <1>9 DEF applied

LEMMA FetchFailsKeeps ==
    ASSUME SharedAssumption, UsageInv, NEW t \in Tasks, FetchFails(t)
    PROVE  UsageInv' /\ InOrder
<1> DEFINE p == task[t].of
<1>1. /\ task[t] # None /\ UNCHANGED disk
      /\ UNCHANGED <<inst, model, session, routed, mode, toggling, watching, now, starts>>
  BY DEF FetchFails
<1>2. disk' \in [Providers -> [data : Nat, at : Nat] \cup {None}]
  BY <1>1, TypesOf
<1>3. PICK outcome \in {"skipped", "failed"} :
        IF ~task[t].live \/ ~isCurrentRequest(t) THEN Settle(t, "cached", cache)
        ELSE Settle(t, outcome, [cache EXCEPT ![p].text = TRUE])
  BY DEF FetchFails
<1>4. CASE Settle(t, "cached", cache)
  BY <1>1, <1>2, <1>4, SameMilder, SettleMild
<1>5. CASE isCurrentRequest(t) /\ Settle(t, outcome, [cache EXCEPT ![p].text = TRUE])
  <2>1. p \in Providers /\ cache[p] # None /\ cache[p] \in State
    BY <1>1, <1>5, RunningTyped
  <2> DEFINE z == [cache[p] EXCEPT !.text = TRUE]
             states == [cache EXCEPT ![p].text = TRUE]
  <2>2. states = [cache EXCEPT ![p] = z]
    BY TypesOf DEF CacheType
  <2>3. z \in State /\ z.data = cache[p].data /\ z.own = cache[p].own /\ z.timer = cache[p].timer
    BY <2>1 DEF State
  <2> HIDE DEF z, states
  <2>4. Milder(cache, states)
    BY <2>1, <2>2, <2>3, TypesOf DEF Milder, CacheType, SharedAssumption
  <2>5. Settle(t, outcome, states)
    BY <1>5 DEF states
  <2> QED
    BY <1>1, <1>2, <2>4, <2>5, SettleMild
<1> QED
  BY <1>3, <1>4, <1>5

LEMMA WrittenKeeps ==
    ASSUME SharedAssumption, UsageInv, NEW t \in Tasks, Written(t)
    PROVE  UsageInv' /\ InOrder
<1>1. /\ task[t] # None /\ Settle(t, "fetched", cache)
      /\ UNCHANGED <<inst, model, session, routed, mode, toggling, watching, now, starts>>
      /\ \/ disk' = [disk EXCEPT ![task[t].of] = [data |-> task[t].data, at |-> now]]
         \/ UNCHANGED disk
  BY DEF Written
<1>2. disk' \in [Providers -> [data : Nat, at : Nat] \cup {None}]
  <2>1. task[t].data \in Nat
    BY <1>1, RunningTyped DEF Refresh
  <2> QED
    BY <1>1, <2>1, TypesOf
<1> QED
  BY <1>1, <1>2, SameMilder, SettleMild

LEMMA OtherWritesKeeps ==
    ASSUME SharedAssumption, UsageInv, NEW p \in Providers, OtherWrites(p)
    PROVE  UsageInv' /\ InOrder
<1>1. disk' \in [Providers -> [data : Nat, at : Nat] \cup {None}]
  BY TypesOf DEF OtherWrites
<1>2. Follows(cache') /\ cache' = cache /\ task' = task
  BY SameMilder, MilderFollows DEF OtherWrites
<1>3. task' \in TaskType /\ Fits(cache', task', now)
  BY <1>2, TypesOf
<1>4. UNCHANGED <<inst, model, session, routed, mode, toggling, watching, now, starts>>
  BY DEF OtherWrites
<1> QED
  BY <1>1, <1>2, <1>3, <1>4, QuietKeeps

-----------------------------------------------------------------------------
(* What starts a refresh, and what clears the states.                       *)

LEMMA RequestTyped ==
    ASSUME SharedAssumption, NEW kind \in Kinds, NEW p \in Providers, NEW force \in BOOLEAN
    PROVE  /\ Request(kind, p, force) \in Refresh /\ Request(kind, p, force) # None
           /\ Request(kind, p, force).kind = kind /\ Request(kind, p, force).of = p
           /\ Request(kind, p, force).stage = "disk" /\ Request(kind, p, force).owns
           /\ Request(kind, p, force).current /\ Request(kind, p, force).live
<1>1. Request(kind, p, force) \in Refresh
  <2> DEFINE stages == {"disk", "joined", "fetch", "write"}
             partners == Tasks \cup {None}
  <2>1. "disk" \in stages /\ None \in partners /\ 0 \in Nat
    OBVIOUS
  <2> HIDE DEF stages, partners
  <2>2. Request(kind, p, force) \in
          [kind : Kinds, of : Providers, force : BOOLEAN, stage : stages, with : partners,
           owns : BOOLEAN, current : BOOLEAN, live : BOOLEAN, start : Nat, data : Nat]
    BY <2>1 DEF Request
  <2> QED
    BY <2>2 DEF Refresh, stages, partners
<1>2. /\ Request(kind, p, force).kind = kind /\ Request(kind, p, force).of = p
      /\ Request(kind, p, force).stage = "disk" /\ Request(kind, p, force).owns
      /\ Request(kind, p, force).current /\ Request(kind, p, force).live
  BY DEF Request
<1> QED
  BY <1>1, <1>2 DEF SharedAssumption

\* One task more, whose answer will be applied if it is none of a provider
\* that has such a request, or a file sync.
LEMMA FitsMore ==
    ASSUME SharedAssumption, NEW s, NEW T, NEW n, Fits(s, T, n),
           NEW t \in Tasks, NEW r \in Refresh, NEW U, U[t] = r, r # None,
           \A u \in Tasks : u # t => U[u] = T[u],
           T[t] = None, s[r.of] # None, r.stage # "fetch", r.kind = "sync" => r.stage = "disk",
           r.kind # "command",
           r.current /\ r.kind # "sync" => InFlight(r.of, T) = {}
    PROVE  Fits(s, U, n)
<1>1. \A p \in Providers : \A u \in CurrentOf(p, U) : u \in CurrentOf(p, T) /\ U[u] = T[u]
  BY DEF CurrentOf, InFlight, Busy
<1>2. \A p \in Providers : \A u, v \in InFlight(p, U) : u = v
  <2> SUFFICES ASSUME NEW p \in Providers, NEW u \in InFlight(p, U), NEW v \in InFlight(p, U)
               PROVE  u = v
    OBVIOUS
  <2>1. \A w \in InFlight(p, U) : w # t => w \in InFlight(p, T)
    BY DEF InFlight, Busy
  <2>2. t \in InFlight(p, U) => InFlight(p, T) = {}
    BY DEF InFlight, Busy
  <2> QED
    BY <2>1, <2>2 DEF Fits
<1>3. \A u \in Tasks : U[u] # None =>
        /\ U[u].owns => s[U[u].of] # None
        /\ U[u].kind = "sync" => U[u].stage = "disk"
        /\ U[u].stage = "fetch" => U[u].start <= n
  BY DEF Fits
<1>4. \A u, v \in Tasks :
        /\ U[u] # None /\ U[u].kind = "command"
        /\ U[v] # None /\ U[v].kind = "command"
        => U[u].live = U[v].live
  BY DEF Fits
<1>5. \A p \in Providers : s[p] # None /\ s[p].own =>
        /\ s[p].data \in 0..n
        /\ \A u \in CurrentOf(p, U) : s[p].data <= U[u].start
  BY <1>1 DEF Fits
<1> QED
  BY <1>2, <1>3, <1>4, <1>5 DEF Fits

LEMMA StartedFits ==
    ASSUME SharedAssumption, NEW s, NEW T \in TaskType, NEW n, Fits(s, T, n),
           NEW t \in Tasks, T[t] = None, NEW kind \in {"poke", "timer"}, NEW p \in Providers,
           s[p] # None, NEW force \in BOOLEAN,
           NEW U, U = Started(T, t, kind, p, force)
    PROVE  /\ U \in TaskType /\ Fits(s, U, n)
           /\ U[t] # None /\ U[t].kind = kind /\ U[t].of = p /\ U[t].live /\ U[t].owns
           /\ \A q \in Providers, u \in Tasks : Polls(T[u], q) => Polls(U[u], q)
<1> DEFINE r == Request(kind, p, force)
<1>1. /\ r \in Refresh /\ r # None /\ r.kind = kind /\ r.of = p /\ r.stage = "disk" /\ r.owns
      /\ r.current /\ r.live
  BY RequestTyped DEF Kinds
<1>2. CASE InFlight(p, T) # {}
  <2> DEFINE with == CHOOSE u \in InFlight(p, T) : TRUE
             j == [r EXCEPT !.stage = "joined", !.current = FALSE, !.with = with]
  <2>1. with \in Tasks
    BY <1>2 DEF InFlight, Busy
  <2>2. U = [T EXCEPT ![t] = j]
    BY <1>2 DEF Started
  <2> HIDE DEF with, r
  <2>3. /\ j \in Refresh /\ j.kind = kind /\ j.of = p /\ j.stage = "joined" /\ j.owns
        /\ ~j.current /\ j.live
    BY <1>1, <2>1 DEF Refresh
  <2> HIDE DEF j
  <2>4. j # None /\ U \in TaskType /\ U[t] = j /\ \A u \in Tasks : u # t => U[u] = T[u]
    BY <2>2, <2>3 DEF SharedAssumption, TaskType
  <2>5. Fits(s, U, n)
    BY <2>3, <2>4, FitsMore
  <2>6. \A q \in Providers, u \in Tasks : Polls(T[u], q) => Polls(U[u], q)
    BY <2>4 DEF Polls
  <2> QED
    BY <2>3, <2>4, <2>5, <2>6
<1>3. CASE InFlight(p, T) = {}
  <2> DEFINE V == [u \in Tasks |->
                     IF u \in Busy(p, T) THEN [T[u] EXCEPT !.current = FALSE] ELSE T[u]]
  <2>1. U = [V EXCEPT ![t] = r]
    BY <1>3 DEF Started, Busy
  <2> HIDE DEF r
  <2>2. \A u \in Tasks : T[u] # None =>
          LET c == [T[u] EXCEPT !.current = FALSE] IN
          /\ c \in Refresh /\ c # None /\ c.kind = T[u].kind /\ c.of = T[u].of
          /\ c.stage = T[u].stage /\ c.start = T[u].start /\ c.live = T[u].live
          /\ c.owns = T[u].owns /\ ~c.current
    BY DEF TaskType, Refresh, SharedAssumption
  <2>3. /\ V \in TaskType /\ V[t] = None
        /\ \A u \in Tasks : V[u] = None <=> T[u] = None
        /\ \A u \in Tasks : V[u] # None =>
             /\ V[u].kind = T[u].kind /\ V[u].of = T[u].of /\ V[u].stage = T[u].stage
             /\ V[u].start = T[u].start /\ V[u].live = T[u].live /\ V[u].owns = T[u].owns
             /\ V[u].current => T[u].current
             /\ V[u].of = p => ~V[u].current
    BY <2>2 DEF Busy, TaskType
  <2> HIDE DEF V
  <2>4. Fewer(T, V) /\ InFlight(p, V) = {}
    BY <2>3 DEF Fewer, InFlight, Busy
  <2>5. Fits(s, V, n)
    BY <2>4, FitsFewer
  <2>6. U \in TaskType /\ U[t] = r /\ \A u \in Tasks : u # t => U[u] = V[u]
    BY <1>1, <2>1, <2>3 DEF TaskType
  <2>7. Fits(s, U, n)
    BY <1>1, <2>3, <2>4, <2>5, <2>6, FitsMore
  <2>8. \A q \in Providers, u \in Tasks : Polls(T[u], q) => Polls(U[u], q)
    BY <2>3, <2>6 DEF Polls
  <2> QED
    BY <1>1, <2>6, <2>7, <2>8
<1> QED
  BY <1>2, <1>3

LEMMA StartTyped ==
    ASSUME SharedAssumption, UsageInv, Start, UNCHANGED inst
    PROVE  starts' \in 0 .. inst'.starts
<1>1. inst.starts \in Nat /\ starts \in Nat
  BY TypesOf
<1> QED
  BY <1>1 DEF Start

LEMMA TimerFiresKeeps ==
    ASSUME SharedAssumption, UsageInv, NEW t \in Tasks, NEW p \in Providers, TimerFires(t, p)
    PROVE  UsageInv' /\ InOrder
<1>1. /\ task[t] = None /\ cache[p] # None
      /\ cache' = [cache EXCEPT ![p].timer = FALSE]
      /\ task' = Started(task, t, "timer", p, FALSE)
      /\ UNCHANGED <<inst, disk, model, session, routed, mode, toggling, watching, now>>
      /\ Start
  BY DEF TimerFires, Idle
<1>2. /\ cache \in CacheType /\ task \in TaskType /\ cache[p] \in State /\ Fits(cache, task, now)
      /\ starts' \in 0 .. inst'.starts /\ t \in Tasks /\ p \in Providers
  BY <1>1, TypesOf, StartTyped DEF CacheType
<1> DEFINE v == [cache[p] EXCEPT !.timer = FALSE]
<1>3. cache' = [cache EXCEPT ![p] = v]
  BY <1>1, <1>2 DEF CacheType
<1>4. v \in State /\ v.data = cache[p].data /\ v.own = cache[p].own
  BY <1>2 DEF State
<1> HIDE DEF v
<1>5. /\ v # None /\ cache' \in CacheType /\ cache'[p] = v
      /\ \A q \in Providers : q # p => cache'[q] = cache[q]
  BY <1>2, <1>3, <1>4 DEF SharedAssumption, CacheType
<1>6. /\ task' \in TaskType /\ Fits(cache, task', now)
      /\ task'[t] # None /\ task'[t].kind = "timer" /\ task'[t].of = p /\ task'[t].live
      /\ task'[t].owns
      /\ \A q \in Providers, u \in Tasks : Polls(task[u], q) => Polls(task'[u], q)
  <2>1. PICK force \in BOOLEAN : task' = Started(task, t, "timer", p, force)
    BY <1>1
  <2> DEFINE U == task'
  <2>2. U = Started(task, t, "timer", p, force)
    BY <2>1
  <2> HIDE DEF U
  <2>3. /\ U \in TaskType /\ Fits(cache, U, now)
        /\ U[t] # None /\ U[t].kind = "timer" /\ U[t].of = p /\ U[t].live /\ U[t].owns
        /\ \A q \in Providers, u \in Tasks : Polls(task[u], q) => Polls(U[u], q)
    BY ONLY SharedAssumption, <1>1, <1>2, <2>1, <2>2, StartedFits
  <2> QED
    BY <2>3 DEF U
<1>7. Fits(cache', task', now)
  <2>1. \A q \in Providers : cache[q] # None => cache'[q] # None
    BY <1>5
  <2>2. \A q \in Providers : cache'[q] # None /\ cache'[q].own =>
          cache[q] # None /\ cache[q].own /\ cache'[q].data = cache[q].data
    BY <1>1, <1>4, <1>5
  <2>3. task' \in TaskType /\ Fits(cache, task', now)
    BY <1>6
  <2> QED
    BY ONLY SharedAssumption, <2>1, <2>2, <2>3, FitsAlike
<1>8. PollingGoesOn'
  <2>1. CASE model = p
    BY <1>5, <1>6, <2>1, <1>1 DEF PollingGoesOn, Polls
  <2>2. CASE model # p
    <3>1. model # None => model \in Providers /\ cache'[model] = cache[model]
      BY <1>5, <2>2, TypesOf
    <3> QED
      BY <1>1, <1>6, <3>1 DEF UsageInv, PollingGoesOn
  <2> QED
    BY <2>1, <2>2
<1>9. HiddenIsQuiet'
  BY <1>1, <1>5 DEF UsageInv, HiddenIsQuiet
<1>10. \A q \in Providers : cache[q] # None /\ cache[q].own => cache[q].data \in Nat
  BY <1>2 DEF Fits
<1>11. InOrder
  BY <1>4, <1>5, <1>10 DEF InOrder
<1>12. USTypeOK'
  BY <1>1, <1>2, <1>5, <1>6 DEF UsageInv, USTypeOK, CacheType, TaskType
<1> QED
  BY <1>1, <1>7, <1>8, <1>9, <1>11, <1>12 DEF UsageInv

LEMMA SyncStartKeeps ==
    ASSUME SharedAssumption, UsageInv, NEW t \in Tasks, SyncStart(t)
    PROVE  UsageInv' /\ InOrder
<1>1. /\ task[t] = None /\ model \in Shared /\ cache[model] # None
      /\ task' = [task EXCEPT ![t] = Request("sync", model, FALSE)]
      /\ Start /\ cache' = cache
      /\ UNCHANGED <<inst, disk, model, session, routed, mode, toggling, watching, now>>
  BY DEF SyncStart, Idle
<1>2. /\ cache \in CacheType /\ task \in TaskType /\ Fits(cache, task, now)
      /\ starts' \in 0 .. inst'.starts
  BY <1>1, TypesOf, StartTyped
<1> DEFINE r == Request("sync", model, FALSE)
<1>3. /\ r \in Refresh /\ r # None /\ r.kind = "sync" /\ r.of = model /\ r.stage = "disk"
      /\ model \in Providers
  BY <1>1, RequestTyped DEF Kinds, SharedAssumption
<1> HIDE DEF r
<1>4. task' \in TaskType /\ task'[t] = r /\ \A u \in Tasks : u # t => task'[u] = task[u]
  BY <1>1, <1>2, <1>3 DEF TaskType, r
<1>5. Fits(cache', task', now)
  BY <1>1, <1>2, <1>3, <1>4, FitsMore
<1>6. PollingGoesOn'
  BY <1>1, <1>4 DEF UsageInv, PollingGoesOn, Polls
<1>7. HiddenIsQuiet'
  BY <1>1 DEF UsageInv, HiddenIsQuiet
<1>8. InOrder
  BY <1>1, SameMilder, MilderFollows DEF InOrder, Follows
<1>9. USTypeOK'
  BY <1>1, <1>2, <1>4 DEF UsageInv, USTypeOK, CacheType, TaskType
<1> QED
  BY <1>1, <1>5, <1>6, <1>7, <1>8, <1>9 DEF UsageInv

LEMMA SyncReadKeeps ==
    ASSUME SharedAssumption, UsageInv, NEW t \in Tasks, SyncRead(t)
    PROVE  UsageInv' /\ InOrder
<1> DEFINE p == task[t].of
<1>1. /\ task[t] # None /\ task[t].kind = "sync" /\ task' = [task EXCEPT ![t] = None]
      /\ cache' = IF isCurrentRequest(t) /\ Adopted(p) # cache
                  THEN [Adopted(p) EXCEPT ![p].text = TRUE, ![p].timer = TRUE] ELSE cache
      /\ UNCHANGED <<inst, disk, model, session, routed, mode, toggling, watching, now, starts>>
  BY DEF SyncRead
<1>2. Milder(cache, cache')
  <2>1. CASE ~isCurrentRequest(t) \/ Adopted(p) = cache
    BY <1>1, <2>1, SameMilder
  <2>2. CASE isCurrentRequest(t) /\ Adopted(p) # cache
    <3>1. p \in Providers /\ cache[p] # None
      BY <1>1, <2>2, RunningTyped
    <3>2. Milder(cache, Adopted(p)) /\ Adopted(p)[p] \in State
      BY <3>1, AdoptedMilder
    <3> DEFINE z == [Adopted(p)[p] EXCEPT !.text = TRUE, !.timer = TRUE]
    <3>3. cache' = [Adopted(p) EXCEPT ![p] = z]
      BY <1>1, <2>2, <3>1, <3>2 DEF Milder, CacheType
    <3>4. z \in State /\ z.data = Adopted(p)[p].data /\ z.own = Adopted(p)[p].own /\ z.timer
      BY <3>2 DEF State
    <3> HIDE DEF z, p
    <3>5. z # None
      BY <3>4 DEF SharedAssumption
    <3> QED
      BY <3>1, <3>2, <3>3, <3>4, <3>5 DEF Milder, CacheType
  <2> QED
    BY <2>1, <2>2
<1>3. task' \in TaskType /\ Fewer(task, task')
  BY <1>1, TypesOf DEF TaskType, Fewer
<1>4. Fits(cache', task', now)
  BY <1>2, <1>3, TypesOf, FitsFewer, FitsMilder
<1>5. \A u \in Tasks : Polls(task[u], model) => Polls(task'[u], model)
  BY <1>1, TypesOf DEF Polls, TaskType
<1> QED
  BY <1>1, <1>2, <1>3, <1>4, <1>5, TypesOf, MilderFollows, QuietKeeps

LEMMA StillInOrder ==
    ASSUME SharedAssumption, UsageInv,
           \A p \in Providers :
             cache'[p] # None /\ cache'[p].own => cache[p] # None /\ cache'[p].data = cache[p].data
    PROVE  InOrder
<1>1. \A p \in Providers : cache[p] # None /\ cache[p].own => cache[p].data \in Nat
  <2>1. Fits(cache, task, now) /\ now \in Nat
    BY TypesOf
  <2> QED
    BY <2>1 DEF Fits
<1> QED
  BY <1>1 DEF InOrder

LEMMA ClearedFits ==
    ASSUME SharedAssumption, UsageInv, NEW ps,
           NEW z, z = ClearedCache(ps), NEW U, U = ClearedTasks(ps)
    PROVE  /\ z \in CacheType /\ U \in TaskType /\ Fits(z, U, now)
           /\ \A p \in Providers : IF p \in ps THEN z[p] = None ELSE z[p] = cache[p]
           /\ \A t \in Tasks : U[t] = None <=> task[t] = None
           /\ \A t \in Tasks : U[t] # None => U[t].live = task[t].live
<1>1. cache \in CacheType /\ task \in TaskType /\ Fits(cache, task, now) /\ now \in Nat
  BY TypesOf
<1>2. \A t \in Tasks : task[t] # None =>
        LET c == [task[t] EXCEPT !.owns = FALSE, !.current = FALSE] IN
        /\ c \in Refresh /\ c # None /\ c.kind = task[t].kind /\ c.of = task[t].of
        /\ c.stage = task[t].stage /\ c.start = task[t].start /\ c.live = task[t].live
        /\ ~c.owns /\ ~c.current
  BY <1>1 DEF TaskType, Refresh, SharedAssumption
<1>3. /\ U \in TaskType
      /\ \A t \in Tasks : U[t] = None <=> task[t] = None
      /\ \A t \in Tasks : U[t] # None =>
           /\ U[t].kind = task[t].kind /\ U[t].of = task[t].of /\ U[t].stage = task[t].stage
           /\ U[t].start = task[t].start /\ U[t].live = task[t].live
           /\ U[t].owns => task[t].owns /\ U[t].of \notin ps
           /\ U[t].current => task[t].current
  BY <1>1, <1>2 DEF ClearedTasks, TaskType
<1>4. z \in CacheType /\ \A p \in Providers : IF p \in ps THEN z[p] = None ELSE z[p] = cache[p]
  BY <1>1 DEF ClearedCache, CacheType
<1>5. Fits(cache, U, now)
  BY <1>1, <1>3, FitsFewer DEF Fewer
<1>6. \A t \in Tasks : U[t] # None => U[t].of \in Providers
  BY <1>3 DEF TaskType, Refresh
<1>7. Fits(z, U, now)
  BY <1>3, <1>4, <1>5, <1>6 DEF Fits
<1> QED
  BY <1>3, <1>4, <1>7

LEMMA EnsuredFits ==
    ASSUME SharedAssumption, NEW s \in CacheType, NEW p \in Providers, NEW n,
           NEW U \in TaskType, Fits(s, U, n), NEW z, z = Ensured(s, p)
    PROVE  /\ z \in CacheType /\ z[p] # None /\ Fits(z, U, n)
           /\ \A q \in Providers : s[q] # None \/ q # p => z[q] = s[q]
           /\ \A q \in Providers : z[q] # None /\ z[q].own => z[q] = s[q]
<1>1. freshState \in State /\ freshState # None /\ ~freshState.own
  <2>1. freshState \in State /\ ~freshState.own
    BY DEF freshState, State
  <2> QED
    BY <2>1 DEF SharedAssumption
<1>2. /\ z \in CacheType /\ z[p] # None
      /\ \A q \in Providers : s[q] # None \/ q # p => z[q] = s[q]
      /\ \A q \in Providers : z[q] # None /\ z[q].own => z[q] = s[q]
  BY <1>1 DEF Ensured, CacheType
<1>3. Fits(z, U, n)
  BY <1>2, FitsAlike
<1> QED
  BY <1>2, <1>3

\* A request that polls the provider of the session's model begins.
LEMMA PokeKeeps ==
    ASSUME SharedAssumption, UsageInv, NEW s \in CacheType, NEW T \in TaskType, Fits(s, T, now),
           NEW t \in Tasks, T[t] = None, NEW force \in BOOLEAN, model # None,
           \A p \in Providers : s[p] = None \/ s[p] = cache[p], Start,
           cache' = Ensured(s, model), task' = Started(T, t, "poke", model, force),
           UNCHANGED <<inst, disk, model, session, mode, now>>, session, mode = "on",
           routed' \in BOOLEAN, watching' \in BOOLEAN, toggling' = None \/ toggling' = toggling
    PROVE  UsageInv' /\ InOrder
<1>1. model \in Providers
  BY TypesOf
<1> DEFINE z == cache'
<1>2. z = Ensured(s, model)
  OBVIOUS
<1> HIDE DEF z
<1>3. /\ z \in CacheType /\ z[model] # None /\ Fits(z, T, now)
      /\ \A p \in Providers : z[p] # None /\ z[p].own => z[p] = s[p]
  BY ONLY SharedAssumption, s \in CacheType, T \in TaskType, Fits(s, T, now), <1>1, <1>2,
     EnsuredFits
<1> DEFINE U == task'
<1>4. U = Started(T, t, "poke", model, force)
  OBVIOUS
<1> HIDE DEF U
<1>5. /\ U \in TaskType /\ Fits(z, U, now) /\ U[t] # None /\ U[t].kind = "poke" /\ U[t].of = model
      /\ U[t].live
  BY ONLY SharedAssumption, T \in TaskType, T[t] = None, t \in Tasks, force \in BOOLEAN,
     <1>1, <1>3, <1>4, StartedFits
<1>6. Fits(cache', task', now') /\ cache' \in CacheType /\ task' \in TaskType
  BY <1>3, <1>5 DEF z, U
<1>7. cache'[model] # None /\ Polls(task'[t], model)
  BY <1>3, <1>5 DEF z, U, Polls
<1>8. PollingGoesOn'
  BY <1>7 DEF PollingGoesOn
<1>9. HiddenIsQuiet'
  BY DEF HiddenIsQuiet
<1>10. InOrder
  BY <1>3, StillInOrder DEF z
<1>11. starts' \in 0 .. inst'.starts
  BY StartTyped
<1>12. USTypeOK'
  BY <1>6, <1>11 DEF UsageInv, USTypeOK, CacheType, TaskType
<1>13. /\ toggling' # None => mode' = toggling'
       /\ routed' => session'
  BY DEF UsageInv
<1> QED
  BY <1>6, <1>8, <1>9, <1>10, <1>12, <1>13 DEF UsageInv

LEMMA RouteKeeps ==
    ASSUME SharedAssumption, UsageInv, NEW t \in Tasks, NEW force \in BOOLEAN, Route(t, force)
    PROVE  UsageInv' /\ InOrder
<1> DEFINE gone == {p \in Providers : p # model \/ (force /\ p \notin Shared)}
<1>1. session /\ routed' = TRUE /\ UNCHANGED <<inst, disk, model, session, mode, toggling, now>>
  BY DEF Route
<1>2. CASE mode = "off" /\ watching' = FALSE /\ UNCHANGED <<cache, task, starts>>
  <2>1. USTypeOK'
    BY <1>1, <1>2 DEF UsageInv, USTypeOK
  <2>2. Fits(cache', task', now') /\ PollingGoesOn' /\ HiddenIsQuiet'
    BY <1>1, <1>2 DEF UsageInv, PollingGoesOn, HiddenIsQuiet
  <2> QED
    BY <1>1, <1>2, <2>1, <2>2, StillInOrder DEF UsageInv
<1>3. CASE mode # "off" /\ model = None
           /\ cache' = ClearedCache(gone) /\ task' = ClearedTasks(gone) /\ watching' = FALSE
           /\ UNCHANGED starts
  <2>1. /\ cache' \in CacheType /\ task' \in TaskType /\ Fits(cache', task', now)
        /\ \A p \in Providers : cache'[p] = None \/ cache'[p] = cache[p]
    <3> HIDE DEF gone
    <3> QED
      BY <1>3, ClearedFits
  <2>2. USTypeOK'
    BY <1>1, <1>3, <2>1 DEF UsageInv, USTypeOK, CacheType, TaskType
  <2>3. PollingGoesOn' /\ HiddenIsQuiet'
    BY <1>1, <1>3, <2>1 DEF UsageInv, PollingGoesOn, HiddenIsQuiet
  <2> QED
    BY <1>1, <2>1, <2>2, <2>3, StillInOrder DEF UsageInv
<1>4. CASE mode # "off" /\ model # None /\ t \in Idle /\ Start
           /\ cache' = Ensured(ClearedCache(gone), model)
           /\ task' = Started(ClearedTasks(gone), t, "poke", model, force)
           /\ watching' = (model \in Shared)
  <2> DEFINE s == ClearedCache(gone)
             T == ClearedTasks(gone)
  <2> HIDE DEF gone
  <2>1. /\ s \in CacheType /\ T \in TaskType /\ Fits(s, T, now)
        /\ \A p \in Providers : s[p] = None \/ s[p] = cache[p]
        /\ T[t] = None
    BY <1>4, ClearedFits DEF Idle
  <2>2. mode = "on"
    BY <1>4 DEF UsageInv, USTypeOK
  <2>3. /\ cache' = Ensured(s, model) /\ task' = Started(T, t, "poke", model, force)
        /\ watching' \in BOOLEAN /\ routed' \in BOOLEAN /\ toggling' = toggling
    BY <1>1, <1>4
  <2> HIDE DEF s, T
  <2> QED
    BY <1>1, <1>4, <2>1, <2>2, <2>3, PokeKeeps
<1> QED
  BY <1>2, <1>3, <1>4 DEF Route

\* The targets of a command are asked by one task each.
LEMMA CommandKeeps ==
    ASSUME SharedAssumption, UsageInv, NEW ts, NEW targets, Command(ts, targets)
    PROVE  UsageInv' /\ InOrder
<1>1. /\ session /\ mode = "on" /\ ts \subseteq Tasks /\ Start
      /\ \A u \in ts : task[u] = None
      /\ \A u \in Tasks : task[u] # None => task[u].kind # "command"
      /\ targets \in {{model}, inst.used} \ {{None}}
      /\ UNCHANGED <<inst, disk, model, session, routed, mode, toggling, watching, now>>
  BY DEF Command, Idle
<1>2. PICK at \in [ts -> targets] :
        /\ \A t, u \in ts : at[t] = at[u] => t = u
        /\ cache' = [p \in Providers |->
                       IF p \in targets /\ cache[p] = None THEN freshState ELSE cache[p]]
        /\ task' = [u \in Tasks |->
             IF u \in ts THEN Request("command", at[u], TRUE)
             ELSE IF task[u] # None /\ task[u].of \in targets
                  THEN [task[u] EXCEPT !.current = FALSE] ELSE task[u]]
  BY DEF Command
<1>3. /\ cache \in CacheType /\ task \in TaskType /\ Fits(cache, task, now)
      /\ targets \subseteq Providers /\ starts' \in 0 .. inst'.starts
  BY <1>1, TypesOf, StartTyped
<1>4. freshState \in State /\ freshState # None /\ ~freshState.own
  <2>1. freshState \in State /\ ~freshState.own
    BY DEF freshState, State
  <2> QED
    BY <2>1 DEF SharedAssumption
<1>5. /\ cache' \in CacheType
      /\ \A p \in Providers :
           /\ p \in targets => cache'[p] # None
           /\ cache[p] # None => cache'[p] = cache[p]
           /\ cache'[p] # None /\ cache'[p].own => cache'[p] = cache[p]
  BY <1>2, <1>3, <1>4 DEF CacheType
<1>6. \A u \in ts :
        /\ task'[u] \in Refresh /\ task'[u] # None /\ task'[u].kind = "command"
        /\ task'[u].of = at[u] /\ task'[u].stage = "disk" /\ task'[u].live
        /\ at[u] \in targets
  <2> DEFINE force == TRUE
  <2>1. force \in BOOLEAN /\ "command" \in Kinds
    BY DEF Kinds
  <2>2. \A u \in ts : /\ task'[u] = Request("command", at[u], force)
                     /\ at[u] \in targets /\ at[u] \in Providers
    BY <1>1, <1>2, <1>3
  <2> HIDE DEF force
  <2> QED
    BY ONLY SharedAssumption, <2>1, <2>2, RequestTyped
<1>7. \A u \in Tasks : task[u] # None =>
        LET c == [task[u] EXCEPT !.current = FALSE] IN
        /\ c \in Refresh /\ c # None /\ c.kind = task[u].kind /\ c.of = task[u].of
        /\ c.stage = task[u].stage /\ c.start = task[u].start /\ c.live = task[u].live
        /\ c.owns = task[u].owns /\ ~c.current
  BY <1>3 DEF TaskType, Refresh, SharedAssumption
<1>8. \A u \in Tasks : u \notin ts =>
        /\ task'[u] \in Refresh \cup {None}
        /\ task'[u] = None <=> task[u] = None
        /\ task'[u] # None =>
             /\ task'[u].kind = task[u].kind /\ task'[u].of = task[u].of
             /\ task'[u].stage = task[u].stage /\ task'[u].start = task[u].start
             /\ task'[u].live = task[u].live /\ task'[u].owns = task[u].owns
             /\ task'[u].current => task[u].current /\ task'[u].of \notin targets
  BY <1>2, <1>3, <1>7 DEF TaskType
<1>9. task' \in TaskType
  BY <1>2, <1>6, <1>8 DEF TaskType
<1>10. \A p \in Providers : \A u, v \in InFlight(p, task') : u = v
  <2> SUFFICES ASSUME NEW p \in Providers, NEW u \in InFlight(p, task'), NEW v \in InFlight(p, task')
               PROVE  u = v
    OBVIOUS
  <2>1. \A x \in InFlight(p, task') :
          /\ x \in Tasks /\ task'[x] # None /\ task'[x].of = p
          /\ x \in ts \/ (p \notin targets /\ x \in InFlight(p, task))
    BY <1>8 DEF InFlight, Busy
  <2>2. \A x \in ts \cap InFlight(p, task') : at[x] = p /\ p \in targets
    BY <1>6, <2>1
  <2>3. CASE p \in targets
    BY <1>2, <2>1, <2>2, <2>3
  <2>4. CASE p \notin targets
    <3>1. u \in InFlight(p, task) /\ v \in InFlight(p, task)
      BY <2>1, <2>2, <2>4
    <3> QED
      BY <1>3, <3>1 DEF Fits
  <2> QED
    BY <2>3, <2>4
<1>11. \A p \in Providers : \A u \in CurrentOf(p, task') :
         u \in CurrentOf(p, task) /\ task'[u].start = task[u].start
  <2> SUFFICES ASSUME NEW p \in Providers, NEW u \in CurrentOf(p, task')
               PROVE  u \in CurrentOf(p, task) /\ task'[u].start = task[u].start
    OBVIOUS
  <2>1. u \in Tasks /\ task'[u] # None /\ task'[u].stage = "fetch" /\ u \notin ts
    BY <1>6 DEF CurrentOf, InFlight, Busy
  <2> QED
    BY <1>8, <2>1 DEF CurrentOf, InFlight, Busy
<1>12. Fits(cache', task', now)
  <2>1. \A u \in Tasks : task'[u] # None =>
          /\ task'[u].owns => cache'[task'[u].of] # None
          /\ task'[u].kind = "sync" => task'[u].stage = "disk"
          /\ task'[u].stage = "fetch" => task'[u].start <= now
    <3> SUFFICES ASSUME NEW u \in Tasks, task'[u] # None
                 PROVE  /\ task'[u].owns => cache'[task'[u].of] # None
                        /\ task'[u].kind = "sync" => task'[u].stage = "disk"
                        /\ task'[u].stage = "fetch" => task'[u].start <= now
      OBVIOUS
    <3>1. CASE u \in ts
      BY <1>3, <1>5, <1>6, <3>1
    <3>2. CASE u \notin ts
      <4>1. task[u] # None /\ task[u] \in Refresh /\ task[u].of \in Providers
        BY <1>3, <1>8, <3>2 DEF TaskType, Refresh
      <4> QED
        BY <1>3, <1>5, <1>8, <3>2, <4>1 DEF Fits
    <3> QED
      BY <3>1, <3>2
  <2>2. \A u, v \in Tasks :
          /\ task'[u] # None /\ task'[u].kind = "command"
          /\ task'[v] # None /\ task'[v].kind = "command"
          => task'[u].live = task'[v].live
    <3>1. \A u \in Tasks : task'[u] # None /\ task'[u].kind = "command" => u \in ts
      BY <1>1, <1>8
    <3>2. \A u \in ts : task'[u].live = TRUE
      BY <1>6, <1>1, <1>9 DEF TaskType, Refresh
    <3> QED
      BY <3>1, <3>2
  <2>3. \A p \in Providers : cache'[p] # None /\ cache'[p].own =>
          /\ cache'[p].data \in 0 .. now
          /\ \A u \in CurrentOf(p, task') : cache'[p].data <= task'[u].start
    BY <1>3, <1>5, <1>11 DEF Fits
  <2> QED
    BY <1>10, <2>1, <2>2, <2>3 DEF Fits
<1>13. \A u \in Tasks : Polls(task[u], model) => Polls(task'[u], model)
  BY <1>1, <1>8 DEF Polls
<1>14. PollingGoesOn'
  BY <1>1, <1>5, <1>13, TypesOf DEF UsageInv, PollingGoesOn
<1>15. HiddenIsQuiet'
  BY <1>1 DEF HiddenIsQuiet
<1>16. InOrder
  BY <1>5, StillInOrder
<1>17. USTypeOK'
  BY <1>1, <1>3, <1>5, <1>9 DEF UsageInv, USTypeOK, CacheType, TaskType
<1> QED
  BY <1>1, <1>12, <1>14, <1>15, <1>16, <1>17 DEF UsageInv

LEMMA ToggleKeeps ==
    ASSUME SharedAssumption, UsageInv, NEW next \in {"on", "off"}, Toggle(next)
    PROVE  UsageInv' /\ InOrder
<1>1. /\ session /\ mode' = next /\ toggling' = next /\ Start /\ next # None
      /\ UNCHANGED <<inst, cache, task, disk, model, session, routed, watching, now>>
  BY DEF Toggle, SharedAssumption
<1>2. PollingGoesOn' /\ HiddenIsQuiet' /\ InOrder
  BY <1>1, StillInOrder DEF PollingGoesOn, HiddenIsQuiet
<1>3. USTypeOK'
  BY <1>1, StartTyped DEF UsageInv, USTypeOK
<1> QED
  BY <1>1, <1>2, <1>3 DEF UsageInv

LEMMA ToggledKeeps ==
    ASSUME SharedAssumption, UsageInv, NEW t \in Tasks, Toggled(t)
    PROVE  UsageInv' /\ InOrder
<1>1. /\ toggling # None /\ toggling' = None /\ mode = toggling
      /\ UNCHANGED <<inst, disk, model, session, routed, mode, now>>
  BY DEF Toggled, UsageInv
<1>2. CASE toggling = "off" /\ watching' = FALSE /\ UNCHANGED starts
           /\ cache' = ClearedCache(Providers) /\ task' = ClearedTasks(Providers)
  <2>1. /\ cache' \in CacheType /\ task' \in TaskType /\ Fits(cache', task', now)
        /\ \A p \in Providers : cache'[p] = None
    BY <1>2, ClearedFits
  <2>2. USTypeOK'
    BY <1>1, <1>2, <2>1 DEF UsageInv, USTypeOK, CacheType, TaskType
  <2>3. PollingGoesOn' /\ HiddenIsQuiet'
    BY <1>1, <1>2, <2>1 DEF PollingGoesOn, HiddenIsQuiet
  <2> QED
    BY <1>1, <2>1, <2>2, <2>3, StillInOrder DEF UsageInv
<1>3. CASE toggling # "off" /\ (model = None \/ ~session)
           /\ UNCHANGED <<watching, cache, task, starts>>
  <2>1. USTypeOK'
    BY <1>1, <1>3 DEF UsageInv, USTypeOK
  <2>2. Fits(cache', task', now') /\ PollingGoesOn' /\ HiddenIsQuiet'
    BY <1>1, <1>3 DEF UsageInv, PollingGoesOn, HiddenIsQuiet
  <2> QED
    BY <1>1, <1>3, <2>1, <2>2, StillInOrder DEF UsageInv
<1>4. CASE toggling # "off" /\ model # None /\ session /\ cache[model] # None
           /\ cache' = [cache EXCEPT ![model].timer = TRUE]
           /\ UNCHANGED <<watching, task, starts>>
  <2>1. /\ model \in Providers /\ cache \in CacheType /\ task \in TaskType
        /\ Fits(cache, task, now) /\ cache[model] \in State
    BY <1>4, TypesOf DEF CacheType
  <2> DEFINE armed == [cache[model] EXCEPT !.timer = TRUE]
  <2>2. /\ armed \in State /\ armed.timer /\ armed.own = cache[model].own
        /\ armed.data = cache[model].data
    BY <2>1 DEF State
  <2>3. cache' = [cache EXCEPT ![model] = armed]
    BY <1>4, <2>1 DEF CacheType
  <2> HIDE DEF armed
  <2>4. /\ armed # None /\ cache' \in CacheType /\ cache'[model] = armed
        /\ \A p \in Providers : p # model => cache'[p] = cache[p]
    BY <2>1, <2>2, <2>3 DEF SharedAssumption, CacheType
  <2>5. \A p \in Providers : cache'[p] # None /\ cache'[p].own =>
          cache[p] # None /\ cache[p].own /\ cache'[p].data = cache[p].data
    BY <1>4, <2>1, <2>2, <2>4
  <2>6. \A p \in Providers : cache[p] # None => cache'[p] # None
    BY <2>4
  <2>7. Fits(cache', task, now)
    BY ONLY SharedAssumption, <2>1, <2>5, <2>6, FitsAlike
  <2>8. USTypeOK'
    BY <1>1, <1>4, <2>4 DEF UsageInv, USTypeOK, CacheType
  <2>9. PollingGoesOn' /\ HiddenIsQuiet'
    BY <1>1, <1>4, <2>2, <2>4 DEF UsageInv, USTypeOK, PollingGoesOn, HiddenIsQuiet
  <2>10. Fits(cache', task', now')
    BY <1>1, <1>4, <2>7
  <2> QED
    BY <1>1, <2>5, <2>8, <2>9, <2>10, StillInOrder DEF UsageInv
<1>5. CASE toggling # "off" /\ model # None /\ session /\ t \in Idle /\ Start
           /\ cache' = Ensured(cache, model) /\ task' = Started(task, t, "poke", model, TRUE)
           /\ UNCHANGED watching
  <2>1. mode = "on" /\ routed' \in BOOLEAN /\ watching' \in BOOLEAN
    BY <1>1, <1>5 DEF UsageInv, USTypeOK
  <2>2. PICK force \in BOOLEAN : task' = Started(task, t, "poke", model, force)
    BY <1>5
  <2>3. cache \in CacheType /\ task \in TaskType /\ Fits(cache, task, now) /\ task[t] = None
    BY <1>5, TypesOf DEF Idle
  <2> QED
    BY <1>1, <1>5, <2>1, <2>2, <2>3, PokeKeeps
<1> QED
  BY <1>2, <1>3, <1>4, <1>5 DEF Toggled

-----------------------------------------------------------------------------
(* The session.                                                             *)

LEMMA SelectModelKeeps ==
    ASSUME SharedAssumption, UsageInv, NEW p \in inst.used \cup {None}, SelectModel(p)
    PROVE  UsageInv' /\ InOrder
<1>1. /\ session /\ model' = p /\ routed' = FALSE /\ p \in Providers \cup {None}
      /\ UNCHANGED <<inst, cache, task, disk, session, mode, toggling, watching, now, starts>>
  BY TypesOf DEF SelectModel
<1>2. PollingGoesOn' /\ HiddenIsQuiet' /\ InOrder
  BY <1>1, StillInOrder DEF UsageInv, PollingGoesOn, HiddenIsQuiet
<1>3. USTypeOK'
  BY <1>1 DEF UsageInv, USTypeOK
<1> QED
  BY <1>1, <1>2, <1>3 DEF UsageInv

LEMMA ShutdownKeeps ==
    ASSUME SharedAssumption, UsageInv, Shutdown
    PROVE  UsageInv' /\ InOrder
<1> DEFINE U == ClearedTasks(Providers)
<1>1. /\ session' = FALSE /\ watching' = FALSE /\ routed' = FALSE
      /\ cache' = ClearedCache(Providers)
      /\ task' = [t \in Tasks |-> IF task[t] = None THEN None ELSE [U[t] EXCEPT !.live = FALSE]]
      /\ toggling' = IF toggling = "on" THEN None ELSE toggling
      /\ UNCHANGED <<inst, disk, model, mode, now, starts>>
  BY DEF Shutdown
<1>2. /\ cache' \in CacheType /\ U \in TaskType /\ Fits(cache', U, now)
      /\ \A p \in Providers : cache'[p] = None
      /\ \A t \in Tasks : U[t] = None <=> task[t] = None
  BY <1>1, ClearedFits
<1> HIDE DEF U
<1>3. \A t \in Tasks : U[t] # None =>
        LET c == [U[t] EXCEPT !.live = FALSE] IN
        /\ c \in Refresh /\ c # None /\ c.kind = U[t].kind /\ c.of = U[t].of
        /\ c.stage = U[t].stage /\ c.start = U[t].start /\ c.live = FALSE
        /\ c.owns = U[t].owns /\ c.current = U[t].current
  BY <1>2 DEF TaskType, Refresh, SharedAssumption
<1>4. /\ task' \in TaskType
      /\ \A t \in Tasks : task'[t] # None =>
           /\ U[t] # None /\ task'[t].kind = U[t].kind /\ task'[t].of = U[t].of
           /\ task'[t].stage = U[t].stage /\ task'[t].start = U[t].start
           /\ task'[t].live = FALSE
           /\ task'[t].owns = U[t].owns /\ task'[t].current = U[t].current
  BY <1>1, <1>2, <1>3 DEF TaskType
<1>5. /\ \A p \in Providers : InFlight(p, task') \subseteq InFlight(p, U)
      /\ \A p \in Providers : \A t, u \in InFlight(p, task') : t = u
  <2>1. \A p \in Providers : InFlight(p, task') \subseteq InFlight(p, U)
    BY <1>4 DEF InFlight, Busy
  <2> QED
    BY <1>2, <2>1 DEF Fits
<1>6. \A t \in Tasks : task'[t] # None =>
        /\ task'[t].owns => cache'[task'[t].of] # None
        /\ task'[t].kind = "sync" => task'[t].stage = "disk"
        /\ task'[t].stage = "fetch" => task'[t].start <= now
  BY <1>2, <1>4 DEF Fits
<1>7. Fits(cache', task', now')
  <2>1. \A t, u \in Tasks :
          /\ task'[t] # None /\ task'[t].kind = "command"
          /\ task'[u] # None /\ task'[u].kind = "command"
          => task'[t].live = task'[u].live
    BY <1>4
  <2>2. Fits(cache', task', now)
    BY <1>2, <1>5, <1>6, <2>1 DEF Fits
  <2> QED
    BY <1>1, <2>2
<1>8. PollingGoesOn' /\ HiddenIsQuiet' /\ InOrder
  BY <1>1, <1>2, StillInOrder DEF PollingGoesOn, HiddenIsQuiet
<1>9. USTypeOK'
  BY <1>1, <1>2, <1>4 DEF UsageInv, USTypeOK, CacheType, TaskType
<1> QED
  BY <1>1, <1>7, <1>8, <1>9 DEF UsageInv

LEMMA NewSessionKeeps ==
    ASSUME SharedAssumption, UsageInv, NewSession
    PROVE  UsageInv' /\ InOrder
<1>1. /\ ~session /\ session' = TRUE /\ ~routed
      /\ UNCHANGED <<inst, cache, task, disk, model, routed, mode, toggling, watching, now, starts>>
  BY DEF NewSession, UsageInv
<1>2. PollingGoesOn' /\ HiddenIsQuiet' /\ InOrder
  BY <1>1, StillInOrder DEF UsageInv, PollingGoesOn, HiddenIsQuiet
<1>3. USTypeOK'
  BY <1>1 DEF UsageInv, USTypeOK
<1> QED
  BY <1>1, <1>2, <1>3 DEF UsageInv

LEMMA TickKeeps ==
    ASSUME SharedAssumption, UsageInv, Tick
    PROVE  UsageInv' /\ InOrder
<1>1. /\ now < inst.now /\ now' = now + 1 /\ now \in Nat /\ inst.now \in Nat
      /\ cache \in CacheType /\ task \in TaskType /\ Fits(cache, task, now)
      /\ UNCHANGED <<inst, cache, task, disk, model, session, routed, mode, toggling, watching,
                     starts>>
  BY TypesOf DEF Tick
<1>2. PollingGoesOn' /\ HiddenIsQuiet' /\ InOrder
  BY <1>1, StillInOrder DEF UsageInv, PollingGoesOn, HiddenIsQuiet
<1>3. now' \in 0 .. inst'.now
  BY <1>1
<1>4. USTypeOK'
  BY <1>1, <1>3 DEF UsageInv, USTypeOK
<1>5. \A t \in Tasks : task[t] # None => task[t].start \in Nat
  BY <1>1 DEF TaskType, Refresh
<1>6. Fits(cache', task', now')
  <2>1. PICK n \in Nat : n = now' /\ now < n
    BY <1>1
  <2>2. Fits(cache, task, n)
    BY <1>1, <1>5, <2>1 DEF Fits
  <2>3. Fits(cache, task, now')
    BY <2>1, <2>2
  <2> QED
    BY ONLY <1>1, <2>3
<1> QED
  BY <1>1, <1>2, <1>4, <1>6 DEF UsageInv

-----------------------------------------------------------------------------
(* The invariant.                                                           *)

LEMMA UsageInit ==
    ASSUME SharedAssumption, USInit
    PROVE  UsageInv
<1>1. /\ cache = [p \in Providers |-> None] /\ task = [t \in Tasks |-> None]
      /\ disk = [p \in Providers |-> None] /\ inst \in Instances /\ model \in inst.used
      /\ session = TRUE /\ routed = FALSE /\ mode = "on" /\ toggling = None /\ watching = FALSE
      /\ now = 0 /\ starts = 0
  BY DEF USInit
<1>2. inst.used \subseteq Providers /\ inst.now \in Nat /\ inst.starts \in Nat
  BY <1>1 DEF SharedAssumption
<1>3. USTypeOK
  <2>1. /\ cache \in [Providers -> State \cup {None}]
        /\ task \in [Tasks -> Refresh \cup {None}]
        /\ disk \in [Providers -> [data : Nat, at : Nat] \cup {None}]
    BY <1>1
  <2>2. now \in 0 .. inst.now /\ starts \in 0 .. inst.starts
    BY <1>1, <1>2
  <2>3. model \in Providers \cup {None}
    BY <1>1, <1>2
  <2> QED
    BY <1>1, <2>1, <2>2, <2>3 DEF USTypeOK
<1>4. Fits(cache, task, now)
  BY <1>1 DEF Fits, InFlight, Busy
<1> QED
  BY <1>1, <1>3, <1>4 DEF UsageInv, PollingGoesOn, HiddenIsQuiet

LEMMA UsageNext ==
    ASSUME SharedAssumption, UsageInv, [USNext]_usvars
    PROVE  UsageInv' /\ [InOrder]_usvars
<1>1. ASSUME NEW t \in Tasks,
             \/ DiskRead(t) \/ Fetched(t) \/ FetchFails(t) \/ Written(t)
             \/ SyncStart(t) \/ SyncRead(t) \/ Toggled(t)
      PROVE  UsageInv' /\ InOrder
  BY <1>1, DiskReadKeeps, FetchedKeeps, FetchFailsKeeps, WrittenKeeps, SyncStartKeeps,
     SyncReadKeeps, ToggledKeeps
<1>2. ASSUME NEW t \in Tasks, NEW force \in BOOLEAN, Route(t, force)
      PROVE  UsageInv' /\ InOrder
  BY <1>2, RouteKeeps
<1>3. ASSUME NEW t \in Tasks, NEW p \in Providers, TimerFires(t, p)
      PROVE  UsageInv' /\ InOrder
  BY <1>3, TimerFiresKeeps
<1>4. ASSUME NEW ts \in SUBSET Tasks, NEW targets \in SUBSET Providers, Command(ts, targets)
      PROVE  UsageInv' /\ InOrder
  BY <1>4, CommandKeeps
<1>5. ASSUME NEW next \in {"on", "off"}, Toggle(next)
      PROVE  UsageInv' /\ InOrder
  BY <1>5, ToggleKeeps
<1>6. ASSUME NEW p \in inst.used \cup {None}, SelectModel(p)
      PROVE  UsageInv' /\ InOrder
  BY <1>6, SelectModelKeeps
<1>7. ASSUME NEW p \in inst.used, OtherWrites(p)
      PROVE  UsageInv' /\ InOrder
  BY <1>7, TypesOf, OtherWritesKeeps
<1>8. CASE Shutdown \/ NewSession \/ Tick
  BY <1>8, ShutdownKeeps, NewSessionKeeps, TickKeeps
<1>9. CASE UNCHANGED usvars
  <2>1. UsageInv'
    BY <1>9 DEF usvars, UsageInv, USTypeOK, PollingGoesOn, HiddenIsQuiet
  <2> QED
    BY <1>9, <2>1
<1> QED
  BY <1>1, <1>2, <1>3, <1>4, <1>5, <1>6, <1>7, <1>8, <1>9 DEF USNext

-----------------------------------------------------------------------------
(* The theorems                                                             *)

\* The states, their timers, the requests under way and the session fit
\* together in every reachable state.
THEOREM UsageHolds == SharedAssumption /\ USSpec => []UsageInv
<1> SUFFICES ASSUME SharedAssumption
             PROVE  USSpec => []UsageInv
  OBVIOUS
<1>1. USInit => UsageInv
  BY UsageInit
<1>2. UsageInv /\ [USNext]_usvars => UsageInv'
  BY UsageNext
<1> QED
  BY <1>1, <1>2, PTL DEF USSpec

\* Polling never stops by itself: while usage is shown for the provider of the
\* session's model, its timer is armed or a task is under way that arms it.
THEOREM PollingNeverStops == SharedAssumption /\ USSpec => []PollingGoesOn
<1>1. UsageInv => PollingGoesOn
  BY DEF UsageInv
<1> QED
  BY <1>1, UsageHolds, PTL

\* Once a toggle to "off" or the end of the session has cleared the states, no
\* timer is left and no answer is applied.
THEOREM HiddenUsageIsQuiet == SharedAssumption /\ USSpec => []HiddenIsQuiet
<1>1. UsageInv => HiddenIsQuiet
  BY DEF UsageInv
<1> QED
  BY <1>1, UsageHolds, PTL

\* What this process fetched itself of one provider only moves forward: an
\* answer that arrives late never takes the place of a later one.
THEOREM AnswersStayInOrder == SharedAssumption /\ USSpec => AnswersInOrder
<1> SUFFICES ASSUME SharedAssumption
             PROVE  USSpec => AnswersInOrder
  OBVIOUS
<1>1. UsageInv /\ [USNext]_usvars => [InOrder]_usvars
  BY UsageNext
<1> QED
  BY <1>1, UsageHolds, PTL DEF USSpec, AnswersInOrder

-----------------------------------------------------------------------------
(* The event bridge.                                                         *)

\* What the library says of finite sets is said of those of the instance.
LEMMA BridgeFinite ==
    ASSUME NEW S
    PROVE  /\ Bridge!Cardinality(S) = Cardinality(S)
           /\ Bridge!IsFiniteSet(S) <=> IsFiniteSet(S)
BY DEF Bridge!Cardinality, Cardinality, Bridge!IsFiniteSet, IsFiniteSet

\* A set of numbers has a least one.
LEMMA Least ==
    ASSUME NEW S \in SUBSET Nat, S # {}
    PROVE  \E n \in S : \A m \in S : n <= m
<1> DEFINE R == StrictSubsetOrdering(Nat)
           T == {1..i : i \in S}
<1>1. IsWellFoundedOn(R, FiniteSubsetsOf(Nat))
  BY FS_StrictSubsetOrderingWellFounded
<1>2. \A i \in Nat : 1..i \in FiniteSubsetsOf(Nat)
  BY FS_Interval DEF FiniteSubsetsOf
<1>3. T \subseteq FiniteSubsetsOf(Nat) /\ T # {}
  BY <1>2
<1>4. PICK x \in T : \A y \in T : ~(<<y, x>> \in R)
  <2> HIDE DEF R, T
  <2> QED
    BY <1>1, <1>3, WFMin
<1>5. PICK n \in S : x = 1..n
  BY <1>4
<1>6. \A m \in S : ~(<<1..m, 1..n>> \in R)
  BY <1>4, <1>5
<1>7. ASSUME NEW m \in S, m < n PROVE FALSE
  <2>1. 1..m \subseteq 1..n /\ n \in 1..n /\ n \notin 1..m
    BY <1>7
  <2>2. 1..m \in SUBSET Nat /\ 1..n \in SUBSET Nat
    OBVIOUS
  <2>3. <<1..m, 1..n>> \in R
    BY <2>1, <2>2 DEF StrictSubsetOrdering
  <2> QED
    BY <1>6, <2>3
<1> QED
  BY <1>7

-----------------------------------------------------------------------------
(* What is billed in all.                                                    *)

\* f is the sums of the first figures of s.
Totals(f, n, s) == f
  = [c \in 0..n |-> IF c = 0 THEN Bridge!NoUsage ELSE Bridge!Plus(f[c - 1], s[c])]

LEMMA TotalsExist ==
    ASSUME NEW s, NEW n \in Nat
    PROVE  \E f : Totals(f, n, s)
<1> DEFINE S == {k \in 0..n : ~ \E f : Totals(f, k, s)}
<1>1. CASE S = {}
  BY <1>1
<1>2. CASE S # {}
  <2>1. PICK k \in S : \A m \in S : k <= m
    <3>1. S \in SUBSET Nat
      OBVIOUS
    <3> HIDE DEF S
    <3> QED
      BY <1>2, <3>1, Least
  <2>2. k # 0
    <3>1. Totals([c \in 0..0 |-> Bridge!NoUsage], 0, s)
      BY DEF Totals
    <3> QED
      BY <3>1
  <2>3. PICK g : Totals(g, k - 1, s)
    BY <2>1, <2>2
  <2> DEFINE f == [c \in 0..k |-> IF c = k THEN Bridge!Plus(g[k - 1], s[k]) ELSE g[c]]
  <2>4. \A c \in 0..k - 1 : g[c] = IF c = 0 THEN Bridge!NoUsage ELSE Bridge!Plus(g[c - 1], s[c])
    <3>1. k - 1 \in Nat
      BY <2>1, <2>2
    <3> HIDE DEF S
    <3> QED
      BY <2>3, <3>1 DEF Totals
  <2>5. \A c \in 0..k : f[c] = IF c = 0 THEN Bridge!NoUsage ELSE Bridge!Plus(f[c - 1], s[c])
    BY <2>4, <2>2
  <2>6. Totals(f, k, s)
    BY <2>5 DEF Totals
  <2> QED
    BY <2>1, <2>6
<1> QED
  BY <1>1, <1>2

\* The sums of one sequence are those of another as far as they agree.
LEMMA TotalsAgree ==
    ASSUME NEW s, NEW t, NEW f, NEW g, NEW m \in Nat, NEW k \in Nat, NEW n \in Nat,
           n <= m, n <= k, Totals(f, m, s), Totals(g, k, t), \A c \in 1..n : s[c] = t[c]
    PROVE  \A c \in 0..n : f[c] = g[c]
<1> DEFINE S == {c \in 0..n : f[c] # g[c]}
<1>1. \A c \in 0..n : /\ f[c] = IF c = 0 THEN Bridge!NoUsage ELSE Bridge!Plus(f[c - 1], s[c])
                      /\ g[c] = IF c = 0 THEN Bridge!NoUsage ELSE Bridge!Plus(g[c - 1], t[c])
  BY DEF Totals
<1>2. CASE S # {}
  <2>1. PICK c \in S : \A d \in S : c <= d
    <3>1. S \in SUBSET Nat
      OBVIOUS
    <3> HIDE DEF S
    <3> QED
      BY <1>2, <3>1, Least
  <2>2. c # 0
    BY <1>1, <2>1
  <2>3. f[c - 1] = g[c - 1]
    BY <2>1, <2>2
  <2> QED
    BY <1>1, <2>1, <2>2, <2>3
<1> QED
  BY <1>2

LEMMA PlusTyped ==
    ASSUME NEW u \in Bridge!Usages, NEW v \in Bridge!Usages
    PROVE  /\ Bridge!Plus(u, v) \in Bridge!Usages /\ Bridge!NoUsage \in Bridge!Usages
           /\ Bridge!Plus(u, Bridge!NoUsage) = u /\ Bridge!Plus(Bridge!NoUsage, v) = v
BY DEF Bridge!Plus, Bridge!Usages, Bridge!NoUsage

LEMMA TotalIs ==
    ASSUME NEW s \in Seq(Bridge!Usages)
    PROVE  \E f : /\ Totals(f, Len(s), s) /\ Bridge!Total(s) = f[Len(s)]
                  /\ f \in [0..Len(s) -> Bridge!Usages]
<1> DEFINE f == CHOOSE g : Totals(g, Len(s), s)
<1>0. Len(s) \in Nat
  OBVIOUS
<1>1. Totals(f, Len(s), s)
  BY <1>0, TotalsExist
<1>2. Bridge!Total(s) = f[Len(s)]
  BY DEF Bridge!Total, Totals
<1> HIDE DEF f
<1>3. \A c \in 0..Len(s) : f[c] = IF c = 0 THEN Bridge!NoUsage ELSE Bridge!Plus(f[c - 1], s[c])
  BY <1>1 DEF Totals
<1> DEFINE S == {c \in 0..Len(s) : f[c] \notin Bridge!Usages}
<1>4. CASE S # {}
  <2>1. PICK c \in S : \A d \in S : c <= d
    <3>1. S \in SUBSET Nat
      OBVIOUS
    <3> HIDE DEF S
    <3> QED
      BY <1>4, <3>1, Least
  <2>2. c # 0
    BY <1>3, <2>1 DEF Bridge!NoUsage, Bridge!Usages
  <2>3. f[c - 1] \in Bridge!Usages /\ s[c] \in Bridge!Usages
    BY <2>1, <2>2
  <2>4. Bridge!Plus(f[c - 1], s[c]) \in Bridge!Usages
    BY <2>3, PlusTyped
  <2> QED
    BY <1>3, <2>1, <2>2, <2>4
<1>5. CASE S = {}
  <2>1. f = [c \in 0..Len(s) |-> f[c]]
    BY <1>1 DEF Totals
  <2>2. \A c \in 0..Len(s) : f[c] \in Bridge!Usages
    BY <1>5
  <2> QED
    BY <1>1, <1>2, <2>1, <2>2
<1> QED
  BY <1>4, <1>5

\* A new cycle adds its figures to the bill; what an open one reports replaces
\* what it reported before.
LEMMA TotalAppend ==
    ASSUME NEW s \in Seq(Bridge!Usages), NEW u \in Bridge!Usages
    PROVE  Bridge!Total(s) \in Bridge!Usages
             /\ Bridge!Total(Append(s, u)) = Bridge!Plus(Bridge!Total(s), u)
<1> DEFINE t == Append(s, u)
           n == Len(s)
<1>1. t \in Seq(Bridge!Usages) /\ Len(t) = n + 1 /\ t[n + 1] = u /\ \A c \in 1..n : t[c] = s[c]
  OBVIOUS
<1>2. n \in Nat
  OBVIOUS
<1> HIDE DEF t
<1>3. PICK f : Totals(f, n, s) /\ Bridge!Total(s) = f[n] /\ f \in [0..n -> Bridge!Usages]
  BY TotalIs
<1>4. PICK g : Totals(g, n + 1, t) /\ Bridge!Total(t) = g[n + 1]
  BY <1>1, TotalIs
<1> HIDE DEF n
<1>5. \A c \in 0..n : f[c] = g[c]
  <2>1. n + 1 \in Nat /\ n <= n + 1 /\ n <= n /\ \A c \in 1..n : s[c] = t[c]
    BY <1>1, <1>2
  <2>2. Totals(f, n, s) /\ Totals(g, n + 1, t)
    BY <1>3, <1>4
  <2> QED
    BY <1>2, <2>1, <2>2, TotalsAgree
<1>6. g[n + 1] = Bridge!Plus(g[n], t[n + 1])
  BY <1>2, <1>4 DEF Totals
<1> QED
  BY <1>1, <1>2, <1>3, <1>4, <1>5, <1>6 DEF t

LEMMA TotalReplace ==
    ASSUME NEW s \in Seq(Bridge!Usages), Len(s) > 0, NEW u \in Bridge!Usages
    PROVE  \E v \in Bridge!Usages :
             /\ Bridge!Total(s) = Bridge!Plus(v, s[Len(s)])
             /\ Bridge!Total([s EXCEPT ![Len(s)] = u]) = Bridge!Plus(v, u)
<1> DEFINE t == [s EXCEPT ![Len(s)] = u]
           n == Len(s)
<1>1. t \in Seq(Bridge!Usages) /\ Len(t) = n /\ t[n] = u /\ \A c \in 1..n - 1 : t[c] = s[c]
  OBVIOUS
<1>2. n \in Nat /\ n > 0
  OBVIOUS
<1> HIDE DEF t
<1>3. PICK f : Totals(f, n, s) /\ Bridge!Total(s) = f[n] /\ f \in [0..n -> Bridge!Usages]
  BY TotalIs
<1>4. PICK g : Totals(g, n, t) /\ Bridge!Total(t) = g[n]
  BY <1>1, TotalIs
<1> HIDE DEF n
<1>5. \A c \in 0..n - 1 : f[c] = g[c]
  <2>1. PICK p \in Nat : p = n - 1
    BY <1>2
  <2>2. p <= n /\ \A c \in 1..p : s[c] = t[c]
    BY <1>1, <1>2, <2>1
  <2>3. Totals(f, n, s) /\ Totals(g, n, t)
    BY <1>3, <1>4
  <2>4. \A c \in 0..p : f[c] = g[c]
    BY <1>2, <2>2, <2>3, TotalsAgree
  <2> QED
    BY <2>1, <2>4
<1>6. g[n] = Bridge!Plus(g[n - 1], t[n]) /\ f[n] = Bridge!Plus(f[n - 1], s[n])
  BY <1>2, <1>3, <1>4 DEF Totals
<1>7. f[n - 1] \in Bridge!Usages /\ g[n - 1] = f[n - 1]
  BY <1>2, <1>3, <1>5
<1> QED
  BY <1>1, <1>3, <1>4, <1>6, <1>7 DEF t, n

-----------------------------------------------------------------------------
(* The bill and the gauge.                                                   *)

BillTyped ==
  /\ ebInst \in BridgeInstances /\ cycle \in Nat /\ lastCycle \in Nat /\ context \in Nat
  /\ cumulative \in Bridge!Usages /\ cycleUsage \in Bridge!Usages /\ bill \in Seq(Bridge!Usages)
  /\ usage \in [spent : Bridge!Usages, total : Nat]
  /\ phase \in {"start", "open", "closed", "done"}

LEMMA RecomputedIs ==
    ASSUME NEW cum \in Bridge!Usages, NEW cyc \in Bridge!Usages, NEW latch \in Nat,
           Bridge!Recomputed(cum, cyc, latch)
    PROVE  /\ cumulative' = cum /\ cycleUsage' = cyc /\ lastCycle' \in Nat
           /\ lastCycle' = IF cyc.read > 0 THEN cyc.read ELSE latch
           /\ usage' \in [spent : Bridge!Usages, total : Nat]
           /\ lastCycle' > 0 => usage'.total = lastCycle'
<1>1. Bridge!Plus(cum, cyc) \in Bridge!Usages
  BY DEF Bridge!Plus, Bridge!Usages
<1> DEFINE spent == Bridge!Plus(cum, cyc)
           last == IF cyc.read > 0 THEN cyc.read ELSE latch
           total == IF last > 0 THEN last ELSE spent.read + spent.wrote
<1>2. last \in Nat
  BY DEF Bridge!Usages
<1>3. spent.read + spent.wrote \in Nat
  BY <1>1 DEF Bridge!Usages
<1>4. /\ usage' = [spent |-> spent, total |-> total]
      /\ lastCycle' = last /\ cumulative' = cum /\ cycleUsage' = cyc
  BY DEF Bridge!Recomputed
<1>5. total \in Nat
  BY <1>2, <1>3
<1>6. last > 0 => total = last
  OBVIOUS
<1> HIDE DEF spent, last, total
<1>7. usage' \in [spent : Bridge!Usages, total : Nat] /\ usage'.total = total
  BY <1>1, <1>4, <1>5 DEF spent
<1> QED
  BY <1>2, <1>4, <1>6, <1>7 DEF last

LEMMA BillStarts == ASSUME Bridge!BridgeAssumption, Bridge!EBInit PROVE BillTyped
  /\ Bridge!BillFits
<1>1. <<>> \in Seq(Bridge!Usages) /\ Len(<<>>) = 0 /\ Bridge!NoUsage \in Bridge!Usages
  BY PlusTyped DEF Bridge!NoUsage, Bridge!Usages
<1>2. PICK f : Totals(f, 0, <<>>) /\ Bridge!Total(<<>>) = f[0]
  BY <1>1, TotalIs
<1>3. Bridge!Total(<<>>) = Bridge!NoUsage
  BY <1>2 DEF Totals
<1>4. /\ cumulative = Bridge!NoUsage /\ cycleUsage = Bridge!NoUsage /\ bill = <<>>
      /\ lastCycle = 0
      /\ context = 0 /\ usage = [spent |-> Bridge!NoUsage, total |-> 0] /\ phase = "start"
      /\ cycle = 0
      /\ ebInst \in BridgeInstances
  BY DEF Bridge!EBInit
<1>5. BillTyped
  BY <1>1, <1>4 DEF BillTyped
<1>6. Bridge!Plus(cumulative, cycleUsage) = Bridge!Total(bill)
  BY <1>1, <1>3, <1>4, PlusTyped
<1> QED
  BY <1>1, <1>4, <1>5, <1>6 DEF Bridge!BillFits, Bridge!GaugeIsContext, Bridge!BilledOnce

LEMMA StartBills ==
    ASSUME Bridge!BridgeAssumption, BillTyped, Bridge!BillFits, Bridge!MessageStart
    PROVE  BillTyped' /\ Bridge!BillFits'
<1>1. PICK u \in Bridge!Usages :
        /\ bill' = Append(bill, u) /\ cycleUsage' = u
        /\ cumulative' = Bridge!Plus(cumulative, cycleUsage)
        /\ context' \in Nat /\ lastCycle' = context'
        /\ usage' \in [spent : Bridge!Usages, total : Nat]
        /\ context' > 0 => usage'.total = context'
  <2>1. Bridge!Plus(cumulative, cycleUsage) \in Bridge!Usages /\ Bridge!NoUsage \in Bridge!Usages
    BY PlusTyped DEF BillTyped
  <2>2. ASSUME NEW read \in ebInst.context, NEW u, u = [read |-> read, wrote |-> 0],
               Bridge!Recomputed(Bridge!Plus(cumulative, cycleUsage), u, lastCycle),
               bill' = Append(bill, u), context' = Bridge!Reported(u)
        PROVE  /\ u \in Bridge!Usages
               /\ bill' = Append(bill, u) /\ cycleUsage' = u
               /\ cumulative' = Bridge!Plus(cumulative, cycleUsage)
               /\ context' \in Nat /\ lastCycle' = context'
               /\ usage' \in [spent : Bridge!Usages, total : Nat]
               /\ context' > 0 => usage'.total = context'
    <3>1. read \in Nat /\ u.read = read /\ u \in Bridge!Usages
      BY <2>2 DEF Bridge!BridgeAssumption, BillTyped, Bridge!Usages
    <3>2. lastCycle \in Nat /\ lastCycle = context
      BY DEF BillTyped, Bridge!BillFits
    <3>3. /\ cumulative' = Bridge!Plus(cumulative, cycleUsage) /\ cycleUsage' = u
          /\ lastCycle' \in Nat
          /\ lastCycle' = IF u.read > 0 THEN u.read ELSE lastCycle
          /\ usage' \in [spent : Bridge!Usages, total : Nat]
          /\ lastCycle' > 0 => usage'.total = lastCycle'
      BY <2>1, <2>2, <3>1, <3>2, RecomputedIs
    <3>4. context' = lastCycle'
      BY <2>2, <3>2, <3>3 DEF Bridge!Reported
    <3> QED
      BY <2>2, <3>1, <3>3, <3>4
  <2>3. CASE /\ cumulative' = Bridge!Plus(cumulative, cycleUsage) /\ cycleUsage' = Bridge!NoUsage
             /\ bill' = Append(bill, Bridge!NoUsage)
             /\ UNCHANGED <<lastCycle, usage, context>>
    BY <2>1, <2>3 DEF BillTyped, Bridge!BillFits, Bridge!GaugeIsContext
  <2> QED
    BY <2>2, <2>3 DEF Bridge!MessageStart
<1>2. Bridge!Total(bill') = Bridge!Plus(Bridge!Total(bill), u)
        /\ Bridge!Plus(cumulative, cycleUsage) \in Bridge!Usages
  BY <1>1, TotalAppend, PlusTyped DEF BillTyped
<1>3. bill' \in Seq(Bridge!Usages) /\ Len(bill') = Len(bill) + 1 /\ bill'[Len(bill) + 1] = u
  BY <1>1 DEF BillTyped
<1>4. phase # "done" /\ cycle' = cycle + 1 /\ phase' = "open" /\ ebInst' = ebInst /\ cycle \in Nat
  BY DEF Bridge!MessageStart, BillTyped
<1>5. BillTyped'
  BY <1>1, <1>2, <1>3, <1>4 DEF BillTyped
<1>6. Bridge!Plus(cumulative', cycleUsage') = Bridge!Total(bill')
  BY <1>1, <1>2 DEF Bridge!BillFits, Bridge!BilledOnce
<1> QED
  BY <1>1, <1>3, <1>4, <1>5, <1>6 DEF Bridge!BillFits, Bridge!GaugeIsContext, Bridge!BilledOnce

LEMMA DeltaBills ==
    ASSUME Bridge!BridgeAssumption, BillTyped, Bridge!BillFits, Bridge!MessageDelta
    PROVE  BillTyped' /\ Bridge!BillFits'
<1>1. PICK read \in {cycleUsage.read} \cup ebInst.context :
        /\ Bridge!Recomputed(cumulative, [read |-> read, wrote |-> 1], lastCycle)
        /\ bill' = [bill EXCEPT ![cycle] = [read |-> read, wrote |-> 1]]
        /\ context' = Bridge!Reported([read |-> read, wrote |-> 1])
  BY DEF Bridge!MessageDelta
<1> DEFINE u == [read |-> read, wrote |-> 1]
<1>2. read \in Nat /\ u \in Bridge!Usages /\ u.read = read
  BY DEF Bridge!BridgeAssumption, BillTyped, Bridge!Usages
<1>3. /\ Bridge!Recomputed(cumulative, u, lastCycle) /\ bill' = [bill EXCEPT ![cycle] = u]
      /\ context' = Bridge!Reported(u)
  BY <1>1
<1> HIDE DEF u
<1>4. lastCycle \in Nat /\ lastCycle = context /\ cumulative \in Bridge!Usages
  BY DEF BillTyped, Bridge!BillFits
<1>5. /\ cumulative' = cumulative /\ cycleUsage' = u /\ lastCycle' \in Nat
      /\ lastCycle' = IF u.read > 0 THEN u.read ELSE lastCycle
      /\ usage' \in [spent : Bridge!Usages, total : Nat]
      /\ lastCycle' > 0 => usage'.total = lastCycle'
  BY <1>2, <1>3, <1>4, RecomputedIs
<1>6. context' = lastCycle'
  BY <1>3, <1>4, <1>5 DEF Bridge!Reported
<1>7. phase = "open" /\ phase' = "closed" /\ cycle' = cycle /\ ebInst' = ebInst
  BY DEF Bridge!MessageDelta
<1>8. cycle = Len(bill) /\ Len(bill) > 0 /\ cycleUsage = bill[cycle]
        /\ bill \in Seq(Bridge!Usages)
  BY <1>7 DEF Bridge!BillFits, BillTyped
<1>9. PICK v \in Bridge!Usages : /\ Bridge!Total(bill) = Bridge!Plus(v, cycleUsage)
                          /\ Bridge!Total(bill') = Bridge!Plus(v, u)
  BY <1>2, <1>3, <1>8, TotalReplace
<1>10. cumulative = v
  <2>1. Bridge!Plus(cumulative, cycleUsage) = Bridge!Plus(v, cycleUsage)
          /\ cycleUsage \in Bridge!Usages
    BY <1>9 DEF Bridge!BillFits, Bridge!BilledOnce, BillTyped
  <2>2. /\ cumulative.read \in Nat /\ cumulative.wrote \in Nat /\ v.read \in Nat
        /\ v.wrote \in Nat
        /\ cycleUsage.read \in Nat /\ cycleUsage.wrote \in Nat
        /\ cumulative = [read |-> cumulative.read, wrote |-> cumulative.wrote]
        /\ v = [read |-> v.read, wrote |-> v.wrote]
    BY <1>4, <2>1 DEF Bridge!Usages
  <2>3. /\ cumulative.read + cycleUsage.read = v.read + cycleUsage.read
        /\ cumulative.wrote + cycleUsage.wrote = v.wrote + cycleUsage.wrote
    BY <2>1 DEF Bridge!Plus
  <2>4. cumulative.read = v.read /\ cumulative.wrote = v.wrote
    BY <2>2, <2>3
  <2> QED
    BY <2>2, <2>4
<1>11. bill' \in Seq(Bridge!Usages) /\ Len(bill') = Len(bill)
  BY <1>2, <1>3, <1>8
<1>12. BillTyped'
  BY <1>2, <1>4, <1>5, <1>6, <1>7, <1>11 DEF BillTyped
<1> QED
  BY <1>5, <1>6, <1>7, <1>8, <1>9, <1>10, <1>11, <1>12
     DEF Bridge!BillFits, Bridge!GaugeIsContext, Bridge!BilledOnce

LEMMA CompactBills ==
    ASSUME Bridge!BridgeAssumption, BillTyped, Bridge!BillFits, Bridge!CompactBoundary
    PROVE  BillTyped' /\ Bridge!BillFits'
<1>1. phase = "closed" /\ phase' = phase /\ cycle' = cycle /\ ebInst' = ebInst /\ bill' = bill
  BY DEF Bridge!CompactBoundary
<1>2. Bridge!Plus(cumulative, cycleUsage) \in Bridge!Usages /\ Bridge!NoUsage \in Bridge!Usages
        /\ Bridge!NoUsage.read = 0
  BY PlusTyped DEF BillTyped, Bridge!NoUsage
<1>3. PICK post \in {0} \cup ebInst.context :
        IF post > 0
        THEN /\ Bridge!Recomputed(Bridge!Plus(cumulative, cycleUsage), Bridge!NoUsage, post)
             /\ context' = post
        ELSE UNCHANGED <<cumulative, cycleUsage, lastCycle, usage, context>>
  BY DEF Bridge!CompactBoundary
<1>4. post \in Nat
  BY DEF Bridge!BridgeAssumption, BillTyped
<1>5. CASE post > 0
  <2>1. Bridge!Recomputed(Bridge!Plus(cumulative, cycleUsage), Bridge!NoUsage, post)
          /\ context' = post
    BY <1>3, <1>5
  <2>2. /\ cumulative' = Bridge!Plus(cumulative, cycleUsage) /\ cycleUsage' = Bridge!NoUsage
        /\ lastCycle' \in Nat
        /\ lastCycle' = IF Bridge!NoUsage.read > 0 THEN Bridge!NoUsage.read ELSE post
        /\ usage' \in [spent : Bridge!Usages, total : Nat]
        /\ lastCycle' > 0 => usage'.total = lastCycle'
    BY <1>2, <1>4, <2>1, RecomputedIs
  <2>3. lastCycle' = post
    BY <1>2, <2>2
  <2>4. Bridge!Plus(cumulative', cycleUsage') = Bridge!Plus(cumulative, cycleUsage)
    BY <1>2, <2>2, PlusTyped
  <2> QED
    BY <1>1, <1>2, <1>4, <2>1, <2>2, <2>3, <2>4
       DEF BillTyped, Bridge!BillFits, Bridge!GaugeIsContext, Bridge!BilledOnce
<1>6. CASE ~(post > 0)
  BY <1>1, <1>3, <1>6 DEF BillTyped, Bridge!BillFits, Bridge!GaugeIsContext, Bridge!BilledOnce
<1> QED
  BY <1>5, <1>6

LEMMA ResultBills ==
    ASSUME Bridge!BridgeAssumption, BillTyped, Bridge!BillFits, Bridge!Result
    PROVE  BillTyped' /\ Bridge!BillFits'
<1>1. phase' = "done" /\ cycle' = cycle /\ ebInst' = ebInst /\ context' = context
  BY DEF Bridge!Result
<1>2. lastCycle \in Nat /\ lastCycle = context /\ Bridge!NoUsage \in Bridge!Usages
        /\ Bridge!NoUsage.read = 0
  BY PlusTyped DEF BillTyped, Bridge!BillFits, Bridge!NoUsage, Bridge!Usages
<1>3. CASE \E totals \in [read : ebInst.context, wrote : {1}] :
             Bridge!Recomputed(totals, Bridge!NoUsage, lastCycle) /\ bill' = <<totals>>
  <2>1. PICK totals \in [read : ebInst.context, wrote : {1}] :
          Bridge!Recomputed(totals, Bridge!NoUsage, lastCycle) /\ bill' = <<totals>>
    BY <1>3
  <2>2. totals \in Bridge!Usages
    BY DEF Bridge!BridgeAssumption, BillTyped, Bridge!Usages
  <2>3. /\ cumulative' = totals /\ cycleUsage' = Bridge!NoUsage /\ lastCycle' \in Nat
        /\ lastCycle' = IF Bridge!NoUsage.read > 0 THEN Bridge!NoUsage.read ELSE lastCycle
        /\ usage' \in [spent : Bridge!Usages, total : Nat]
        /\ lastCycle' > 0 => usage'.total = lastCycle'
    BY <1>2, <2>1, <2>2, RecomputedIs
  <2>4. lastCycle' = lastCycle
    BY <1>2, <2>3
  <2>5. /\ <<>> \in Seq(Bridge!Usages) /\ Len(<<>>) = 0 /\ Append(<<>>, totals) = <<totals>>
        /\ <<totals>> \in Seq(Bridge!Usages)
    BY <2>2
  <2>6. PICK f : Totals(f, 0, <<>>) /\ Bridge!Total(<<>>) = f[0]
    BY <2>5, TotalIs
  <2>7. Bridge!Total(<<>>) = Bridge!NoUsage
    BY <2>6 DEF Totals
  <2>8. Bridge!Total(<<totals>>) = Bridge!Plus(Bridge!NoUsage, totals)
    BY <2>2, <2>5, <2>7, TotalAppend
  <2>9. Bridge!Plus(cumulative', cycleUsage') = Bridge!Total(bill')
    BY <1>2, <2>1, <2>2, <2>3, <2>8, PlusTyped
  <2> QED
    BY <1>1, <1>2, <2>1, <2>2, <2>3, <2>4, <2>5, <2>9
       DEF BillTyped, Bridge!BillFits, Bridge!GaugeIsContext, Bridge!BilledOnce
<1>4. CASE UNCHANGED <<cumulative, cycleUsage, lastCycle, usage, bill>>
  BY <1>1, <1>4 DEF BillTyped, Bridge!BillFits, Bridge!GaugeIsContext, Bridge!BilledOnce
<1> QED
  BY <1>3, <1>4 DEF Bridge!Result

\* What neither reports figures nor changes the cycle leaves the bill alone.
LEMMA BillRests ==
    ASSUME BillTyped, Bridge!BillFits,
           UNCHANGED <<ebInst, cycle, cumulative, cycleUsage, lastCycle, usage, phase, bill,
               context>>
    PROVE  BillTyped' /\ Bridge!BillFits'
BY DEF BillTyped, Bridge!BillFits, Bridge!GaugeIsContext, Bridge!BilledOnce

LEMMA BillSteps ==
    ASSUME Bridge!BridgeAssumption, BillTyped, Bridge!BillFits, [Bridge!EBNext]_bridgeVars
    PROVE  BillTyped' /\ Bridge!BillFits'
<1>1. ASSUME NEW type \in Bridge!Types \cup {"ownTool"},
             Bridge!BlockStart(type) PROVE BillTyped' /\ Bridge!BillFits'
  BY <1>1, BillRests DEF Bridge!BlockStart
<1>2. ASSUME NEW i \in DOMAIN open,
             Bridge!Delta(i) \/ Bridge!BlockStop(i) PROVE BillTyped' /\ Bridge!BillFits'
  BY <1>2, BillRests DEF Bridge!Delta, Bridge!BlockStop
<1>3. ASSUME NEW tool \in ebInst.tools,
             Bridge!AssistantEnvelope(tool) PROVE BillTyped' /\ Bridge!BillFits'
  BY <1>3, BillRests DEF Bridge!AssistantEnvelope
<1>4. ASSUME NEW tools \in SUBSET ebInst.tools,
             Bridge!UserEnvelope(tools) PROVE BillTyped' /\ Bridge!BillFits'
  BY <1>4, BillRests DEF Bridge!UserEnvelope
<1>5. CASE UNCHANGED bridgeVars
  BY <1>5, BillRests DEF bridgeVars
<1> QED
  BY <1>1, <1>2, <1>3, <1>4, <1>5, StartBills, DeltaBills, CompactBills, ResultBills
     DEF Bridge!EBNext

-----------------------------------------------------------------------------
(* Every part in its place.                                                  *)

Blocks == [type : Bridge!Types, key : Bridge!Keys \cup {None}, at : Nat, parts : Nat]
Items == [type : Bridge!Types \cup {"marker"}, key : Bridge!Keys \cup {None},
    tool : Tools \cup {None},
          parts : Nat, ends : Nat, stray : BOOLEAN]

PartsTyped ==
  /\ ebInst \in BridgeInstances /\ cycle \in Nat
  /\ blocks \in Seq(Blocks) /\ content \in Seq(Items)
  /\ markedTools \subseteq Tools /\ forwardedResultIds \subseteq markedTools
  /\ stopReason \in {"stop", "toolUse"}
  /\ DOMAIN said \subseteq Bridge!Keys /\ said = [k \in DOMAIN said |-> said[k]]
  /\ \A k \in DOMAIN said : said[k] \in Nat

Tagged(tool) == {n \in DOMAIN content : content[n].tool = tool}
SameTags == \A tool \in Tools : Tagged(tool)' = Tagged(tool)

LEMMA PartsStart == ASSUME Bridge!BridgeAssumption, Bridge!EBInit PROVE PartsTyped
  /\ Bridge!PartsFit
<1>1. /\ ebInst \in BridgeInstances /\ blocks = <<>> /\ content = <<>> /\ cycle = 0
      /\ stopReason = "stop"
      /\ markedTools = {} /\ forwardedResultIds = {}
      /\ open = [i \in {} |-> None] /\ said = [k \in {} |-> 0]
  BY DEF Bridge!EBInit
<1>2. DOMAIN said = {} /\ DOMAIN open = {} /\ said = [k \in DOMAIN said |-> said[k]]
      /\ open = [i \in DOMAIN open |-> open[i]]
  BY <1>1
<1>3. PartsTyped
  BY <1>1, <1>2 DEF PartsTyped
<1>4. Bridge!Numbered = {} /\ Bridge!Cardinality({}) = 0 /\ Bridge!IsFiniteSet({})
  BY <1>2, FS_EmptySet, BridgeFinite DEF Bridge!Numbered
<1>5. {<<cycle, i>> : i \in 0..Bridge!Cardinality(Bridge!Numbered) - 1} = {}
  BY <1>4
<1>6. Bridge!SaidFits
  BY <1>2, <1>4, <1>5 DEF Bridge!SaidFits
<1>7. DOMAIN blocks = {} /\ DOMAIN content = {}
  BY <1>1
<1> QED
  BY <1>3, <1>6, <1>7 DEF Bridge!PartsFit, Bridge!EveryPartInPlace

\* The block of an index is one, and of the kind that was opened.
LEMMA TrackedIs ==
    ASSUME Bridge!BridgeAssumption, PartsTyped, Bridge!PartsFit, NEW i \in DOMAIN open
    PROVE  /\ i \in Nat /\ <<cycle, i>> \in DOMAIN said /\ <<cycle, i>> \in Bridge!Keys
           /\ <<cycle, i>> # None
           /\ Bridge!trackedFor(i) # {} =>
                /\ Bridge!Tracked(i) \in DOMAIN blocks
                /\ blocks[Bridge!Tracked(i)].key = <<cycle, i>>
                /\ open[i] = blocks[Bridge!Tracked(i)].type
                /\ \A c \in DOMAIN blocks : blocks[c].key = <<cycle, i>> => c = Bridge!Tracked(i)
<1>1. <<cycle, i>> \in DOMAIN said /\ <<cycle, i>> \in Bridge!Keys
  BY DEF Bridge!PartsFit, Bridge!SaidFits, PartsTyped
<1>2. i \in Nat /\ <<cycle, i>> # None
  BY <1>1 DEF Bridge!Keys, Bridge!BridgeAssumption
<1>3. ASSUME Bridge!trackedFor(i) # {}
      PROVE  /\ Bridge!Tracked(i) \in DOMAIN blocks
             /\ blocks[Bridge!Tracked(i)].key = <<cycle, i>>
             /\ open[i] = blocks[Bridge!Tracked(i)].type
             /\ \A c \in DOMAIN blocks : blocks[c].key = <<cycle, i>> => c = Bridge!Tracked(i)
  <2>1. PICK b \in DOMAIN blocks : blocks[b].key = <<cycle, i>>
    BY <1>3 DEF Bridge!trackedFor
  <2>2. Bridge!BlockFits(b) /\ b \in Nat
    BY DEF Bridge!PartsFit, PartsTyped
  <2>3. \A c \in DOMAIN blocks : blocks[c].key = <<cycle, i>> => c = b
    BY <2>1, <2>2, <1>2 DEF Bridge!BlockFits
  <2>4. Bridge!trackedFor(i) = {b}
    BY <2>1, <2>3 DEF Bridge!trackedFor
  <2>5. Bridge!Tracked(i) = b
    BY <2>2, <2>4 DEF Bridge!Tracked
  <2>6. open[i] = blocks[b].type
    BY <2>1, <2>2, <1>2 DEF Bridge!BlockFits
  <2> QED
    BY <2>1, <2>3, <2>5, <2>6
<1> QED
  BY <1>1, <1>2, <1>3

LEMMA MessageStartFits ==
    ASSUME Bridge!BridgeAssumption, PartsTyped, Bridge!PartsFit, Bridge!MessageStart
    PROVE  PartsTyped' /\ Bridge!PartsFit'
<1>1. /\ ebInst' = ebInst /\ blocks' = blocks /\ content' = content /\ stopReason' = stopReason
      /\ markedTools' = markedTools /\ forwardedResultIds' = forwardedResultIds /\ said' = said
      /\ cycle' = cycle + 1 /\ open' = [i \in {} |-> None] /\ cycle \in Nat
  BY DEF Bridge!MessageStart, PartsTyped
<1>2. PartsTyped'
  BY <1>1 DEF PartsTyped
<1>3. DOMAIN open' = {} /\ open' = [i \in DOMAIN open' |-> open'[i]]
  BY <1>1
<1>4. \A k \in DOMAIN said : k[1] <= cycle /\ k \in Bridge!Keys
  BY DEF Bridge!PartsFit, Bridge!SaidFits, PartsTyped
<1>5. \A k \in DOMAIN said' : k[1] <= cycle' /\ k[1] # cycle'
  <2>1. \A k \in Bridge!Keys : k[1] \in Nat
    BY DEF Bridge!Keys
  <2> QED
    BY <1>1, <1>4, <2>1
<1>6. Bridge!Numbered' = {} /\ Bridge!Cardinality({}) = 0 /\ Bridge!IsFiniteSet({})
  BY <1>5, FS_EmptySet, BridgeFinite DEF Bridge!Numbered
<1>7. {<<cycle', i>> : i \in 0..Bridge!Cardinality(Bridge!Numbered') - 1} = {}
  BY <1>6
<1>8. Bridge!SaidFits'
  BY <1>3, <1>5, <1>6, <1>7 DEF Bridge!SaidFits
<1>9. Bridge!EveryPartInPlace'
  BY <1>1 DEF Bridge!PartsFit, Bridge!EveryPartInPlace
<1>10. ASSUME NEW b \in DOMAIN blocks' PROVE Bridge!BlockFits(b)'
  BY <1>1, <1>5, <1>10 DEF Bridge!PartsFit, Bridge!BlockFits
<1>11. ASSUME NEW n \in DOMAIN content' PROVE Bridge!ItemFits(n)'
  BY <1>1, <1>5, <1>11 DEF Bridge!PartsFit, Bridge!ItemFits
<1> QED
  BY <1>2, <1>8, <1>9, <1>10, <1>11 DEF Bridge!PartsFit

\* The number of a new block is one that no block of this cycle has.
LEMMA NextNumber ==
    ASSUME PartsTyped, Bridge!SaidFits, NEW i, i = Bridge!Cardinality(Bridge!Numbered)
    PROVE  /\ i \in Nat /\ <<cycle, i>> \in Bridge!Keys /\ <<cycle, i>> \notin DOMAIN said
           /\ i \notin DOMAIN open
           /\ Bridge!Numbered \cup {<<cycle, i>>} = {<<cycle, j>> : j \in 0..(i + 1) - 1}
           /\ Bridge!IsFiniteSet(Bridge!Numbered \cup {<<cycle, i>>})
           /\ Bridge!Cardinality(Bridge!Numbered \cup {<<cycle, i>>}) = i + 1
<1>1. Bridge!IsFiniteSet(Bridge!Numbered) /\ Bridge!Numbered = {<<cycle, j>> : j \in 0..i - 1}
  BY DEF Bridge!SaidFits
<1>2. i \in Nat /\ cycle \in Nat
  BY <1>1, FS_CardinalityType, BridgeFinite DEF PartsTyped
<1>3. <<cycle, i>> \in Bridge!Keys
  BY <1>2 DEF Bridge!Keys
<1>4. <<cycle, i>> \notin Bridge!Numbered
  <2> SUFFICES ASSUME <<cycle, i>> \in Bridge!Numbered PROVE FALSE
    OBVIOUS
  <2>1. PICK j \in 0..i - 1 : <<cycle, i>> = <<cycle, j>>
    BY <1>1
  <2>2. i = j
    BY <2>1
  <2> QED
    BY <1>2, <2>2
<1>5. <<cycle, i>> \notin DOMAIN said
  BY <1>4 DEF Bridge!Numbered
<1>6. i \notin DOMAIN open
  BY <1>5 DEF Bridge!SaidFits
<1>7. Bridge!Numbered \cup {<<cycle, i>>} = {<<cycle, j>> : j \in 0..(i + 1) - 1}
  <2>1. 0..(i + 1) - 1 = (0..i - 1) \cup {i}
    BY <1>2
  <2> QED
    BY <1>1, <2>1
<1>8. /\ Bridge!IsFiniteSet(Bridge!Numbered \cup {<<cycle, i>>})
      /\ Bridge!Cardinality(Bridge!Numbered \cup {<<cycle, i>>}) = i + 1
  <2>1. Bridge!IsFiniteSet(Bridge!Numbered) /\ Bridge!Cardinality(Bridge!Numbered) = i
    BY <1>1
  <2> QED
    BY <1>4, <2>1, FS_AddElement, BridgeFinite
<1> QED
  BY <1>2, <1>3, <1>5, <1>6, <1>7, <1>8

LEMMA Appending ==
    ASSUME NEW S, NEW s \in Seq(S), NEW x \in S, NEW t, t = Append(s, x)
    PROVE  /\ t \in Seq(S) /\ DOMAIN s \subseteq DOMAIN t /\ \A n \in DOMAIN s : t[n] = s[n]
           /\ Len(s) + 1 \in DOMAIN t /\ t[Len(s) + 1] = x
           /\ \A n \in DOMAIN t \ DOMAIN s : t[n] = x /\ n = Len(s) + 1
<1>1. /\ t \in Seq(S) /\ Len(t) = Len(s) + 1 /\ t[Len(s) + 1] = x /\ Len(s) \in Nat
      /\ \A n \in 1..Len(s) : t[n] = s[n]
  OBVIOUS
<1>2. DOMAIN t = 1..Len(s) + 1 /\ DOMAIN s = 1..Len(s)
  BY <1>1
<1> QED
  BY <1>1, <1>2

LEMMA BlockStartFits ==
    ASSUME Bridge!BridgeAssumption, PartsTyped, Bridge!PartsFit,
           NEW type \in Bridge!Types \cup {"ownTool"},
           Bridge!BlockStart(type)
    PROVE  PartsTyped' /\ Bridge!PartsFit' /\ SameTags
<1> DEFINE i == Bridge!Cardinality(Bridge!Numbered)
           key == <<cycle, i>>
           at == IF type = "thinking" THEN 0 ELSE Len(content) + 1
           tracked == [type |-> type, key |-> key, at |-> at, parts |-> 0]
           item == Bridge!Item(type, key, None, 0, 0)
<1>1. /\ ebInst' = ebInst /\ cycle' = cycle /\ stopReason' = stopReason
      /\ markedTools' = markedTools /\ forwardedResultIds' = forwardedResultIds
      /\ open' = [j \in DOMAIN open \cup {i} |-> IF j = i THEN type ELSE open[j]]
      /\ said' = [k \in DOMAIN said \cup {key} |-> IF k = key THEN 0 ELSE said[k]]
  BY DEF Bridge!BlockStart
<1>2. \/ type = "ownTool" /\ blocks' = blocks /\ content' = content
      \/ type \in Bridge!Types /\ type # "ownTool" /\ blocks' = Append(blocks, tracked)
         /\ content' = IF type = "thinking" THEN content ELSE Append(content, item)
  <2>1. CASE type = "ownTool"
    BY <2>1 DEF Bridge!BlockStart
  <2>2. CASE type = "thinking"
    BY <2>2 DEF Bridge!BlockStart, Bridge!Types
  <2>3. CASE type \in {"text", "toolCall"}
    <3> DEFINE early == [type |-> type, key |-> key, at |-> 0, parts |-> 0]
    <3>1. [early EXCEPT !.at = Len(content) + 1] = tracked
      BY <2>3
    <3>2. /\ blocks' = Append(blocks, [early EXCEPT !.at = Len(content) + 1])
          /\ content' = Append(content, item)
      BY <2>3 DEF Bridge!BlockStart
    <3> QED
      BY <2>3, <3>1, <3>2 DEF Bridge!Types
  <2> QED
    BY <2>1, <2>2, <2>3 DEF Bridge!Types
<1>3. /\ i \in Nat /\ key \in Bridge!Keys /\ key \notin DOMAIN said /\ i \notin DOMAIN open
      /\ Bridge!Numbered \cup {key} = {<<cycle, j>> : j \in 0..(i + 1) - 1}
      /\ Bridge!IsFiniteSet(Bridge!Numbered \cup {key})
      /\ Bridge!Cardinality(Bridge!Numbered \cup {key}) = i + 1
  BY NextNumber DEF Bridge!PartsFit
<1>4. key[1] = cycle /\ key[2] = i /\ key # None /\ cycle \in Nat
  BY <1>3 DEF Bridge!BridgeAssumption, PartsTyped
<1> HIDE DEF i, key
<1>5. /\ DOMAIN said' = DOMAIN said \cup {key} /\ said'[key] = 0
      /\ \A k \in DOMAIN said : said'[k] = said[k]
      /\ DOMAIN open' = DOMAIN open \cup {i} /\ open'[i] = type
      /\ \A j \in DOMAIN open : open'[j] = open[j]
      /\ said' = [k \in DOMAIN said' |-> said'[k]] /\ open' = [j \in DOMAIN open' |-> open'[j]]
  BY <1>1, <1>3
<1>6. Bridge!SaidFits'
  <2>1. Bridge!Numbered' = Bridge!Numbered \cup {key}
    BY <1>1, <1>4, <1>5 DEF Bridge!Numbered
  <2>2. \A k \in DOMAIN said' : k[1] <= cycle'
    BY <1>1, <1>4, <1>5 DEF Bridge!PartsFit, Bridge!SaidFits
  <2>3. \A j \in DOMAIN open' : <<cycle', j>> \in DOMAIN said'
    BY <1>1, <1>5 DEF Bridge!PartsFit, Bridge!SaidFits, key
  <2> QED
    BY <1>1, <1>3, <1>5, <2>1, <2>2, <2>3 DEF Bridge!SaidFits
<1>7. /\ blocks \in Seq(Blocks) /\ content \in Seq(Items) /\ Len(content) \in Nat
      /\ Len(blocks) \in Nat /\ DOMAIN content = 1..Len(content) /\ DOMAIN blocks = 1..Len(blocks)
  BY DEF PartsTyped
<1>8. at \in Nat /\ (type \in Bridge!Types => tracked \in Blocks)
  BY <1>3, <1>7 DEF Blocks
<1>9. type \in Bridge!Types => item \in Items
  BY <1>3 DEF Bridge!Item, Items
<1>10. /\ tracked.key = key /\ tracked.at = at /\ tracked.parts = 0 /\ tracked.type = type
       /\ item.key = key /\ item.parts = 0 /\ item.ends = 0 /\ item.stray = FALSE
       /\ item.tool = None
  BY DEF Bridge!Item
<1> HIDE DEF tracked, item
<1>11. \A b \in DOMAIN blocks : blocks[b].key # key
  BY <1>3, <1>4 DEF Bridge!PartsFit, Bridge!BlockFits
<1>12. \A n \in DOMAIN content : content[n].key # key
  BY <1>3, <1>4 DEF Bridge!PartsFit, Bridge!ItemFits
<1>13. /\ DOMAIN blocks \subseteq DOMAIN blocks' /\ blocks' \in Seq(Blocks)
       /\ \A b \in DOMAIN blocks : blocks'[b] = blocks[b]
       /\ \A b \in DOMAIN blocks' \ DOMAIN blocks :
            blocks'[b] = tracked /\ b = Len(blocks) + 1 /\ type \in Bridge!Types
  <2>1. CASE blocks' = Append(blocks, tracked) /\ type \in Bridge!Types
    BY <2>1, <1>7, <1>8, Appending
  <2> QED
    BY <2>1, <1>2, <1>7
<1>14. /\ DOMAIN content \subseteq DOMAIN content' /\ content' \in Seq(Items)
       /\ \A n \in DOMAIN content : content'[n] = content[n]
       /\ \A n \in DOMAIN content' \ DOMAIN content : content'[n] = item /\ n = Len(content) + 1
  <2>1. CASE content' = Append(content, item) /\ type \in Bridge!Types
    BY <2>1, <1>7, <1>9, Appending
  <2> QED
    BY <2>1, <1>2, <1>7
<1>15. \A b \in DOMAIN blocks' \ DOMAIN blocks :
         \/ at = 0 /\ content' = content
         \/ at # 0 /\ at \in DOMAIN content' /\ content'[at] = item
  BY <1>2, <1>7
<1> HIDE DEF at
<1>16. PartsTyped'
  BY <1>1, <1>3, <1>5, <1>13, <1>14 DEF PartsTyped
<1>17. Bridge!EveryPartInPlace'
  <2>1. ASSUME NEW n \in DOMAIN content', content'[n].key # None
        PROVE  /\ content'[n].parts = said'[content'[n].key]
               /\ content'[n].ends <= 1 /\ ~content'[n].stray
               /\ \A m \in DOMAIN content' : content'[m].key = content'[n].key => m = n
    <3>1. CASE n \in DOMAIN content
      <4>1. /\ content[n].key \in DOMAIN said /\ content[n].parts = said[content[n].key]
            /\ content[n].ends <= 1 /\ ~content[n].stray
            /\ \A m \in DOMAIN content : content[m].key = content[n].key => m = n
        BY <2>1, <3>1, <1>14 DEF Bridge!PartsFit, Bridge!EveryPartInPlace, Bridge!ItemFits
      <4> QED
        BY <3>1, <4>1, <1>5, <1>10, <1>12, <1>14
    <3>2. CASE n \notin DOMAIN content
      BY <2>1, <3>2, <1>5, <1>10, <1>12, <1>14
    <3> QED
      BY <3>1, <3>2
  <2> QED
    BY <2>1 DEF Bridge!EveryPartInPlace
<1>18. ASSUME NEW b \in DOMAIN blocks', blocks'[b].key # None PROVE Bridge!BlockFits(b)'
  <2>1. CASE b \in DOMAIN blocks
    <3>1. Bridge!BlockFits(b) /\ blocks'[b] = blocks[b] /\ blocks[b].key # None
      BY <1>13, <1>18, <2>1 DEF Bridge!PartsFit
    <3>2. /\ blocks[b].key \in DOMAIN said /\ blocks[b].parts = said[blocks[b].key]
          /\ blocks[b].key[1] = cycle =>
               blocks[b].key[2] \in DOMAIN open /\ open[blocks[b].key[2]] = blocks[b].type
          /\ blocks[b].key # key
      BY <3>1, <1>11, <2>1 DEF Bridge!BlockFits
    <3>3. \A c \in DOMAIN blocks' : blocks'[c].key = blocks[b].key => c = b
      BY <3>1, <3>2, <1>10, <1>13 DEF Bridge!BlockFits
    <3>4. IF blocks[b].at = 0
          THEN \A n \in DOMAIN content' : content'[n].key # blocks[b].key
          ELSE /\ blocks[b].at \in DOMAIN content'
               /\ content'[blocks[b].at].key = blocks[b].key /\ content'[blocks[b].at].ends = 0
      BY <3>1, <3>2, <1>10, <1>14 DEF Bridge!BlockFits
    <3>5. said'[blocks[b].key] = said[blocks[b].key] /\ blocks[b].key \in DOMAIN said'
      BY <3>2, <1>5
    <3>6. blocks[b].key[1] = cycle =>
            blocks[b].key[2] \in DOMAIN open' /\ open'[blocks[b].key[2]] = blocks[b].type
      BY <3>2, <1>5
    <3> QED
      BY <3>1, <3>2, <3>3, <3>4, <3>5, <3>6, <1>1 DEF Bridge!BlockFits
  <2>2. CASE b \notin DOMAIN blocks
    <3>1. blocks'[b] = tracked
      BY <1>13, <2>2
    <3>2. \A c \in DOMAIN blocks' : blocks'[c].key = key => c = b
      BY <1>11, <1>13, <2>2
    <3>3. IF at = 0
          THEN \A n \in DOMAIN content' : content'[n].key # key
          ELSE at \in DOMAIN content' /\ content'[at].key = key /\ content'[at].ends = 0
      BY <1>10, <1>12, <1>15, <2>2
    <3> QED
      BY <3>1, <3>2, <3>3, <1>1, <1>4, <1>5, <1>10 DEF Bridge!BlockFits
  <2> QED
    BY <2>1, <2>2
<1>19. ASSUME NEW n \in DOMAIN content', content'[n].key # None PROVE Bridge!ItemFits(n)'
  <2>1. CASE n \in DOMAIN content
    <3>1. Bridge!ItemFits(n) /\ content'[n] = content[n] /\ content[n].key # None
      BY <1>14, <1>19, <2>1 DEF Bridge!PartsFit
    <3>2. content[n].key \in DOMAIN said /\ content[n].key \in Bridge!Keys
      BY <3>1 DEF Bridge!ItemFits, PartsTyped
    <3>3. ASSUME content[n].key[1] = cycle, content[n].key[2] \in DOMAIN open'
          PROVE  Bridge!trackedFor(content[n].key[2])' # {}
      <4>1. content[n].key = <<cycle, content[n].key[2]>>
        BY <3>2, <3>3 DEF Bridge!Keys
      <4>2. content[n].key[2] \in DOMAIN open
        BY <4>1, <3>2, <3>3, <1>3, <1>5 DEF key
      <4>3. PICK b \in DOMAIN blocks : blocks[b].key = <<cycle, content[n].key[2]>>
        BY <3>1, <3>3, <4>2 DEF Bridge!ItemFits, Bridge!trackedFor
      <4> QED
        BY <4>3, <3>1, <1>1, <1>13 DEF Bridge!trackedFor
    <3> QED
      BY <3>1, <3>2, <3>3, <1>1, <1>5 DEF Bridge!ItemFits
  <2>2. CASE n \notin DOMAIN content
    <3>1. content'[n].key = key /\ key[1] = cycle /\ key[2] = i
      BY <1>4, <1>10, <1>14, <2>2
    <3>2. type \in Bridge!Types /\ blocks' = Append(blocks, tracked)
      BY <1>2, <2>2
    <3>3. PICK b \in DOMAIN blocks' : blocks'[b] = tracked
      BY <3>2, <1>7, <1>8, Appending
    <3>4. blocks'[b].key = <<cycle', i>>
      BY <3>3, <1>1, <1>10 DEF key
    <3> QED
      BY <3>1, <3>4, <1>5 DEF Bridge!ItemFits, Bridge!trackedFor
  <2> QED
    BY <2>1, <2>2
<1>20. \A b \in DOMAIN blocks' : Bridge!BlockFits(b)'
  BY <1>18 DEF Bridge!BlockFits
<1>21. \A n \in DOMAIN content' : Bridge!ItemFits(n)'
  BY <1>19 DEF Bridge!ItemFits
<1>22. SameTags
  <2> SUFFICES ASSUME NEW tool \in Tools PROVE Tagged(tool)' = Tagged(tool)
    BY DEF SameTags
  <2> QED
    BY <1>10, <1>14 DEF Tagged, Bridge!BridgeAssumption
<1> QED
  BY <1>6, <1>16, <1>17, <1>20, <1>21, <1>22 DEF Bridge!PartsFit

LEMMA DeltaFits ==
    ASSUME Bridge!BridgeAssumption, PartsTyped, Bridge!PartsFit, NEW i \in DOMAIN open,
           Bridge!Delta(i)
    PROVE  PartsTyped' /\ Bridge!PartsFit' /\ SameTags
<1> DEFINE key == <<cycle, i>>
<1>1. /\ ebInst' = ebInst /\ cycle' = cycle /\ stopReason' = stopReason /\ open' = open
      /\ markedTools' = markedTools /\ forwardedResultIds' = forwardedResultIds
      /\ said' = [said EXCEPT ![key] = @ + 1]
  BY DEF Bridge!Delta
<1>2. key \in DOMAIN said /\ key \in Bridge!Keys /\ key # None /\ key[1] = cycle /\ key[2] = i
  BY TrackedIs
<1>3. said[key] \in Nat
  BY <1>2 DEF PartsTyped
<1>4. /\ DOMAIN said' = DOMAIN said /\ said'[key] = said[key] + 1
      /\ \A k \in DOMAIN said \ {key} : said'[k] = said[k]
      /\ said' = [k \in DOMAIN said' |-> said'[k]]
  BY <1>1, <1>2 DEF PartsTyped
<1>5. Bridge!SaidFits'
  <2>1. Bridge!Numbered' = Bridge!Numbered
    BY <1>1, <1>4 DEF Bridge!Numbered
  <2> QED
    BY <1>1, <1>4, <2>1 DEF Bridge!PartsFit, Bridge!SaidFits
<1>6. /\ blocks \in Seq(Blocks) /\ content \in Seq(Items) /\ Len(content) \in Nat
      /\ Len(blocks) \in Nat /\ DOMAIN content = 1..Len(content) /\ DOMAIN blocks = 1..Len(blocks)
  BY DEF PartsTyped
<1> DEFINE typed == blocks' \in Seq(Blocks) /\ content' \in Seq(Items)
<1>7. typed => PartsTyped'
  BY <1>1, <1>3, <1>4 DEF PartsTyped
<1>8. CASE Bridge!trackedFor(i) = {}
  <2>1. blocks' = blocks /\ content' = content
    BY <1>8 DEF Bridge!Delta
  <2>2. \A b \in DOMAIN blocks : blocks[b].key # key
    BY <1>8 DEF Bridge!trackedFor
  <2>3. \A n \in DOMAIN content : content[n].key # key
    BY <1>2, <1>8 DEF Bridge!PartsFit, Bridge!ItemFits
  <2>4. PartsTyped'
    BY <1>6, <1>7, <2>1
  <2>5. Bridge!EveryPartInPlace'
    BY <1>4, <2>1, <2>3 DEF Bridge!PartsFit, Bridge!EveryPartInPlace, Bridge!ItemFits
  <2>6. ASSUME NEW b \in DOMAIN blocks' PROVE Bridge!BlockFits(b)'
    BY <1>1, <1>4, <2>1, <2>2 DEF Bridge!PartsFit, Bridge!BlockFits
  <2>7. ASSUME NEW n \in DOMAIN content' PROVE Bridge!ItemFits(n)'
    BY <1>1, <1>4, <2>1 DEF Bridge!PartsFit, Bridge!ItemFits, Bridge!trackedFor
  <2>8. SameTags
    BY <2>1 DEF SameTags, Tagged
  <2> QED
    BY <1>5, <2>4, <2>5, <2>6, <2>7, <2>8 DEF Bridge!PartsFit
<1>9. CASE Bridge!trackedFor(i) # {}
  <2>1. PICK b \in DOMAIN blocks : b = Bridge!Tracked(i)
    BY <1>9, TrackedIs
  <2>2. /\ blocks[b].key = key /\ open[i] = blocks[b].type
        /\ \A c \in DOMAIN blocks : blocks[c].key = key => c = b
    BY <1>9, <2>1, TrackedIs
  <2>3. /\ blocks[b].parts = said[key] /\ blocks[b] \in Blocks
        /\ IF blocks[b].at = 0
           THEN \A n \in DOMAIN content : content[n].key # key
           ELSE /\ blocks[b].at \in DOMAIN content
                /\ content[blocks[b].at].key = key /\ content[blocks[b].at].ends = 0
    <3>1. blocks[b] \in Blocks
      BY <1>6
    <3>2. Bridge!BlockFits(b)
      BY DEF Bridge!PartsFit
    <3> QED
      BY <1>2, <2>2, <3>1, <3>2 DEF Bridge!BlockFits
  <2> DEFINE item == Bridge!Item("thinking", key, None, 0, 0)
  <2>4. PICK at \in Nat : at = IF blocks[b].at = 0 THEN Len(content) + 1 ELSE blocks[b].at
    BY <1>6, <2>3 DEF Blocks
  <2>5. PICK before : before = IF blocks[b].at = 0 THEN Append(content, item) ELSE content
    OBVIOUS
  <2>6. /\ blocks' = [blocks EXCEPT ![b].at = at, ![b].parts = @ + 1]
        /\ content' = [before EXCEPT ![at].parts = blocks[b].parts + 1,
                                     ![at].stray = @ \/ before[at].ends > 0]
    BY <1>9, <2>1, <2>2, <2>4, <2>5 DEF Bridge!Delta
  <2>7. item \in Items /\ item.key = key /\ item.ends = 0 /\ item.stray = FALSE
          /\ item.tool = None
    BY <1>2 DEF Bridge!Item, Items, Bridge!Types
  <2> HIDE DEF item
  <2>8. /\ before \in Seq(Items) /\ at \in DOMAIN before
        /\ before[at].key = key /\ before[at].ends = 0 /\ before[at].stray = FALSE
        /\ \A n \in DOMAIN content : n \in DOMAIN before /\ before[n] = content[n]
        /\ \A n \in DOMAIN before : n # at => n \in DOMAIN content /\ content[n].key # key
        /\ at # 0 /\ \A n \in DOMAIN before : n \in DOMAIN content \/ before[n].tool = None
    <3>1. CASE blocks[b].at = 0
      <4>1. at = Len(content) + 1 /\ before = Append(content, item)
        BY <3>1, <2>4, <2>5
      <4>2. /\ before \in Seq(Items) /\ DOMAIN content \subseteq DOMAIN before
            /\ \A n \in DOMAIN content : before[n] = content[n]
            /\ at \in DOMAIN before /\ before[at] = item
            /\ \A n \in DOMAIN before \ DOMAIN content : before[n] = item /\ n = at
        BY <1>6, <2>7, <4>1, Appending
      <4> QED
        BY <3>1, <2>3, <2>7, <4>1, <4>2, <1>6
    <3>2. CASE blocks[b].at # 0
      <4>1. at = blocks[b].at /\ before = content
        BY <3>2, <2>4, <2>5
      <4>2. at \in DOMAIN content /\ content[at].key = key /\ content[at].ends = 0
        BY <3>2, <2>3, <4>1
      <4>3. ~content[at].stray /\ \A m \in DOMAIN content : content[m].key = key => m = at
        BY <1>2, <4>2 DEF Bridge!PartsFit, Bridge!EveryPartInPlace
      <4>4. content[at].stray = FALSE
        BY <4>2, <4>3, <1>6 DEF Items
      <4> QED
        BY <3>2, <4>1, <4>2, <4>3, <4>4, <1>6
    <3> QED
      BY <3>1, <3>2
  <2>9. PICK block \in Blocks : /\ block = [blocks[b] EXCEPT !.at = at, !.parts = @ + 1]
                                /\ block.key = key /\ block.at = at /\ block.type = blocks[b].type
                                /\ block.parts = said[key] + 1
    <3>1. PICK old \in Blocks : old = blocks[b]
      BY <2>3
    <3>2. old.type \in Bridge!Types /\ old.parts = said[key] /\ old.key = key
      BY <3>1, <2>2, <2>3 DEF Blocks
    <3>3. PICK more \in Nat : more = old.parts + 1
      BY <3>2, <1>3
    <3>4. PICK moved : moved = [old EXCEPT !.at = at]
      OBVIOUS
    <3>5. /\ moved \in Blocks /\ moved.at = at /\ moved.key = old.key
          /\ moved.type = old.type /\ moved.parts = old.parts
      BY <3>4 DEF Blocks
    <3>6. PICK block : block = [moved EXCEPT !.parts = more]
      OBVIOUS
    <3>7. /\ block \in Blocks /\ block.at = moved.at /\ block.key = moved.key
          /\ block.type = moved.type /\ block.parts = more
      BY <3>5, <3>6 DEF Blocks
    <3>8. block = [blocks[b] EXCEPT !.at = at, !.parts = @ + 1]
      BY <3>1, <3>3, <3>4, <3>6
    <3> QED
      BY <3>1, <3>2, <3>3, <3>5, <3>7, <3>8
  <2>10. blocks' = [blocks EXCEPT ![b] = block]
    BY <2>6, <2>9, <1>6
  <2>11. /\ blocks' \in Seq(Blocks) /\ DOMAIN blocks' = DOMAIN blocks /\ blocks'[b] = block
         /\ \A c \in DOMAIN blocks : c # b => blocks'[c] = blocks[c]
    BY <2>10, <2>9, <1>6
  <2>12. PICK place \in Items : /\ place = [before[at] EXCEPT !.parts = blocks[b].parts + 1,
                                                            !.stray = @ \/ before[at].ends > 0]
                               /\ place.key = key /\ place.parts = said[key] + 1
                               /\ place.ends = 0 /\ place.stray = FALSE
                               /\ place.tool = before[at].tool
    <3>1. PICK old \in Items : old = before[at]
      BY <2>8
    <3>2. old.key = key /\ old.ends = 0 /\ old.stray = FALSE /\ blocks[b].parts = said[key]
      BY <3>1, <2>3, <2>8
    <3>3. PICK more \in Nat : more = blocks[b].parts + 1
      BY <3>2, <1>3
    <3>4. PICK full : full = [old EXCEPT !.parts = more]
      OBVIOUS
    <3>5. /\ full \in Items /\ full.parts = more /\ full.key = old.key /\ full.ends = old.ends
          /\ full.stray = old.stray /\ full.tool = old.tool
      BY <3>4 DEF Items
    <3>6. (old.stray \/ old.ends > 0) = FALSE
      BY <3>2
    <3>7. [full EXCEPT !.stray = FALSE] = full
      BY <3>2, <3>5 DEF Items
    <3>8. full = [old EXCEPT !.parts = more, !.stray = FALSE]
      BY <3>4, <3>7
    <3>9. full = [old EXCEPT !.parts = more, !.stray = old.stray \/ old.ends > 0]
      BY <3>6, <3>8, Zenon
    <3>10. full = [before[at] EXCEPT !.parts = blocks[b].parts + 1,
                                     !.stray = @ \/ before[at].ends > 0]
      BY <3>1, <3>3, <3>9, Zenon
    <3> QED
      BY <3>1, <3>2, <3>3, <3>5, <3>10
  <2>13. content' = [before EXCEPT ![at] = place]
    BY <2>6, <2>8, <2>12
  <2>14. /\ content' \in Seq(Items) /\ DOMAIN content' = DOMAIN before /\ content'[at] = place
         /\ \A n \in DOMAIN before : n # at => content'[n] = before[n]
    BY <2>13, <2>12, <2>8
  <2>15. PartsTyped'
    BY <1>7, <2>11, <2>14
  <2>16. ASSUME NEW n \in DOMAIN content', n # at
         PROVE  n \in DOMAIN content /\ content'[n] = content[n] /\ content[n].key # key
    BY <2>8, <2>14, <2>16
  <2>17. Bridge!EveryPartInPlace'
    <3>1. ASSUME NEW n \in DOMAIN content', content'[n].key # None
          PROVE  /\ content'[n].parts = said'[content'[n].key]
                 /\ content'[n].ends <= 1 /\ ~content'[n].stray
                 /\ \A m \in DOMAIN content' : content'[m].key = content'[n].key => m = n
      <4>1. CASE n = at
        <5>1. content'[n] = place
          BY <2>14, <4>1
        <5>2. place.parts = said'[place.key] /\ place.ends <= 1 /\ ~place.stray
          BY <1>4, <2>12
        <5>3. \A m \in DOMAIN content' : content'[m].key = key => m = n
          BY <2>16, <4>1
        <5> QED
          BY <5>1, <5>2, <5>3, <2>12
      <4>2. CASE n # at
        <5>1. n \in DOMAIN content /\ content'[n] = content[n] /\ content[n].key # key
          BY <2>16, <4>2
        <5>2. /\ content[n].parts = said[content[n].key] /\ content[n].key \in DOMAIN said
              /\ content[n].ends <= 1 /\ ~content[n].stray
              /\ \A m \in DOMAIN content : content[m].key = content[n].key => m = n
          BY <3>1, <5>1 DEF Bridge!PartsFit, Bridge!EveryPartInPlace, Bridge!ItemFits
        <5> QED
          BY <1>4, <2>12, <2>14, <2>16, <5>1, <5>2
      <4> QED
        BY <4>1, <4>2
    <3> QED
      BY <3>1 DEF Bridge!EveryPartInPlace
  <2>18. ASSUME NEW c \in DOMAIN blocks', blocks'[c].key # None PROVE Bridge!BlockFits(c)'
    <3>1. CASE c = b
      <4>1. blocks'[c] = block
        BY <2>11, <3>1
      <4>2. \A d \in DOMAIN blocks' : blocks'[d].key = key => d = c
        BY <2>2, <2>11, <3>1
      <4>3. at # 0 /\ at \in DOMAIN content' /\ content'[at].key = key /\ content'[at].ends = 0
        BY <2>8, <2>12, <2>14
      <4> QED
        BY <4>1, <4>2, <4>3, <1>1, <1>2, <1>4, <2>2, <2>9 DEF Bridge!BlockFits
    <3>2. CASE c # b
      <4>1. c \in DOMAIN blocks /\ blocks'[c] = blocks[c] /\ blocks[c].key # key
        BY <2>2, <2>11, <3>2
      <4>2. /\ blocks[c].key \in DOMAIN said /\ blocks[c].parts = said[blocks[c].key]
            /\ \A d \in DOMAIN blocks : blocks[d].key = blocks[c].key => d = c
            /\ blocks[c].key[1] = cycle =>
                 blocks[c].key[2] \in DOMAIN open /\ open[blocks[c].key[2]] = blocks[c].type
            /\ IF blocks[c].at = 0
               THEN \A n \in DOMAIN content : content[n].key # blocks[c].key
               ELSE /\ blocks[c].at \in DOMAIN content
                    /\ content[blocks[c].at].key = blocks[c].key /\ content[blocks[c].at].ends = 0
        BY <2>18, <4>1 DEF Bridge!PartsFit, Bridge!BlockFits
      <4>3. IF blocks[c].at = 0
            THEN \A n \in DOMAIN content' : content'[n].key # blocks[c].key
            ELSE /\ blocks[c].at \in DOMAIN content'
                 /\ content'[blocks[c].at].key = blocks[c].key
                 /\ content'[blocks[c].at].ends = 0
        <5>1. CASE blocks[c].at = 0
          BY <5>1, <4>1, <4>2, <2>12, <2>14, <2>16
        <5>2. CASE blocks[c].at # 0
          <6>1. before[blocks[c].at] = content[blocks[c].at] /\ blocks[c].at \in DOMAIN before
            BY <5>2, <4>2, <2>8
          <6>2. blocks[c].at # at
            BY <5>2, <4>1, <4>2, <6>1, <2>8
          <6> QED
            BY <5>2, <4>2, <6>1, <6>2, <2>14
        <5> QED
          BY <5>1, <5>2
      <4>4. \A d \in DOMAIN blocks' : blocks'[d].key = blocks[c].key => d = c
        BY <4>1, <4>2, <2>9, <2>11
      <4> QED
        BY <4>1, <4>2, <4>3, <4>4, <1>1, <1>4 DEF Bridge!BlockFits
    <3> QED
      BY <3>1, <3>2
  <2>19. ASSUME NEW n \in DOMAIN content', content'[n].key # None PROVE Bridge!ItemFits(n)'
    <3>1. \A j : Bridge!trackedFor(j) # {}
            => \E c \in DOMAIN blocks' : blocks'[c].key = <<cycle', j>>
      BY <1>1, <2>2, <2>9, <2>11 DEF Bridge!trackedFor
    <3>2. CASE n = at
      <4>1. content'[n].key = key
        BY <3>2, <2>12, <2>14
      <4> QED
        BY <4>1, <3>1, <1>2, <1>4, <1>9 DEF Bridge!ItemFits, Bridge!trackedFor
    <3>3. CASE n # at
      <4>1. Bridge!ItemFits(n) /\ content'[n] = content[n] /\ content[n].key # None
        BY <3>3, <2>16, <2>19 DEF Bridge!PartsFit
      <4>2. /\ content[n].key \in DOMAIN said
            /\ content[n].key[1] = cycle /\ content[n].key[2] \in DOMAIN open =>
                 \E c \in DOMAIN blocks' : blocks'[c].key = <<cycle', content[n].key[2]>>
        BY <4>1, <3>1 DEF Bridge!ItemFits
      <4> QED
        BY <4>1, <4>2, <1>1, <1>4 DEF Bridge!ItemFits, Bridge!trackedFor
    <3> QED
      BY <3>2, <3>3
  <2>20. \A c \in DOMAIN blocks' : Bridge!BlockFits(c)'
    BY <2>18 DEF Bridge!BlockFits
  <2>21. \A n \in DOMAIN content' : Bridge!ItemFits(n)'
    BY <2>19 DEF Bridge!ItemFits
  <2>22. SameTags
    <3> SUFFICES ASSUME NEW tool \in Tools PROVE Tagged(tool)' = Tagged(tool)
      BY DEF SameTags
    <3>1. \A n \in DOMAIN content' : content'[n].tool = before[n].tool
      BY <2>12, <2>14
    <3>2. tool # None
      BY DEF Bridge!BridgeAssumption
    <3> QED
      BY <2>8, <2>14, <3>1, <3>2 DEF Tagged
  <2> QED
    BY <1>5, <2>15, <2>17, <2>20, <2>21, <2>22 DEF Bridge!PartsFit
<1> QED
  BY <1>8, <1>9

\* Where the elements of a sequence are after one of them is removed.
LEMMA Removing ==
    ASSUME NEW S, NEW s \in Seq(S), NEW b \in DOMAIN s, NEW t, t = Bridge!RemoveAt(s, b)
    PROVE  /\ t \in Seq(S)
           /\ \A c \in DOMAIN t :
                \E d \in DOMAIN s : d = (IF c < b THEN c ELSE c + 1) /\ d # b /\ t[c] = s[d]
           /\ \A d \in DOMAIN s \ {b} : \E c \in DOMAIN t : t[c] = s[d]
<1>1. PICK n \in Nat : n = Len(s)
  OBVIOUS
<1>2. DOMAIN s = 1..n /\ \A c \in 1..n : s[c] \in S
  BY <1>1
<1>3. b \in Nat /\ 1 <= b /\ b <= n
  BY <1>2
<1>4. PICK p \in Nat : p = b - 1
  BY <1>3
<1>5. PICK q \in Nat : q = n - b
  BY <1>3
<1>6. PICK x : x = SubSeq(s, 1, p)
  OBVIOUS
<1>7. PICK y : y = SubSeq(s, b + 1, n)
  OBVIOUS
<1>8. /\ x \in Seq(S) /\ Len(x) = p /\ \A c \in 1..p : x[c] = s[c]
  <2>1. \A c \in 1..p : s[c] \in S
    BY <1>2, <1>3, <1>4
  <2>2. /\ SubSeq(s, 1, p) \in Seq(S) /\ Len(SubSeq(s, 1, p)) = IF 1 <= p THEN p - 1 + 1 ELSE 0
        /\ \A c \in 1..p - 1 + 1 : SubSeq(s, 1, p)[c] = s[1 + c - 1]
    BY <2>1, SubSeqProperties
  <2> QED
    BY <1>4, <1>6, <2>2
<1>9. /\ y \in Seq(S) /\ Len(y) = q /\ \A c \in 1..q : y[c] = s[b + c]
  <2>1. PICK m \in Int : m = b + 1
    BY <1>3
  <2>2. \A c \in m..n : s[c] \in S
    BY <1>2, <1>3, <2>1
  <2>3. /\ SubSeq(s, m, n) \in Seq(S) /\ Len(SubSeq(s, m, n)) = IF m <= n THEN n - m + 1 ELSE 0
        /\ \A c \in 1..n - m + 1 : SubSeq(s, m, n)[c] = s[m + c - 1]
    BY <2>2, SubSeqProperties
  <2>4. y = SubSeq(s, m, n) /\ n - m + 1 = q /\ (~(m <= n) => q = 0)
    BY <1>3, <1>5, <1>7, <2>1
  <2>5. \A c \in 1..q : m + c - 1 = b + c
    BY <1>3, <2>1
  <2> QED
    BY <2>3, <2>4, <2>5
<1>10. t = x \o y
  BY <1>1, <1>4, <1>6, <1>7 DEF Bridge!RemoveAt
<1>11. /\ t \in Seq(S) /\ Len(t) = p + q
       /\ \A c \in 1..p + q : t[c] = IF c <= p THEN x[c] ELSE y[c - p]
  <2>1. /\ x \o y \in Seq(S) /\ Len(x \o y) = Len(x) + Len(y)
        /\ \A c \in 1..Len(x) + Len(y) : (x \o y)[c] = IF c <= Len(x) THEN x[c] ELSE y[c - Len(x)]
    <3>1. x \in Seq(S) /\ y \in Seq(S)
      BY <1>8, <1>9
    <3> QED
      BY <3>1, ConcatProperties
  <2>2. Len(x) = p /\ Len(y) = q
    BY <1>8, <1>9
  <2> QED
    BY <2>1, <2>2, <1>10
<1>12. PICK r \in Nat : r = p + q
  OBVIOUS
<1>13. DOMAIN t = 1..r /\ r = n - 1
  BY <1>3, <1>4, <1>5, <1>11, <1>12
<1>14. ASSUME NEW c \in DOMAIN t
       PROVE  \E d \in DOMAIN s : d = (IF c < b THEN c ELSE c + 1) /\ d # b /\ t[c] = s[d]
  <2>1. c \in Nat /\ 1 <= c /\ c <= r
    BY <1>13
  <2>2. CASE c < b
    <3>1. c <= p /\ c \in 1..p /\ c \in 1..n /\ c \in 1..p + q
      BY <1>3, <1>4, <1>12, <1>13, <2>1, <2>2
    <3>2. t[c] = s[c]
      BY <1>8, <1>11, <3>1
    <3> QED
      BY <1>2, <2>2, <3>1, <3>2, <1>3
  <2>3. CASE ~(c < b)
    <3>1. PICK e \in Nat : e = c - p
      BY <1>3, <1>4, <2>1, <2>3
    <3>2. /\ e \in 1..q /\ b + e = c + 1 /\ c + 1 \in 1..n /\ c + 1 # b /\ ~(c <= p)
          /\ c \in 1..p + q
      <4>1. c + 1 \in 1..n /\ c + 1 # b
        BY <1>3, <1>13, <2>1, <2>3
      <4>2. c > p
        BY <1>3, <1>4, <2>1, <2>3
      <4>3. b + e = c + 1 /\ e >= 1
        BY <1>3, <1>4, <2>1, <3>1, <4>2
      <4>4. c \in 1..p + q
        BY <1>12, <2>1
      <4>5. e <= q
        BY <1>3, <1>5, <2>1, <4>1, <4>3
      <4> QED
        BY <4>1, <4>2, <4>3, <4>4, <4>5, <2>1
    <3>3. t[c] = y[e] /\ y[e] = s[b + e]
      BY <1>9, <1>11, <3>1, <3>2
    <3> QED
      BY <1>2, <2>3, <3>2, <3>3
  <2> QED
    BY <2>2, <2>3
<1>15. ASSUME NEW d \in DOMAIN s \ {b} PROVE \E c \in DOMAIN t : t[c] = s[d]
  <2>1. d \in Nat /\ 1 <= d /\ d <= n /\ d # b
    BY <1>2
  <2>2. CASE d < b
    <3>1. d <= p /\ d \in 1..p /\ d \in 1..p + q /\ d \in 1..r
      BY <1>3, <1>4, <1>12, <1>13, <2>1, <2>2
    <3>2. t[d] = s[d]
      BY <1>8, <1>11, <3>1
    <3> QED
      BY <1>13, <3>1, <3>2
  <2>3. CASE ~(d < b)
    <3>1. PICK e \in Nat : e = d - b
      BY <1>3, <2>1, <2>3
    <3>2. PICK c \in Nat : c = d - 1
      BY <2>1
    <3>3. /\ e \in 1..q /\ b + e = d /\ c - p = e /\ ~(c <= p) /\ c \in 1..p + q /\ c \in 1..r
      <4>1. b + e = d /\ e >= 1
        BY <1>3, <2>1, <2>3, <3>1
      <4>2. e <= q
        BY <1>3, <1>5, <2>1, <4>1
      <4>3. c - p = e /\ c > p
        <5>1. c = d - 1 /\ p = b - 1 /\ e = d - b /\ d > b
          BY <1>3, <1>4, <2>1, <2>3, <3>1, <3>2
        <5>2. c > p
          BY <5>1, <1>3, <2>1
        <5>3. (d - 1) - (b - 1) = d - b
          BY <1>3, <2>1
        <5> QED
          BY <5>1, <5>2, <5>3
      <4>4. 1 <= c /\ c <= r
        BY <1>3, <1>13, <2>1, <2>3, <3>2
      <4> QED
        BY <1>12, <4>1, <4>2, <4>3, <4>4
    <3>4. t[c] = y[e] /\ y[e] = s[b + e]
      BY <1>9, <1>11, <3>3
    <3> QED
      BY <1>13, <3>3, <3>4
  <2> QED
    BY <2>2, <2>3
<1> QED
  BY <1>11, <1>14, <1>15

LEMMA BlockStopFits ==
    ASSUME Bridge!BridgeAssumption, PartsTyped, Bridge!PartsFit, NEW i \in DOMAIN open,
           Bridge!BlockStop(i)
    PROVE  PartsTyped' /\ Bridge!PartsFit' /\ SameTags
<1> DEFINE key == <<cycle, i>>
<1>1. /\ ebInst' = ebInst /\ cycle' = cycle /\ stopReason' = stopReason /\ said' = said
      /\ markedTools' = markedTools /\ forwardedResultIds' = forwardedResultIds
      /\ open' = [j \in DOMAIN open \ {i} |-> open[j]]
  BY DEF Bridge!BlockStop
<1>2. key \in DOMAIN said /\ key \in Bridge!Keys /\ key # None /\ key[1] = cycle /\ key[2] = i
  BY TrackedIs
<1>3. /\ DOMAIN open' = DOMAIN open \ {i} /\ open' = [j \in DOMAIN open' |-> open'[j]]
      /\ \A j \in DOMAIN open' : open'[j] = open[j]
  BY <1>1
<1>4. Bridge!SaidFits'
  <2>1. Bridge!Numbered' = Bridge!Numbered
    BY <1>1 DEF Bridge!Numbered
  <2> QED
    BY <1>1, <1>3, <2>1 DEF Bridge!PartsFit, Bridge!SaidFits
<1>5. /\ blocks \in Seq(Blocks) /\ content \in Seq(Items) /\ Len(content) \in Nat
      /\ Len(blocks) \in Nat /\ DOMAIN content = 1..Len(content) /\ DOMAIN blocks = 1..Len(blocks)
  BY DEF PartsTyped
<1> DEFINE typed == blocks' \in Seq(Blocks) /\ content' \in Seq(Items)
<1>6. typed => PartsTyped'
  BY <1>1 DEF PartsTyped
<1>7. \A k \in DOMAIN said : k[1] = cycle /\ k[2] = i => k = key
  BY DEF PartsTyped, Bridge!Keys
\* A block of another key is as it was, and its place is.
<1>8. ASSUME NEW c \in DOMAIN blocks, blocks[c].key # None, blocks[c].key # key
      PROVE  /\ blocks[c].key \in DOMAIN said /\ blocks[c].parts = said[blocks[c].key]
             /\ \A d \in DOMAIN blocks : blocks[d].key = blocks[c].key => d = c
             /\ blocks[c].key[1] = cycle =>
                  blocks[c].key[2] \in DOMAIN open' /\ open'[blocks[c].key[2]] = blocks[c].type
             /\ IF blocks[c].at = 0
                THEN \A n \in DOMAIN content : content[n].key # blocks[c].key
                ELSE /\ blocks[c].at \in DOMAIN content
                     /\ content[blocks[c].at].key = blocks[c].key
                     /\ content[blocks[c].at].ends = 0
  <2>1. Bridge!BlockFits(c)
    BY DEF Bridge!PartsFit
  <2> QED
    BY <1>3, <1>7, <1>8, <2>1 DEF Bridge!BlockFits
\* An open block of the message is still tracked.
<1>9. ASSUME \A d \in DOMAIN blocks : blocks[d].key # None /\ blocks[d].key # key =>
               \E c \in DOMAIN blocks' : blocks'[c].key = blocks[d].key,
             \A n \in DOMAIN content' : n \in DOMAIN content /\ content'[n].key = content[n].key,
             NEW n \in DOMAIN content'
      PROVE  Bridge!ItemFits(n)'
  <2>1. Bridge!ItemFits(n) /\ content'[n].key = content[n].key
    BY <1>9 DEF Bridge!PartsFit
  <2>2. ASSUME content[n].key # None, content[n].key[1] = cycle,
               content[n].key[2] \in DOMAIN open'
        PROVE  \E c \in DOMAIN blocks' : blocks'[c].key = <<cycle', content[n].key[2]>>
    <3>1. PICK d \in DOMAIN blocks : blocks[d].key = <<cycle, content[n].key[2]>>
      BY <1>3, <2>1, <2>2 DEF Bridge!ItemFits, Bridge!trackedFor
    <3>2. content[n].key \in DOMAIN said /\ content[n].key[2] \in DOMAIN open
      BY <1>3, <2>1, <2>2 DEF Bridge!ItemFits
    <3>3. blocks[d].key # key /\ blocks[d].key # None
      <4>1. content[n].key[2] # i
        BY <1>3, <2>2
      <4>2. <<cycle, content[n].key[2]>> # None
        BY <3>2, TrackedIs
      <4> QED
        BY <3>1, <4>1, <4>2
    <3> QED
      BY <1>1, <1>9, <3>1, <3>3
  <2> QED
    BY <1>1, <2>1, <2>2 DEF Bridge!ItemFits, Bridge!trackedFor
<1>10. CASE Bridge!trackedFor(i) = {}
  <2>1. blocks' = blocks /\ content' = content
    BY <1>10 DEF Bridge!BlockStop
  <2>2. \A b \in DOMAIN blocks : blocks[b].key # key
    BY <1>10 DEF Bridge!trackedFor
  <2>3. PartsTyped'
    BY <1>5, <1>6, <2>1
  <2>4. Bridge!EveryPartInPlace'
    BY <1>1, <2>1 DEF Bridge!PartsFit, Bridge!EveryPartInPlace
  <2>5. ASSUME NEW c \in DOMAIN blocks' PROVE Bridge!BlockFits(c)'
    BY <1>1, <1>8, <2>1, <2>2 DEF Bridge!BlockFits
  <2>6. \A n \in DOMAIN content' : Bridge!ItemFits(n)'
    BY <1>9, <2>1
  <2>7. SameTags
    BY <2>1 DEF SameTags, Tagged
  <2> QED
    BY <1>4, <2>3, <2>4, <2>5, <2>6, <2>7 DEF Bridge!PartsFit
<1>11. CASE Bridge!trackedFor(i) # {}
  <2>1. PICK b \in DOMAIN blocks : b = Bridge!Tracked(i)
    BY <1>11, TrackedIs
  <2>2. /\ blocks[b].key = key /\ \A c \in DOMAIN blocks : blocks[c].key = key => c = b
    BY <1>11, <2>1, TrackedIs
  <2>3. CASE blocks[b].at = 0
    <3>1. blocks' = Bridge!RemoveAt(blocks, b) /\ content' = content
      BY <1>11, <2>1, <2>3 DEF Bridge!BlockStop
    <3>2. /\ blocks' \in Seq(Blocks)
          /\ \A c \in DOMAIN blocks' :
               \E d \in DOMAIN blocks :
                 d = (IF c < b THEN c ELSE c + 1) /\ d # b /\ blocks'[c] = blocks[d]
          /\ \A d \in DOMAIN blocks \ {b} : \E c \in DOMAIN blocks' : blocks'[c] = blocks[d]
      <4>1. PICK t : t = blocks'
        OBVIOUS
      <4>2. blocks \in Seq(Blocks) /\ t = Bridge!RemoveAt(blocks, b)
        BY <1>5, <3>1, <4>1
      <4>3. /\ t \in Seq(Blocks)
            /\ \A c \in DOMAIN t :
                 \E d \in DOMAIN blocks :
                   d = (IF c < b THEN c ELSE c + 1) /\ d # b /\ t[c] = blocks[d]
            /\ \A d \in DOMAIN blocks \ {b} : \E c \in DOMAIN t : t[c] = blocks[d]
        BY <4>2, Removing
      <4> QED
        BY <4>1, <4>3
    <3>3. PartsTyped'
      BY <1>5, <1>6, <3>1, <3>2
    <3>4. Bridge!EveryPartInPlace'
      BY <1>1, <3>1 DEF Bridge!PartsFit, Bridge!EveryPartInPlace
    <3>5. ASSUME NEW c \in DOMAIN blocks', blocks'[c].key # None PROVE Bridge!BlockFits(c)'
      <4>1. PICK d \in DOMAIN blocks : d = (IF c < b THEN c ELSE c + 1) /\ d # b
                                       /\ blocks'[c] = blocks[d]
        BY <3>2
      <4>2. blocks[d].key # key /\ blocks[d].key # None
        BY <2>2, <3>5, <4>1
      <4>3. \A e \in DOMAIN blocks' : blocks'[e].key = blocks'[c].key => e = c
        <5> SUFFICES ASSUME NEW e \in DOMAIN blocks', blocks'[e].key = blocks'[c].key
                     PROVE  e = c
          OBVIOUS
        <5>1. PICK f \in DOMAIN blocks : f = (IF e < b THEN e ELSE e + 1) /\ f # b
                                         /\ blocks'[e] = blocks[f]
          BY <3>2
        <5>2. f = d
          BY <1>8, <4>1, <4>2, <5>1
        <5>3. c \in Nat /\ e \in Nat /\ b \in Nat
          <6>1. DOMAIN blocks' = 1..Len(blocks')
            BY <3>2
          <6> QED
            BY <1>5, <6>1
        <5> QED
          BY <4>1, <5>1, <5>2, <5>3
      <4>4. blocks'[c].key = blocks[d].key /\ blocks'[c].at = blocks[d].at
            /\ blocks'[c].parts = blocks[d].parts /\ blocks'[c].type = blocks[d].type
        BY <4>1
      <4>5. /\ blocks[d].key \in DOMAIN said /\ blocks[d].parts = said[blocks[d].key]
            /\ blocks[d].key[1] = cycle =>
                 blocks[d].key[2] \in DOMAIN open' /\ open'[blocks[d].key[2]] = blocks[d].type
            /\ IF blocks[d].at = 0
               THEN \A n \in DOMAIN content : content[n].key # blocks[d].key
               ELSE /\ blocks[d].at \in DOMAIN content
                    /\ content[blocks[d].at].key = blocks[d].key
                    /\ content[blocks[d].at].ends = 0
        BY <1>8, <4>2
      <4> QED
        BY <1>1, <3>1, <4>3, <4>4, <4>5 DEF Bridge!BlockFits
    <3>6. \A c \in DOMAIN blocks' : Bridge!BlockFits(c)'
      BY <3>5 DEF Bridge!BlockFits
    <3>7. \A n \in DOMAIN content' : Bridge!ItemFits(n)'
      BY <1>9, <2>2, <3>1, <3>2
    <3>8. SameTags
      BY <3>1 DEF SameTags, Tagged
    <3> QED
      BY <1>4, <3>3, <3>4, <3>6, <3>7, <3>8 DEF Bridge!PartsFit
  <2>4. CASE blocks[b].at # 0
    <3>1. PICK at \in DOMAIN content : at = blocks[b].at
      BY <1>2, <2>2, <2>4 DEF Bridge!PartsFit, Bridge!BlockFits
    <3>2. content[at].key = key /\ content[at].ends = 0
      BY <1>2, <2>2, <2>4, <3>1 DEF Bridge!PartsFit, Bridge!BlockFits
    <3>3. blocks' = [blocks EXCEPT ![b].key = None]
            /\ content' = [content EXCEPT ![at].ends = @ + 1]
      BY <1>11, <2>1, <2>4, <3>1 DEF Bridge!BlockStop
    <3>4. PICK stopped \in Blocks : stopped = [blocks[b] EXCEPT !.key = None]
                 /\ stopped.key = None
      <4>1. PICK old \in Blocks : old = blocks[b]
        BY <1>5
      <4>2. PICK stopped : stopped = [old EXCEPT !.key = None]
        OBVIOUS
      <4>3. stopped \in Blocks /\ stopped.key = None
        BY <4>2 DEF Blocks
      <4> QED
        BY <4>1, <4>2, <4>3
    <3>5. /\ blocks' \in Seq(Blocks) /\ DOMAIN blocks' = DOMAIN blocks /\ blocks'[b].key = None
          /\ \A c \in DOMAIN blocks : c # b => blocks'[c] = blocks[c]
      BY <3>3, <3>4, <1>5
    <3>6. PICK old \in Items : old = content[at]
      BY <1>5
    <3>7. PICK ended : ended = [old EXCEPT !.ends = 1]
      OBVIOUS
    <3>8. /\ ended \in Items /\ ended.ends = 1 /\ ended.key = old.key /\ ended.parts = old.parts
          /\ ended.stray = old.stray /\ ended.tool = old.tool
      BY <3>7 DEF Items
    <3>9. content' = [content EXCEPT ![at] = ended]
      <4>1. content[at].ends + 1 = 1
        BY <3>2
      <4>2. content' = [content EXCEPT ![at] = [content[at] EXCEPT !.ends = content[at].ends + 1]]
        BY <3>3, <1>5
      <4> QED
        BY <3>6, <3>7, <4>1, <4>2
    <3>10. /\ content' \in Seq(Items) /\ DOMAIN content' = DOMAIN content /\ content'[at] = ended
           /\ \A n \in DOMAIN content : n # at => content'[n] = content[n]
      BY <3>8, <3>9, <1>5
    <3>11. /\ \A n \in DOMAIN content : /\ content'[n].key = content[n].key
                                        /\ content'[n].parts = content[n].parts
                                        /\ content'[n].stray = content[n].stray
                                        /\ content'[n].tool = content[n].tool
           /\ content'[at].ends = 1
      BY <3>6, <3>8, <3>10
    <3>12. PartsTyped'
      BY <1>6, <3>5, <3>10
    <3>13. Bridge!EveryPartInPlace'
      BY <1>1, <3>10, <3>11 DEF Bridge!PartsFit, Bridge!EveryPartInPlace
    <3>14. ASSUME NEW c \in DOMAIN blocks', blocks'[c].key # None PROVE Bridge!BlockFits(c)'
      <4>1. c \in DOMAIN blocks /\ c # b /\ blocks'[c] = blocks[c] /\ blocks[c].key # key
        BY <2>2, <3>5, <3>14
      <4>2. \A d \in DOMAIN blocks' : blocks'[d].key = blocks[c].key => d = c
        BY <1>8, <3>5, <3>14, <4>1
      <4>3. IF blocks[c].at = 0
            THEN \A n \in DOMAIN content' : content'[n].key # blocks[c].key
            ELSE /\ blocks[c].at \in DOMAIN content'
                 /\ content'[blocks[c].at].key = blocks[c].key
                 /\ content'[blocks[c].at].ends = 0
        BY <1>8, <3>2, <3>10, <3>11, <3>14, <4>1
      <4> QED
        BY <1>1, <1>8, <3>14, <4>1, <4>2, <4>3 DEF Bridge!BlockFits
    <3>15. \A c \in DOMAIN blocks' : Bridge!BlockFits(c)'
      BY <3>14 DEF Bridge!BlockFits
    <3>16. \A n \in DOMAIN content' : Bridge!ItemFits(n)'
      BY <1>9, <2>2, <3>5, <3>10, <3>11
    <3>17. SameTags
      BY <3>10, <3>11 DEF SameTags, Tagged
    <3> QED
      BY <1>4, <3>12, <3>13, <3>15, <3>16, <3>17 DEF Bridge!PartsFit
  <2> QED
    BY <2>3, <2>4, <1>5 DEF Blocks
<1> QED
  BY <1>10, <1>11

\* Where the elements of two sequences are after they are joined.
Joined(s, t, z) ==
  /\ \A n \in DOMAIN s : n \in DOMAIN z /\ z[n] = s[n]
  /\ \A m \in DOMAIN t :
       Len(s) + m \in DOMAIN z /\ z[Len(s) + m] = t[m] /\ Len(s) + m \notin DOMAIN s
  /\ \A n \in DOMAIN z : n \in DOMAIN s \/ \E m \in DOMAIN t : n = Len(s) + m

LEMMA Joining ==
    ASSUME NEW S, NEW s \in Seq(S), NEW t \in Seq(S), NEW z, z = s \o t
    PROVE  z \in Seq(S) /\ Joined(s, t, z)
<1>1. PICK p \in Nat : p = Len(s)
  OBVIOUS
<1>2. PICK q \in Nat : q = Len(t)
  OBVIOUS
<1>3. /\ z \in Seq(S) /\ Len(z) = p + q
      /\ \A n \in 1..p + q : z[n] = IF n <= p THEN s[n] ELSE t[n - p]
  BY <1>1, <1>2, ConcatProperties
<1>4. DOMAIN s = 1..p /\ DOMAIN t = 1..q /\ DOMAIN z = 1..p + q
  BY <1>1, <1>2, <1>3
<1>5. \A n \in DOMAIN s : n \in DOMAIN z /\ z[n] = s[n]
  BY <1>3, <1>4
<1>6. ASSUME NEW m \in DOMAIN t
      PROVE  p + m \in DOMAIN z /\ z[p + m] = t[m] /\ p + m \notin DOMAIN s
  <2>1. m \in Nat /\ 1 <= m /\ m <= q
    BY <1>4
  <2>2. PICK n \in Nat : n = p + m
    BY <2>1
  <2>3. n \in 1..p + q /\ ~(n <= p) /\ n - p = m
    BY <2>1, <2>2
  <2> QED
    BY <1>3, <1>4, <2>2, <2>3
<1>7. ASSUME NEW n \in DOMAIN z, n \notin DOMAIN s PROVE \E m \in DOMAIN t : n = p + m
  <2>1. n \in Nat /\ p < n /\ n <= p + q
    BY <1>4, <1>7
  <2>2. PICK m \in Nat : m = n - p
    BY <2>1
  <2>3. m \in 1..q /\ n = p + m
    BY <2>1, <2>2
  <2>4. m \in DOMAIN t
    BY <1>4, <2>3
  <2> QED
    BY <2>3, <2>4
<1> QED
  BY <1>1, <1>3, <1>5, <1>6, <1>7 DEF Joined

\* What the bridge appends itself disturbs nothing.
LEMMA AppendedFits ==
    ASSUME PartsTyped, Bridge!PartsFit, NEW items \in Seq(Items), Bridge!Appended(items),
           \A n \in DOMAIN items : items[n].key = None,
           cycle' = cycle, said' = said, open' = open
    PROVE  content' \in Seq(Items) /\ blocks' \in Seq(Blocks) /\ Bridge!PartsFit'
<1>1. /\ blocks \in Seq(Blocks) /\ content \in Seq(Items) /\ Len(content) \in Nat
      /\ DOMAIN items = 1..Len(items) /\ Len(items) \in Nat
  BY DEF PartsTyped
<1>2. PICK added : added = [n \in DOMAIN items |->
                              [type |-> "text", key |-> None, at |-> Len(content) + n,
                                  parts |-> 1]]
  OBVIOUS
<1>3. added \in Seq(Blocks) /\ DOMAIN added = DOMAIN items
        /\ \A n \in DOMAIN added : added[n].key = None
  <2>1. \A n \in DOMAIN items : added[n] \in Blocks
    BY <1>1, <1>2 DEF Blocks, Bridge!Types
  <2>2. added \in [1..Len(items) -> Blocks]
    BY <1>1, <1>2, <2>1
  <2> QED
    BY <1>1, <1>2, <2>2
<1>4. content' = content \o items /\ blocks' = blocks \o added
  BY <1>2 DEF Bridge!Appended
<1>5. /\ blocks' \in Seq(Blocks)
      /\ \A b \in DOMAIN blocks : b \in DOMAIN blocks' /\ blocks'[b] = blocks[b]
      /\ \A b \in DOMAIN blocks' : b \in DOMAIN blocks \/ blocks'[b].key = None
  <2>1. PICK z : z = blocks \o added
    OBVIOUS
  <2>2. z \in Seq(Blocks) /\ Joined(blocks, added, z)
    BY <1>1, <1>3, <2>1, Joining
  <2> QED
    BY <1>3, <1>4, <2>1, <2>2 DEF Joined
<1>6. /\ content' \in Seq(Items)
      /\ \A n \in DOMAIN content : n \in DOMAIN content' /\ content'[n] = content[n]
      /\ \A n \in DOMAIN content' : n \in DOMAIN content \/ content'[n].key = None
  <2>1. PICK z : z = content \o items
    OBVIOUS
  <2>2. z \in Seq(Items) /\ Joined(content, items, z)
    BY <1>1, <2>1, Joining
  <2> QED
    BY <1>4, <2>1, <2>2 DEF Joined
<1>7. Bridge!SaidFits'
  <2>1. Bridge!Numbered' = Bridge!Numbered
    BY DEF Bridge!Numbered
  <2> QED
    BY <2>1 DEF Bridge!PartsFit, Bridge!SaidFits
<1>8. Bridge!EveryPartInPlace'
  BY <1>6 DEF Bridge!PartsFit, Bridge!EveryPartInPlace
<1>9. ASSUME NEW b \in DOMAIN blocks', blocks'[b].key # None PROVE Bridge!BlockFits(b)'
  <2>1. b \in DOMAIN blocks /\ blocks'[b] = blocks[b] /\ blocks[b].key # None
    BY <1>5, <1>9
  <2>2. /\ blocks[b].key \in DOMAIN said /\ blocks[b].parts = said[blocks[b].key]
        /\ \A c \in DOMAIN blocks : blocks[c].key = blocks[b].key => c = b
        /\ blocks[b].key[1] = cycle =>
             blocks[b].key[2] \in DOMAIN open /\ open[blocks[b].key[2]] = blocks[b].type
        /\ IF blocks[b].at = 0
           THEN \A n \in DOMAIN content : content[n].key # blocks[b].key
           ELSE /\ blocks[b].at \in DOMAIN content
                /\ content[blocks[b].at].key = blocks[b].key /\ content[blocks[b].at].ends = 0
    BY <2>1 DEF Bridge!PartsFit, Bridge!BlockFits
  <2>3. \A c \in DOMAIN blocks' : blocks'[c].key = blocks[b].key => c = b
    BY <1>5, <2>1, <2>2
  <2>4. IF blocks[b].at = 0
        THEN \A n \in DOMAIN content' : content'[n].key # blocks[b].key
        ELSE /\ blocks[b].at \in DOMAIN content'
             /\ content'[blocks[b].at].key = blocks[b].key /\ content'[blocks[b].at].ends = 0
    BY <1>6, <2>1, <2>2
  <2> QED
    BY <2>1, <2>2, <2>3, <2>4 DEF Bridge!BlockFits
<1>10. ASSUME NEW n \in DOMAIN content', content'[n].key # None PROVE Bridge!ItemFits(n)'
  <2>1. Bridge!ItemFits(n) /\ content'[n] = content[n] /\ content[n].key # None
    BY <1>6, <1>10 DEF Bridge!PartsFit
  <2>2. \A j : Bridge!trackedFor(j) # {}
          => \E c \in DOMAIN blocks' : blocks'[c].key = <<cycle', j>>
    BY <1>5 DEF Bridge!trackedFor
  <2>3. /\ content[n].key \in DOMAIN said
        /\ content[n].key[1] = cycle /\ content[n].key[2] \in DOMAIN open =>
             \E c \in DOMAIN blocks' : blocks'[c].key = <<cycle', content[n].key[2]>>
    BY <2>1, <2>2 DEF Bridge!ItemFits
  <2> QED
    BY <2>1, <2>3 DEF Bridge!ItemFits, Bridge!trackedFor
<1>11. \A b \in DOMAIN blocks' : Bridge!BlockFits(b)'
  BY <1>9 DEF Bridge!BlockFits
<1>12. \A n \in DOMAIN content' : Bridge!ItemFits(n)'
  BY <1>10 DEF Bridge!ItemFits
<1> QED
  BY <1>5, <1>6, <1>7, <1>8, <1>11, <1>12 DEF Bridge!PartsFit

\* One marker more for each tool that order names.
LEMMA AppendedTags ==
    ASSUME PartsTyped, NEW items \in Seq(Items), Bridge!Appended(items), NEW tool \in Tools
    PROVE  /\ Bridge!IsFiniteSet(Tagged(tool))
           /\ (\A n \in DOMAIN items : items[n].tool # tool) => Tagged(tool)' = Tagged(tool)
           /\ \A m \in DOMAIN items :
                items[m].tool = tool /\ (\A n \in DOMAIN items : items[n].tool = tool => n = m)
                  => Bridge!Cardinality(Tagged(tool)') = Bridge!Cardinality(Tagged(tool)) + 1
<1>1. content \in Seq(Items) /\ content' = content \o items /\ Len(content) \in Nat
  BY DEF PartsTyped, Bridge!Appended
<1>2. PICK z : z = content \o items
  OBVIOUS
<1>3. Joined(content, items, z)
  BY <1>1, <1>2, Joining
<1>4. Tagged(tool)' = {n \in DOMAIN z : z[n].tool = tool}
  BY <1>1, <1>2 DEF Tagged
<1>5. Bridge!IsFiniteSet(Tagged(tool))
  <2>1. Tagged(tool) \subseteq 1..Len(content)
    BY <1>1 DEF Tagged
  <2>2. Bridge!IsFiniteSet(1..Len(content))
    BY <1>1, FS_Interval, BridgeFinite
  <2> QED
    BY <2>1, <2>2, FS_Subset, BridgeFinite
<1>6. ASSUME \A n \in DOMAIN items : items[n].tool # tool PROVE Tagged(tool)' = Tagged(tool)
  BY <1>3, <1>4, <1>6 DEF Tagged, Joined
<1>7. ASSUME NEW m \in DOMAIN items, items[m].tool = tool,
             \A n \in DOMAIN items : items[n].tool = tool => n = m
      PROVE  Bridge!Cardinality(Tagged(tool)') = Bridge!Cardinality(Tagged(tool)) + 1
  <2>1. Tagged(tool)' = Tagged(tool) \cup {Len(content) + m}
    BY <1>3, <1>4, <1>7 DEF Tagged, Joined
  <2>2. Len(content) + m \notin Tagged(tool)
    BY <1>3 DEF Tagged, Joined
  <2> QED
    BY <1>5, <2>1, <2>2, FS_AddElement, BridgeFinite
<1> QED
  BY <1>5, <1>6, <1>7

LEMMA MarkerIs ==
    ASSUME Bridge!BridgeAssumption, NEW tool \in Tools \cup {None}
    PROVE  Bridge!Marker(tool) \in Items /\ Bridge!Marker(tool).key = None
             /\ Bridge!Marker(tool).tool = tool
BY DEF Bridge!Marker, Bridge!Item, Items

PartsHold == PartsTyped /\ Bridge!PartsFit /\ Bridge!ResultsFollowCalls

LEMMA TagsHold ==
    ASSUME Bridge!ResultsFollowCalls, SameTags,
           markedTools' = markedTools, forwardedResultIds' = forwardedResultIds
    PROVE  Bridge!ResultsFollowCalls'
BY DEF Bridge!ResultsFollowCalls, SameTags, Tagged

LEMMA PartsRest ==
    ASSUME PartsHold, stopReason' \in {"stop", "toolUse"},
           UNCHANGED <<ebInst, cycle, blocks, content, markedTools, forwardedResultIds, open,
               said>>
    PROVE  PartsHold'
<1>1. PartsTyped'
  BY DEF PartsHold, PartsTyped
<1>2. Bridge!SaidFits' /\ Bridge!EveryPartInPlace'
  <2>1. Bridge!Numbered' = Bridge!Numbered
    BY DEF Bridge!Numbered
  <2> QED
    BY <2>1 DEF PartsHold, Bridge!PartsFit, Bridge!SaidFits, Bridge!EveryPartInPlace
<1>3. ASSUME NEW b \in DOMAIN blocks' PROVE Bridge!BlockFits(b)'
  BY <1>3 DEF PartsHold, Bridge!PartsFit, Bridge!BlockFits
<1>4. ASSUME NEW n \in DOMAIN content' PROVE Bridge!ItemFits(n)'
  BY <1>4 DEF PartsHold, Bridge!PartsFit, Bridge!ItemFits, Bridge!trackedFor
<1>5. Bridge!ResultsFollowCalls'
  BY DEF PartsHold, Bridge!ResultsFollowCalls
<1> QED
  BY <1>1, <1>2, <1>3, <1>4, <1>5 DEF PartsHold, Bridge!PartsFit

\* A marker for none of the calls.
LEMMA NoticeHolds ==
    ASSUME Bridge!BridgeAssumption, PartsHold, Bridge!Appended(<<Bridge!Marker(None)>>),
           UNCHANGED <<ebInst, cycle, stopReason, markedTools, forwardedResultIds, open, said>>
    PROVE  PartsHold'
<1>1. PICK items : items = <<Bridge!Marker(None)>>
  OBVIOUS
<1>2. items \in Seq(Items) /\ DOMAIN items = {1} /\ items[1] = Bridge!Marker(None)
  BY <1>1, MarkerIs
<1>3. \A n \in DOMAIN items : items[n].key = None /\ items[n].tool = None
  BY <1>2, MarkerIs
<1>4. Bridge!Appended(items)
  BY <1>1
<1>5. content' \in Seq(Items) /\ blocks' \in Seq(Blocks) /\ Bridge!PartsFit'
  BY <1>2, <1>3, <1>4, AppendedFits DEF PartsHold
<1>6. PartsTyped'
  BY <1>5 DEF PartsHold, PartsTyped
<1>7. SameTags
  <2> SUFFICES ASSUME NEW tool \in Tools PROVE Tagged(tool)' = Tagged(tool)
    BY DEF SameTags
  <2>1. \A n \in DOMAIN items : items[n].tool # tool
    BY <1>3 DEF Bridge!BridgeAssumption
  <2> QED
    BY <1>2, <1>4, <2>1, AppendedTags DEF PartsHold
<1> QED
  BY <1>5, <1>6, <1>7, TagsHold DEF PartsHold

LEMMA AssistantEnvelopeHolds ==
    ASSUME Bridge!BridgeAssumption, PartsHold, NEW tool \in Tools, Bridge!AssistantEnvelope(tool)
    PROVE  PartsHold'
<1>1. /\ ebInst' = ebInst /\ cycle' = cycle /\ stopReason' = stopReason /\ open' = open
      /\ said' = said
      /\ forwardedResultIds' = forwardedResultIds /\ markedTools' = markedTools \cup {tool}
  BY DEF Bridge!AssistantEnvelope
<1>2. CASE tool \in markedTools
  <2>1. content' = content /\ blocks' = blocks /\ markedTools' = markedTools
    BY <1>1, <1>2 DEF Bridge!AssistantEnvelope
  <2> QED
    BY <1>1, <2>1, PartsRest DEF PartsHold, PartsTyped
<1>3. CASE tool \notin markedTools
  <2>1. PICK items : items = <<Bridge!Marker(tool)>>
    OBVIOUS
  <2>2. items \in Seq(Items) /\ DOMAIN items = {1} /\ items[1] = Bridge!Marker(tool)
    BY <2>1, MarkerIs
  <2>3. Bridge!Appended(items)
    BY <1>3, <2>1 DEF Bridge!AssistantEnvelope
  <2>4. items[1].key = None /\ items[1].tool = tool
    BY <2>2, MarkerIs
  <2>5. content' \in Seq(Items) /\ blocks' \in Seq(Blocks) /\ Bridge!PartsFit'
    BY <1>1, <2>2, <2>3, <2>4, AppendedFits DEF PartsHold
  <2>6. PartsTyped'
    BY <1>1, <2>5 DEF PartsHold, PartsTyped
  <2>7. ASSUME NEW other \in Tools
        PROVE  Bridge!Cardinality(Tagged(other)') = (IF other \in markedTools' THEN 1 ELSE 0)
                                             + (IF other \in forwardedResultIds' THEN 1 ELSE 0)
    <3>1. Bridge!Cardinality(Tagged(other)) = (IF other \in markedTools THEN 1 ELSE 0)
                                       + (IF other \in forwardedResultIds THEN 1 ELSE 0)
      BY DEF PartsHold, Bridge!ResultsFollowCalls, Tagged
    <3>2. CASE other = tool
      <4>1. Bridge!Cardinality(Tagged(other)') = Bridge!Cardinality(Tagged(other)) + 1
        BY <2>2, <2>3, <2>4, <3>2, AppendedTags DEF PartsHold
      <4>2. tool \notin forwardedResultIds
        BY <1>3 DEF PartsHold, PartsTyped
      <4> QED
        BY <1>1, <1>3, <3>1, <3>2, <4>1, <4>2
    <3>3. CASE other # tool
      <4>1. Tagged(other)' = Tagged(other)
        BY <2>2, <2>3, <2>4, <3>3, AppendedTags DEF PartsHold
      <4> QED
        BY <1>1, <3>1, <3>3, <4>1
    <3> QED
      BY <3>2, <3>3
  <2>8. Bridge!ResultsFollowCalls'
    BY <2>7 DEF Bridge!ResultsFollowCalls, Tagged
  <2> QED
    BY <2>5, <2>6, <2>8 DEF PartsHold
<1> QED
  BY <1>2, <1>3

LEMMA UserEnvelopeHolds ==
    ASSUME Bridge!BridgeAssumption, PartsHold, NEW tools \in SUBSET Tools,
           Bridge!UserEnvelope(tools)
    PROVE  PartsHold'
<1> DEFINE fresh == (tools \cap markedTools) \ forwardedResultIds
<1>1. /\ ebInst' = ebInst /\ cycle' = cycle /\ stopReason' = stopReason /\ open' = open
      /\ said' = said
      /\ forwardedResultIds' = forwardedResultIds \cup fresh /\ markedTools' = markedTools
  BY DEF Bridge!UserEnvelope
<1>2. PICK k : k = Bridge!Cardinality(fresh)
  OBVIOUS
<1>3. k \in Nat
  <2>1. Bridge!IsFiniteSet(fresh)
    BY FS_Subset, BridgeFinite DEF Bridge!BridgeAssumption
  <2> QED
    BY <1>2, <2>1, FS_CardinalityType, BridgeFinite
<1>4. PICK order \in Bridge!Bijection(1..k,
               fresh) : Bridge!Appended([n \in 1..k |-> Bridge!Marker(order[n])])
  BY <1>2 DEF Bridge!UserEnvelope
<1>5. /\ \A n \in 1..k : order[n] \in fresh
      /\ \A n, m \in 1..k : order[n] = order[m] => n = m
      /\ \A t \in fresh : \E n \in 1..k : order[n] = t
  BY <1>4 DEF Bridge!Bijection, Bridge!Injection, Bridge!Surjection, Bridge!IsInjective
<1>6. fresh \subseteq Tools /\ fresh \subseteq markedTools /\ fresh \cap forwardedResultIds = {}
  BY DEF PartsHold, PartsTyped
<1> HIDE DEF fresh
<1>7. PICK items : items = [n \in 1..k |-> Bridge!Marker(order[n])]
  OBVIOUS
<1>8. Bridge!Appended(items)
  BY <1>4, <1>7
<1>9. \A n \in 1..k : /\ items[n] \in Items /\ items[n].key = None /\ items[n].tool = order[n]
  BY <1>5, <1>6, <1>7, MarkerIs
<1>10. items \in Seq(Items) /\ DOMAIN items = 1..k
  BY <1>3, <1>7, <1>9
<1>11. content' \in Seq(Items) /\ blocks' \in Seq(Blocks) /\ Bridge!PartsFit'
  BY <1>1, <1>8, <1>9, <1>10, AppendedFits DEF PartsHold
<1>12. PartsTyped'
  BY <1>1, <1>6, <1>11 DEF PartsHold, PartsTyped
<1>13. ASSUME NEW tool \in Tools
       PROVE  Bridge!Cardinality(Tagged(tool)') = (IF tool \in markedTools' THEN 1 ELSE 0)
                                           + (IF tool \in forwardedResultIds' THEN 1 ELSE 0)
  <2>1. Bridge!Cardinality(Tagged(tool)) = (IF tool \in markedTools THEN 1 ELSE 0)
                                    + (IF tool \in forwardedResultIds THEN 1 ELSE 0)
    BY DEF PartsHold, Bridge!ResultsFollowCalls, Tagged
  <2>2. CASE tool \in fresh
    <3>1. PICK m \in 1..k : order[m] = tool
      BY <1>5, <2>2
    <3>2. m \in DOMAIN items /\ items[m].tool = tool
          /\ \A n \in DOMAIN items : items[n].tool = tool => n = m
      BY <1>5, <1>9, <1>10, <3>1
    <3>3. Bridge!Cardinality(Tagged(tool)') = Bridge!Cardinality(Tagged(tool)) + 1
      BY <1>8, <1>10, <3>2, AppendedTags DEF PartsHold
    <3>4. tool \in markedTools /\ tool \notin forwardedResultIds
      BY <1>6, <2>2
    <3> QED
      BY <1>1, <2>1, <2>2, <3>3, <3>4
  <2>3. CASE tool \notin fresh
    <3>1. \A n \in DOMAIN items : items[n].tool # tool
      BY <1>5, <1>9, <1>10, <2>3
    <3>2. Tagged(tool)' = Tagged(tool)
      BY <1>8, <1>10, <3>1, AppendedTags DEF PartsHold
    <3> QED
      BY <1>1, <2>1, <2>3, <3>2
  <2> QED
    BY <2>2, <2>3
<1>14. Bridge!ResultsFollowCalls'
  BY <1>13 DEF Bridge!ResultsFollowCalls, Tagged
<1> QED
  BY <1>11, <1>12, <1>14 DEF PartsHold

LEMMA PartsSteps ==
    ASSUME Bridge!BridgeAssumption, PartsHold, [Bridge!EBNext]_bridgeVars
    PROVE  PartsHold'
<1>0. ebInst.tools \subseteq Tools
  BY DEF PartsHold, PartsTyped, Bridge!BridgeAssumption
<1>1. CASE Bridge!MessageStart
  <2>1. PartsTyped' /\ Bridge!PartsFit'
    BY <1>1, MessageStartFits DEF PartsHold
  <2>2. /\ SameTags /\ markedTools' = markedTools /\ forwardedResultIds' = forwardedResultIds
    BY <1>1 DEF Bridge!MessageStart, SameTags, Tagged
  <2> QED
    BY <2>1, <2>2, TagsHold DEF PartsHold
<1>2. ASSUME NEW type \in Bridge!Types \cup {"ownTool"}, Bridge!BlockStart(type) PROVE PartsHold'
  <2>1. PartsTyped' /\ Bridge!PartsFit' /\ SameTags
    BY <1>2, BlockStartFits DEF PartsHold
  <2>2. markedTools' = markedTools /\ forwardedResultIds' = forwardedResultIds
    BY <1>2 DEF Bridge!BlockStart
  <2> QED
    BY <2>1, <2>2, TagsHold DEF PartsHold
<1>3. ASSUME NEW i \in DOMAIN open, Bridge!Delta(i) PROVE PartsHold'
  <2>1. PartsTyped' /\ Bridge!PartsFit' /\ SameTags
    BY <1>3, DeltaFits DEF PartsHold
  <2>2. markedTools' = markedTools /\ forwardedResultIds' = forwardedResultIds
    BY <1>3 DEF Bridge!Delta
  <2> QED
    BY <2>1, <2>2, TagsHold DEF PartsHold
<1>4. ASSUME NEW i \in DOMAIN open, Bridge!BlockStop(i) PROVE PartsHold'
  <2>1. PartsTyped' /\ Bridge!PartsFit' /\ SameTags
    BY <1>4, BlockStopFits DEF PartsHold
  <2>2. markedTools' = markedTools /\ forwardedResultIds' = forwardedResultIds
    BY <1>4 DEF Bridge!BlockStop
  <2> QED
    BY <2>1, <2>2, TagsHold DEF PartsHold
<1>5. CASE Bridge!MessageDelta
  BY <1>5, PartsRest DEF Bridge!MessageDelta
<1>6. CASE Bridge!CompactBoundary
  BY <1>6, NoticeHolds DEF Bridge!CompactBoundary
<1>7. CASE Bridge!Result
  <2>1. CASE Bridge!Appended(<<Bridge!Marker(None)>>)
    BY <1>7, <2>1, NoticeHolds DEF Bridge!Result
  <2>2. CASE UNCHANGED <<content, blocks>>
    BY <1>7, <2>2, PartsRest DEF Bridge!Result, PartsHold, PartsTyped
  <2> QED
    BY <1>7, <2>1, <2>2 DEF Bridge!Result
<1>8. ASSUME NEW tool \in ebInst.tools, Bridge!AssistantEnvelope(tool) PROVE PartsHold'
  BY <1>0, <1>8, AssistantEnvelopeHolds
<1>9. ASSUME NEW tools \in SUBSET ebInst.tools, Bridge!UserEnvelope(tools) PROVE PartsHold'
  BY <1>0, <1>9, UserEnvelopeHolds
<1>10. CASE UNCHANGED bridgeVars
  BY <1>10, PartsRest DEF bridgeVars, PartsHold, PartsTyped
<1> QED
  BY <1>1, <1>2, <1>3, <1>4, <1>5, <1>6, <1>7, <1>8, <1>9, <1>10 DEF Bridge!EBNext

LEMMA BridgeParts ==
    ASSUME Bridge!BridgeAssumption
    PROVE  Bridge!BridgeInv <=> BillTyped /\ Bridge!BillFits /\ PartsHold
BY DEF Bridge!BridgeInv, Bridge!EBTypeOK, BillTyped, PartsHold, PartsTyped, Blocks, Items

LEMMA BridgeStarts == ASSUME Bridge!BridgeAssumption, Bridge!EBInit PROVE Bridge!BridgeInv
<1>1. markedTools = {} /\ forwardedResultIds = {} /\ DOMAIN content = {}
  BY DEF Bridge!EBInit
<1>2. Bridge!ResultsFollowCalls
  <2> SUFFICES ASSUME NEW tool \in Tools
               PROVE  Bridge!Cardinality({n \in DOMAIN content : content[n].tool = tool}) = 0
    BY <1>1 DEF Bridge!ResultsFollowCalls
  <2>1. {n \in DOMAIN content : content[n].tool = tool} = {}
    BY <1>1
  <2> QED
    BY <2>1, FS_EmptySet, BridgeFinite
<1> QED
  BY <1>2, BillStarts, PartsStart, BridgeParts DEF PartsHold

(* Every step of the bridge keeps each part in its block, each result      *)
(* after its call, the usage as last reported and the gauge at the size of *)
(* the context (event-bridge.ts).                                          *)
THEOREM BridgeSteps ==
    ASSUME Bridge!BridgeAssumption, Bridge!BridgeInv, [Bridge!EBNext]_bridgeVars
    PROVE  Bridge!BridgeInv'
<1>1. BillTyped' /\ Bridge!BillFits'
  BY BridgeParts, BillSteps
<1>2. PartsHold'
  BY BridgeParts, PartsSteps
<1>3. Bridge!BridgeInv' <=> BillTyped' /\ Bridge!BillFits' /\ PartsHold'
  BY DEF Bridge!BridgeInv, Bridge!EBTypeOK, BillTyped, PartsHold, PartsTyped, Blocks, Items
<1> QED
  BY <1>1, <1>2, <1>3
==============================================================================
