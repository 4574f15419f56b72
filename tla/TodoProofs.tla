----------------------------- MODULE TodoProofs -----------------------------
(* Theorems about Todo: lists stay sound under every call, a replay of the  *)
(* branch gives the live list at every moment, one import runs at a time,   *)
(* the overlay stays bound to the running foreground session, and its       *)
(* widget shows what the list says.                                         *)
EXTENDS Todo, TLAPS

-----------------------------------------------------------------------------
(* The reducer keeps lists sound.                                           *)

\* A graph with fewer edges on the same nodes has a cycle only if the larger
\* one has.
LEMMA FewerEdges ==
    ASSUME NEW small, NEW large, DOMAIN small = DOMAIN large,
           \A n \in DOMAIN small : small[n] \subseteq large[n],
           ~Cyclic(large)
    PROVE  ~Cyclic(small)
BY DEF Cyclic

\* The empty list is sound.
LEMMA EmptySound == Sound(EMPTY_STATE)
BY DEF Sound, IsList, EMPTY_STATE, Task, Cyclic, Graph, Ids

\* A create that is not refused keeps the list sound: the new tasks wait for
\* old ones only, and no old one waits for them.
LEMMA CreateSound ==
    ASSUME NEW l, Sound(l),
           NEW specs \in Seq([blockedBy : SUBSET Nat, data : Data]),
           ~CreateError(l, specs)
    PROVE  Sound(Create(l, specs))
<1> DEFINE k == Create(l, specs)
           n == Len(specs)
<1>1. /\ l.nextId \in Nat \ {0} /\ n \in Nat /\ Ids(l) = 1 .. (l.nextId - 1)
      /\ DOMAIN specs = 1 .. n
  BY DEF Sound, IsList, Ids
<1>2. k.nextId = l.nextId + n /\ k.nextId \in Nat \ {0}
  BY <1>1 DEF Create
<1>3. DOMAIN k.tasks = 1 .. (k.nextId - 1)
  BY <1>1, <1>2 DEF Create, NewIds
<1>4. \A i \in Ids(l) : k.tasks[i] = l.tasks[i]
  BY <1>1 DEF Create
<1>5. \A i \in NewIds(l, n) :
        /\ k.tasks[i] = [status    |-> "pending",
                         blockedBy |-> specs[i - l.nextId + 1].blockedBy,
                         data      |-> specs[i - l.nextId + 1].data]
        /\ specs[i - l.nextId + 1].data \in Data
        /\ specs[i - l.nextId + 1].blockedBy \subseteq Ids(l)
  <2> SUFFICES ASSUME NEW i \in NewIds(l, n) PROVE
        /\ k.tasks[i] = [status    |-> "pending",
                         blockedBy |-> specs[i - l.nextId + 1].blockedBy,
                         data      |-> specs[i - l.nextId + 1].data]
        /\ specs[i - l.nextId + 1].data \in Data
        /\ specs[i - l.nextId + 1].blockedBy \subseteq Ids(l)
    OBVIOUS
  <2>1. i - l.nextId + 1 \in 1 .. n /\ i \notin Ids(l)
    BY <1>1 DEF NewIds
  <2>2. specs[i - l.nextId + 1] \in [blockedBy : SUBSET Nat, data : Data]
    <3> DEFINE R == [blockedBy : SUBSET Nat, data : Data]
    <3>1. specs \in Seq(R)
      OBVIOUS
    <3> HIDE DEF R
    <3>2. \A j \in 1 .. Len(specs) : specs[j] \in R
      BY <3>1
    <3> QED BY <2>1, <3>2 DEF R
  <2>3. specs[i - l.nextId + 1].blockedBy \subseteq Ids(l)
    BY <2>1, <1>1 DEF CreateError, NotBlocker
  <2> QED BY <2>1, <2>2, <2>3 DEF Create
<1>6. DOMAIN k.tasks = Ids(l) \cup NewIds(l, n) /\ Ids(l) \cap NewIds(l, n) = {}
  BY <1>1, <1>2, <1>3 DEF NewIds
<1>7. Ids(l) \subseteq 1 .. (k.nextId - 1)
  BY <1>1, <1>2
<1>8. \A i \in DOMAIN k.tasks : k.tasks[i] \in Task(1 .. (k.nextId - 1))
  <2>1. ASSUME NEW i \in Ids(l) PROVE k.tasks[i] \in Task(1 .. (k.nextId - 1))
    <3>1. l.tasks[i] \in Task(Ids(l))
      BY <1>1 DEF Sound, IsList
    <3> QED BY <3>1, <1>4, <1>7 DEF Task
  <2>2. ASSUME NEW i \in NewIds(l, n) PROVE k.tasks[i] \in Task(1 .. (k.nextId - 1))
    <3>1. PICK t \in {specs[i - l.nextId + 1]} :
            /\ k.tasks[i] = [status |-> "pending", blockedBy |-> t.blockedBy,
                             data |-> t.data]
            /\ t.data \in Data /\ t.blockedBy \subseteq Ids(l)
      BY <1>5
    <3>2. t.blockedBy \in SUBSET (1 .. (k.nextId - 1))
      BY <3>1, <1>7
    <3> QED BY <3>1, <3>2 DEF Task, Statuses
  <2> QED BY <2>1, <2>2, <1>6
<1>9. IsList(k)
  <2>1. k = [tasks |-> k.tasks, nextId |-> k.nextId]
    BY DEF Create
  <2>2. k.tasks = [i \in DOMAIN k.tasks |-> k.tasks[i]]
    BY DEF Create
  <2>3. k.tasks \in [1 .. (k.nextId - 1) -> Task(1 .. (k.nextId - 1))]
    BY <1>3, <1>8, <2>2
  <2> QED BY <1>2, <2>1, <2>3 DEF IsList
<1>10. ~Cyclic(Graph(k))
  <2> SUFFICES ASSUME NEW S \in SUBSET DOMAIN Graph(k), S # {},
                      \A i \in S : Graph(k)[i] \cap S # {}
               PROVE FALSE
    BY DEF Cyclic
  <2>1. DOMAIN Graph(k) = Ids(l) \cup NewIds(l, n) /\ DOMAIN Graph(l) = Ids(l)
    BY <1>6 DEF Graph, Ids
  <2>2. \A i \in Ids(l) : Graph(k)[i] = Graph(l)[i]
    BY <1>4, <1>6 DEF Graph, Ids
  <2>3. \A i \in Ids(l) : Graph(k)[i] \subseteq Ids(l)
    <3> SUFFICES ASSUME NEW i \in Ids(l) PROVE Graph(k)[i] \subseteq Ids(l)
      OBVIOUS
    <3>1. l.tasks[i] \in Task(Ids(l))
      BY <1>1 DEF Sound, IsList
    <3> QED BY <3>1, <2>2 DEF Graph, Task
  <2>4. \A i \in NewIds(l, n) : Graph(k)[i] \subseteq Ids(l)
    <3> SUFFICES ASSUME NEW i \in NewIds(l, n) PROVE Graph(k)[i] \subseteq Ids(l)
      OBVIOUS
    <3>1. Graph(k)[i] = k.tasks[i].blockedBy
      BY <1>6 DEF Graph, Ids
    <3>2. PICK t \in {specs[i - l.nextId + 1]} :
            /\ k.tasks[i] = [status |-> "pending", blockedBy |-> t.blockedBy,
                             data |-> t.data]
            /\ t.blockedBy \subseteq Ids(l)
      BY <1>5
    <3> QED BY <3>1, <3>2
  <2>5. PICK i \in S : TRUE
    OBVIOUS
  <2>6. S \cap Ids(l) # {}
    BY <2>1, <2>3, <2>4, <2>5
  <2>7. \A j \in S \cap Ids(l) : Graph(l)[j] \cap (S \cap Ids(l)) # {}
    BY <2>2, <2>3
  <2>8. Cyclic(Graph(l))
    BY <2>1, <2>6, <2>7 DEF Cyclic
  <2> QED BY <2>8 DEF Sound
<1> QED BY <1>9, <1>10 DEF Sound

\* Replacing a task by one whose blockers are tasks of the list.
LEMMA ReplaceIsList ==
    ASSUME NEW l, Sound(l), NEW id \in Ids(l), NEW t \in Task(Ids(l)),
           NEW k, k = [l EXCEPT !.tasks = [@ EXCEPT ![id] = t]]
    PROVE  /\ IsList(k)
           /\ DOMAIN Graph(k) = Ids(l)
           /\ \A i \in Ids(l) : Graph(k)[i] = IF i = id THEN t.blockedBy
                                              ELSE l.tasks[i].blockedBy
<1>1. /\ l.nextId \in Nat \ {0} /\ Ids(l) = 1 .. (l.nextId - 1)
      /\ l.tasks \in [Ids(l) -> Task(Ids(l))]
      /\ l = [tasks |-> l.tasks, nextId |-> l.nextId]
  BY DEF Sound, IsList, Ids
<1>2. k = [tasks |-> [l.tasks EXCEPT ![id] = t], nextId |-> l.nextId]
  BY <1>1
<1>3. k.tasks \in [Ids(l) -> Task(Ids(l))] /\ k.nextId = l.nextId
  BY <1>1, <1>2
<1>4. IsList(k)
  BY <1>1, <1>2, <1>3 DEF IsList
<1>5. DOMAIN Graph(k) = Ids(l)
  BY <1>3 DEF Graph, Ids
<1>6. \A i \in Ids(l) : Graph(k)[i] = IF i = id THEN t.blockedBy
                                      ELSE l.tasks[i].blockedBy
  BY <1>1, <1>2, <1>3 DEF Graph, Ids
<1> QED BY <1>4, <1>5, <1>6

\* An update that is not refused keeps the list sound: detectCycle looked at
\* no fewer edges than the updated list has.
LEMMA UpdateSound ==
    ASSUME NEW l, Sound(l), NEW id, NEW p,
           p.status \in Statuses, p.add \subseteq Nat, p.data \in Data,
           ~UpdateError(l, id, p)
    PROVE  Sound(Update(l, id, p))
<1> DEFINE t == [status |-> p.status, blockedBy |-> NewBlockedBy(l, id, p),
                 data |-> p.data]
           k == Update(l, id, p)
<1>1. id \in Ids(l) /\ p.add \subseteq Ids(l)
  BY DEF UpdateError, NotBlocker
<1>2. l.tasks[id] \in Task(Ids(l))
  BY <1>1 DEF Sound, IsList, Ids
<1>3. NewBlockedBy(l, id, p) \subseteq Ids(l)
  BY <1>1, <1>2 DEF NewBlockedBy, Task
<1>4. t \in Task(Ids(l)) /\ t.blockedBy = NewBlockedBy(l, id, p)
  BY <1>3 DEF Task
<1>5. k = [l EXCEPT !.tasks = [@ EXCEPT ![id] = t]]
  BY DEF Update
<1> HIDE DEF t, k
<1>6. /\ IsList(k) /\ DOMAIN Graph(k) = Ids(l)
      /\ \A i \in Ids(l) : Graph(k)[i] = IF i = id THEN t.blockedBy
                                         ELSE l.tasks[i].blockedBy
  BY <1>1, <1>4, <1>5, ReplaceIsList
<1>7. ~Cyclic(Graph(k))
  <2>1. CASE p.add = {}
    <3>1. DOMAIN Graph(l) = Ids(l)
      BY DEF Graph
    <3>2. \A i \in Ids(l) : Graph(k)[i] \subseteq Graph(l)[i]
      BY <1>4, <1>6, <2>1 DEF NewBlockedBy, Graph
    <3> QED BY <1>6, <3>1, <3>2, FewerEdges DEF Sound
  <2>2. CASE p.add # {}
    <3> DEFINE m == Merged(l, id, NewBlockedBy(l, id, p))
    <3>1. ~Cyclic(m)
      BY <2>2 DEF UpdateError, DetectCycle
    <3>2. DOMAIN m = Ids(l)
      BY DEF Merged
    <3>3. \A i \in Ids(l) : Graph(k)[i] \subseteq m[i]
      BY <1>4, <1>6 DEF Merged
    <3> HIDE DEF m
    <3> QED BY <1>6, <3>1, <3>2, <3>3, FewerEdges
  <2> QED BY <2>1, <2>2
<1> QED BY <1>6, <1>7 DEF Sound, k

\* A delete keeps the list sound.
LEMMA DeleteSound ==
    ASSUME NEW l, Sound(l), NEW id, ~DeleteError(l, id)
    PROVE  Sound(Delete(l, id))
<1> DEFINE t == [status |-> "deleted", blockedBy |-> l.tasks[id].blockedBy,
                 data |-> l.tasks[id].data]
           k == Delete(l, id)
<1>1. id \in Ids(l)
  BY DEF DeleteError
<1>2. l.tasks[id] \in Task(Ids(l))
  BY <1>1 DEF Sound, IsList, Ids
<1>3. t \in Task(Ids(l)) /\ t.blockedBy = l.tasks[id].blockedBy
  BY <1>2 DEF Task, Statuses
<1>4. k = [l EXCEPT !.tasks = [@ EXCEPT ![id] = t]]
  BY DEF Delete
<1> HIDE DEF t, k
<1>5. /\ IsList(k) /\ DOMAIN Graph(k) = Ids(l)
      /\ \A i \in Ids(l) : Graph(k)[i] = IF i = id THEN t.blockedBy
                                         ELSE l.tasks[i].blockedBy
  BY <1>1, <1>3, <1>4, ReplaceIsList
<1>6. \A i \in Ids(l) : Graph(k)[i] \subseteq Graph(l)[i]
  BY <1>3, <1>5 DEF Graph
<1>7. DOMAIN Graph(l) = Ids(l)
  BY DEF Graph
<1> QED BY <1>5, <1>6, <1>7, FewerEdges DEF Sound, k

-----------------------------------------------------------------------------
(* Replay.                                                                  *)

SoundLists ==
    {l \in [tasks : UNION {[1 .. n -> Task(1 .. n)] : n \in Nat}, nextId : Nat] :
        Sound(l)}

Entry == [kind : {"state", "result"}, list : SoundLists]

\* The sound lists are a set.
LEMMA InSoundLists == ASSUME NEW l, Sound(l) PROVE l \in SoundLists
<1>1. /\ l.nextId - 1 \in Nat
      /\ l.tasks \in [1 .. (l.nextId - 1) -> Task(1 .. (l.nextId - 1))]
      /\ l = [tasks |-> l.tasks, nextId |-> l.nextId]
      /\ l.nextId \in Nat
  BY DEF Sound, IsList
<1>2. l.tasks \in UNION {[1 .. n -> Task(1 .. n)] : n \in Nat}
  BY <1>1
<1> QED BY <1>1, <1>2 DEF SoundLists

LEMMA ListsAreSound == \A l \in SoundLists : Sound(l)
BY DEF SoundLists

\* A replay gives one list at most, and a sound one.
LEMMA ReplayUnique ==
    ASSUME NEW b \in Seq(Entry), NEW x \in Replayed(b), NEW y \in Replayed(b)
    PROVE  x = y /\ x \in SoundLists
<1>1. \A kind : \A i, j \in Latest(b, kind) : i = j
  BY DEF Latest
<1>2. \A kind : \A i \in Latest(b, kind) : b[i].list \in SoundLists
  <2>1. \A i \in DOMAIN b : b[i] \in Entry
    OBVIOUS
  <2>2. \A e \in Entry : e.list \in SoundLists
    BY DEF Entry
  <2> QED BY <2>1, <2>2 DEF Latest
<1>3. EMPTY_STATE \in SoundLists
  BY EmptySound, InSoundLists
<1> QED BY <1>1, <1>2, <1>3 DEF Replayed

\* After a state entry was appended, a replay gives its list.
LEMMA ReplayState ==
    ASSUME NEW b \in Seq(Entry), NEW l,
           NEW c, c = Append(b, [kind |-> "state", list |-> l])
    PROVE  Has(c, "state") /\ l \in Replayed(c)
<1>1. /\ Len(c) = Len(b) + 1 /\ DOMAIN c = 1 .. Len(c) /\ Len(b) \in Nat
      /\ c[Len(c)] = [kind |-> "state", list |-> l]
  OBVIOUS
<1>2. Len(c) \in Latest(c, "state")
  BY <1>1 DEF Latest
<1>3. Has(c, "state")
  BY <1>1 DEF Has
<1> QED BY <1>1, <1>2, <1>3 DEF Replayed

\* A result changes a replay only while the branch has no state entry.
LEMMA ReplayResult ==
    ASSUME NEW b \in Seq(Entry), NEW l,
           NEW c, c = Append(b, [kind |-> "result", list |-> l])
    PROVE  /\ Has(c, "state") <=> Has(b, "state")
           /\ Has(b, "state") => Replayed(c) = Replayed(b)
           /\ ~Has(b, "state") => l \in Replayed(c)
<1>1. /\ Len(c) = Len(b) + 1 /\ DOMAIN c = 1 .. Len(c) /\ Len(b) \in Nat
      /\ DOMAIN b = 1 .. Len(b)
      /\ c[Len(c)] = [kind |-> "result", list |-> l]
      /\ \A i \in DOMAIN b : c[i] = b[i]
  OBVIOUS
<1>2. Has(c, "state") <=> Has(b, "state")
  BY <1>1 DEF Has
<1>3. Latest(c, "state") = Latest(b, "state")
  BY <1>1 DEF Latest
<1>4. {c[i].list : i \in Latest(c, "state")} = {b[i].list : i \in Latest(b, "state")}
  BY <1>1, <1>3 DEF Latest
<1>5. Has(c, "result") /\ Len(c) \in Latest(c, "result")
  BY <1>1 DEF Has, Latest
<1>6. Has(b, "state") => Replayed(c) = Replayed(b)
  BY <1>2, <1>4 DEF Replayed
<1>7. ~Has(b, "state") => Replayed(c) = {c[i].list : i \in Latest(c, "result")}
  BY <1>2, <1>5 DEF Replayed
<1>8. c[Len(c)].list = l
  BY <1>1
<1> QED BY <1>2, <1>5, <1>6, <1>7, <1>8

-----------------------------------------------------------------------------
(* The lists, the branches and the results under way.                       *)

ListTypes ==
    /\ conf \in Scenarios
    /\ life \in [Sessions -> {"off", "live", "stale"}]
    /\ branch \in [Sessions -> Seq(Entry)]
    /\ landing \in [Sessions -> SUBSET SoundLists]
    /\ mem \in [Sessions -> SoundLists \cup {None}]

\* A running session has a slot; one that is off has no results under way.
SlotFilled == \A s \in Sessions : life[s] # "off" => mem[s] \in SoundLists
NothingLands == \A s \in Sessions : life[s] = "off" => landing[s] = {}

\* While the branch has no state entry, no call has changed the list: what
\* is still to land repeats it.
LandingIsMemory ==
    \A s \in Sessions :
        life[s] # "off" /\ ~Has(branch[s], "state") => landing[s] \subseteq {mem[s]}

ListInv == /\ ListTypes /\ SlotFilled /\ NothingLands
           /\ LandingIsMemory /\ MemoryIsReplay

LEMMA ListInit == Init => ListInv
<1> SUFFICES ASSUME Init PROVE ListInv
  OBVIOUS
<1>1. \A s \in Sessions : branch[s] \in Seq(Entry)
  <2> SUFFICES ASSUME NEW s \in Sessions PROVE branch[s] \in Seq(Entry)
    OBVIOUS
  <2>1. CASE branch[s] = <<>>
    BY <2>1
  <2>2. CASE branch[s] \in conf.start
    <3> DEFINE b == branch[s]
    <3>1. IsBranch(b)
      BY <2>2, ScenariosAssumption DEF Init
    <3> HIDE DEF b
    <3>2. \A i \in DOMAIN b : b[i] \in Entry
      BY <3>1, InSoundLists DEF IsBranch, Entry
    <3>3. b \in Seq({b[i] : i \in DOMAIN b}) /\ {b[i] : i \in DOMAIN b} \subseteq Entry
      BY <3>1, <3>2 DEF IsBranch
    <3>4. b \in Seq(Entry)
      BY <3>2, <3>3
    <3> QED BY <3>4 DEF b
  <2> QED BY <2>1, <2>2 DEF Init
<1>2. branch = [s \in Sessions |-> branch[s]]
  BY DEF Init
<1>3. branch \in [Sessions -> Seq(Entry)]
  BY <1>1, <1>2
<1> QED BY <1>3 DEF Init, ListInv, ListTypes, SlotFilled, NothingLands,
                    LandingIsMemory, MemoryIsReplay

\* A call keeps the invariant if it commits a sound list and appends every
\* list that is not the one it found.
LEMMA ExecuteKeeps ==
    ASSUME ListInv, NEW s \in Sessions, NEW list \in SoundLists,
           NEW persist \in BOOLEAN, persist \/ list = mem[s],
           Execute(s, list, persist)
    PROVE  ListInv'
<1>1. /\ life[s] = "live" /\ life' = life /\ conf' = conf
      /\ mem' = [mem EXCEPT ![s] = list]
      /\ landing' \in [Sessions -> SUBSET SoundLists]
      /\ landing'[s] \subseteq landing[s] \cup {list}
      /\ \A r \in Sessions \ {s} : landing'[r] = landing[r]
  BY DEF Execute, ListInv, ListTypes
<1>2. /\ branch' = [branch EXCEPT ![s] =
                      IF persist THEN Append(@, [kind |-> "state", list |-> list])
                                 ELSE @]
      /\ branch' \in [Sessions -> Seq(Entry)]
  <2>1. CASE persist
    <3>1. branch' = [branch EXCEPT ![s] =
                       Append(@, [kind |-> "state", list |-> list])]
      BY <2>1 DEF Execute
    <3>2. Append(branch[s], [kind |-> "state", list |-> list]) \in Seq(Entry)
      <4>1. [kind |-> "state", list |-> list] \in Entry
        BY DEF Entry
      <4>2. branch[s] \in Seq(Entry)
        BY DEF ListInv, ListTypes
      <4> QED BY <4>1, <4>2
    <3> QED BY <2>1, <3>1, <3>2 DEF ListInv, ListTypes
  <2>2. CASE ~persist
    BY <2>2 DEF Execute, ListInv, ListTypes
  <2> QED BY <2>1, <2>2
<1>3. ListTypes'
  BY <1>1, <1>2 DEF ListInv, ListTypes
<1>4. SlotFilled' /\ NothingLands'
  BY <1>1 DEF ListInv, ListTypes, SlotFilled, NothingLands
<1>5. \A r \in Sessions \ {s} : branch'[r] = branch[r] /\ mem'[r] = mem[r]
  BY <1>1, <1>2 DEF ListInv, ListTypes
<1>6. mem'[s] = list /\ branch'[s] = IF persist
        THEN Append(branch[s], [kind |-> "state", list |-> list]) ELSE branch[s]
  BY <1>1, <1>2 DEF ListInv, ListTypes
<1>7. persist => Has(branch'[s], "state") /\ list \in Replayed(branch'[s])
  BY <1>6, ReplayState DEF ListInv, ListTypes
<1>8. ~persist => list = mem[s] /\ branch'[s] = branch[s]
  BY <1>6
<1>9. LandingIsMemory'
  BY <1>1, <1>5, <1>6, <1>7, <1>8 DEF ListInv, LandingIsMemory
<1>10. MemoryIsReplay'
  BY <1>1, <1>5, <1>6, <1>7, <1>8 DEF ListInv, MemoryIsReplay
<1> QED BY <1>3, <1>4, <1>9, <1>10 DEF ListInv

\* Every call of the tool.
LEMMA CallKeeps ==
    ASSUME ListInv, NEW s \in Sessions, Call(s) PROVE ListInv'
<1>1. life[s] = "live" => mem[s] \in SoundLists /\ Sound(mem[s])
  BY ListsAreSound DEF ListInv, SlotFilled
<1>2. conf \in Scenarios
  BY DEF ListInv, ListTypes
<1>3. ASSUME NEW specs \in conf.specs, CreateTasks(s, specs) PROVE ListInv'
  <2>1. specs \in Seq([blockedBy : SUBSET Nat, data : Data])
    BY <1>2, ScenariosAssumption
  <2>2. Create(mem[s], specs) \in SoundLists
    BY <1>1, <1>3, <2>1, CreateSound, InSoundLists DEF CreateTasks
  <2> QED BY <1>3, <2>2, ExecuteKeeps DEF CreateTasks
<1>4. ASSUME NEW id, DeleteTask(s, id) PROVE ListInv'
  <2>1. Delete(mem[s], id) \in SoundLists
    BY <1>1, <1>4, DeleteSound, InSoundLists DEF DeleteTask
  <2> QED BY <1>4, <2>1, ExecuteKeeps DEF DeleteTask
<1>5. ASSUME NEW id, NEW p \in conf.changes, UpdateTask(s, id, p) PROVE ListInv'
  <2>1. p.status \in Statuses /\ p.add \subseteq Nat /\ p.data \in Data
    BY <1>2, ScenariosAssumption
  <2>2. Update(mem[s], id, p) \in SoundLists
    BY <1>1, <1>5, <2>1, UpdateSound, InSoundLists DEF UpdateTask
  <2> DEFINE list == Update(mem[s], id, p)
             persist == list # mem[s]
  <2>3. Execute(s, list, persist) /\ persist \in BOOLEAN
        /\ (persist \/ list = mem[s])
    BY <1>5 DEF UpdateTask
  <2> HIDE DEF list, persist
  <2>4. list \in SoundLists
    BY <2>2 DEF list
  <2> QED BY <2>3, <2>4, ExecuteKeeps
<1>6. CASE ClearTasks(s)
  BY <1>6, EmptySound, InSoundLists, ExecuteKeeps DEF ClearTasks
<1>7. CASE LeaveTasks(s)
  BY <1>1, <1>7, ExecuteKeeps DEF LeaveTasks
<1> QED BY <1>3, <1>4, <1>5, <1>6, <1>7 DEF Call

\* The session events.
LEMMA LandKeeps ==
    ASSUME ListInv, NEW s \in Sessions, Land(s) PROVE ListInv'
<1>1. PICK l \in landing[s] :
        /\ landing' = [landing EXCEPT ![s] = @ \ {l}]
        /\ branch' = [branch EXCEPT ![s] =
                        Append(@, [kind |-> "result", list |-> l])]
  BY DEF Land
<1> DEFINE c == Append(branch[s], [kind |-> "result", list |-> l])
<1>2. branch[s] \in Seq(Entry) /\ l \in SoundLists
  BY DEF ListInv, ListTypes
<1>3. c \in Seq(Entry)
  BY <1>2 DEF Entry
<1>4. /\ Has(c, "state") <=> Has(branch[s], "state")
      /\ Has(branch[s], "state") => Replayed(c) = Replayed(branch[s])
      /\ ~Has(branch[s], "state") => l \in Replayed(c)
  BY <1>2, ReplayResult
<1> HIDE DEF c
<1>5. /\ branch' = [branch EXCEPT ![s] = c]
      /\ life' = life /\ mem' = mem /\ conf' = conf
  BY <1>1 DEF Land, c
<1>6. ListTypes'
  BY <1>1, <1>3, <1>5 DEF ListInv, ListTypes
<1>7. SlotFilled' /\ NothingLands'
  BY <1>1, <1>5 DEF ListInv, ListTypes, SlotFilled, NothingLands
<1>8. LandingIsMemory'
  BY <1>1, <1>4, <1>5 DEF ListInv, ListTypes, LandingIsMemory
<1>9. life[s] # "off" /\ ~Has(branch[s], "state") => l = mem[s]
  BY DEF ListInv, LandingIsMemory
<1>10. MemoryIsReplay'
  BY <1>4, <1>5, <1>9 DEF ListInv, ListTypes, MemoryIsReplay
<1> QED BY <1>6, <1>7, <1>8, <1>10 DEF ListInv

LEMMA SessionStartKeeps ==
    ASSUME ListInv, NEW s \in Sessions, SessionStart(s) PROVE ListInv'
<1>1. PICK l \in Replayed(branch[s]) : mem' = [mem EXCEPT ![s] = l]
  BY DEF SessionStart
<1>2. l \in SoundLists
  BY ReplayUnique DEF ListInv, ListTypes
<1>3. /\ life[s] = "off" /\ life' = [life EXCEPT ![s] = "live"]
      /\ conf' = conf /\ branch' = branch /\ landing' = landing
  BY DEF SessionStart
<1>4. ListTypes'
  BY <1>1, <1>2, <1>3 DEF ListInv, ListTypes
<1>5. SlotFilled' /\ NothingLands' /\ LandingIsMemory' /\ MemoryIsReplay'
  BY <1>1, <1>2, <1>3 DEF ListInv, ListTypes, SlotFilled, NothingLands,
                          LandingIsMemory, MemoryIsReplay
<1> QED BY <1>4, <1>5 DEF ListInv

\* With the whole branch kept, the replay gives the list the session holds.
LEMMA ReplayAndRefreshKeeps ==
    ASSUME ListInv, NEW s \in Sessions, NEW n \in 0 .. Len(branch[s]),
           ReplayAndRefresh(s, n)
    PROVE  ListInv'
<1>1. branch[s] \in Seq(Entry) /\ Len(branch[s]) \in Nat /\ life[s] = "live"
  BY DEF ListInv, ListTypes, ReplayAndRefresh
<1> DEFINE c == SubSeq(branch[s], 1, n)
<1>2. c \in Seq(Entry)
  BY <1>1
<1>3. n = Len(branch[s]) => c = branch[s]
  BY <1>1
<1> HIDE DEF c
<1>4. /\ branch' = [branch EXCEPT ![s] = c]
      /\ life' = life /\ landing' = landing /\ conf' = conf
  BY DEF ReplayAndRefresh, c
<1>5. branch'[s] = c
  BY <1>4 DEF ListInv, ListTypes
<1>6. PICK l \in Replayed(c) : mem' = [mem EXCEPT ![s] = l]
  BY <1>5 DEF ReplayAndRefresh
<1>7. l \in SoundLists
  BY <1>2, ReplayUnique
<1>8. ListTypes'
  BY <1>2, <1>4, <1>6, <1>7 DEF ListInv, ListTypes
<1>9. SlotFilled' /\ NothingLands'
  BY <1>4, <1>6, <1>7 DEF ListInv, ListTypes, SlotFilled, NothingLands
<1>10. MemoryIsReplay'
  BY <1>4, <1>5, <1>6 DEF ListInv, ListTypes, MemoryIsReplay
<1>11. LandingIsMemory'
  <2>1. CASE n = Len(branch[s])
    <3>1. l = mem[s]
      BY <1>1, <1>3, <2>1, ReplayUnique DEF ListInv, MemoryIsReplay
    <3> QED BY <1>3, <1>4, <1>6, <2>1, <3>1 DEF ListInv, ListTypes, LandingIsMemory
  <2>2. CASE n < Len(branch[s])
    <3>1. landing[s] = {}
      BY <2>2 DEF ReplayAndRefresh
    <3> QED BY <1>4, <1>6, <3>1 DEF ListInv, ListTypes, LandingIsMemory
  <2> QED BY <1>1, <2>1, <2>2
<1> QED BY <1>8, <1>9, <1>10, <1>11 DEF ListInv

LEMMA SessionShutdownKeeps ==
    ASSUME ListInv, NEW s \in Sessions, SessionShutdown(s) PROVE ListInv'
<1>1. /\ life' = [life EXCEPT ![s] = "off"] /\ conf' = conf /\ branch' = branch
      /\ landing' = [landing EXCEPT ![s] = {}]
      /\ mem' = [mem EXCEPT ![s] = IF life[s] = "live" THEN None ELSE @]
  BY DEF SessionShutdown, ListInv, ListTypes
<1>2. ListTypes'
  BY <1>1 DEF ListInv, ListTypes
<1> QED BY <1>1, <1>2 DEF ListInv, ListTypes, SlotFilled, NothingLands,
                          LandingIsMemory, MemoryIsReplay

LEMMA InvalidateKeeps ==
    ASSUME ListInv, NEW s \in Sessions, Invalidate(s) PROVE ListInv'
BY DEF Invalidate, ListInv, ListTypes, SlotFilled, NothingLands,
       LandingIsMemory, MemoryIsReplay

LEMMA CrashKeeps == ASSUME ListInv, Crash PROVE ListInv'
BY DEF Crash, ListInv, ListTypes, SlotFilled, NothingLands,
       LandingIsMemory, MemoryIsReplay

\* The rest leaves the lists and the branches alone.
LEMMA ListStep == ListInv /\ [Next]_vars => ListInv'
<1> SUFFICES ASSUME ListInv, [Next]_vars PROVE ListInv'
  OBVIOUS
<1>1. CASE UNCHANGED <<conf, life, branch, landing, mem>>
  BY <1>1 DEF ListInv, ListTypes, SlotFilled, NothingLands, LandingIsMemory,
              MemoryIsReplay
<1>2. CASE Loader
  BY <1>1, <1>2 DEF Loader, Prewarm, Settle, Continue, sessionVars
<1>3. CASE RenderWidget \/ AgentStart
  BY <1>1, <1>3 DEF RenderWidget, AgentStart, sessionVars
<1>4. ASSUME NEW s \in Sessions, Session(s) PROVE ListInv'
  <2>1. CASE ToolEnd(s)
    BY <1>1, <2>1 DEF ToolEnd
  <2> QED BY <1>4, <2>1, LandKeeps, SessionStartKeeps, ReplayAndRefreshKeeps,
             SessionShutdownKeeps, InvalidateKeeps DEF Session
<1>5. CASE UNCHANGED vars
  BY <1>1, <1>5 DEF vars, sessionVars
<1> QED BY <1>2, <1>3, <1>4, <1>5, CallKeeps, CrashKeeps DEF Next

-----------------------------------------------------------------------------
(* The loader.                                                              *)

\* An import that has not settled is the one the loader remembers.
ImportInv ==
    /\ imports \in Seq({"loading", "ok", "failed", "bad"})
    /\ memo \in Nat
    /\ \A i \in DOMAIN imports : imports[i] = "loading" => memo = i

LEMMA LoadKeeps ==
    ASSUME ImportInv, NEW w, NEW r, Load(w, r) PROVE ImportInv'
<1>1. CASE UNCHANGED <<memo, imports>>
  BY <1>1 DEF ImportInv
<1>2. CASE /\ memo = 0
           /\ imports' = Append(imports, "loading")
           /\ memo' = Len(imports')
  <2>1. imports' \in Seq({"loading", "ok", "failed", "bad"})
    BY <1>2 DEF ImportInv
  <2>2. /\ Len(imports) \in Nat /\ Len(imports') = Len(imports) + 1
        /\ DOMAIN imports = 1 .. Len(imports)
        /\ DOMAIN imports' = 1 .. Len(imports')
        /\ \A i \in DOMAIN imports : imports'[i] = imports[i]
    BY <1>2 DEF ImportInv
  <2>3. \A i \in DOMAIN imports : imports[i] # "loading"
    BY <1>2, <2>2 DEF ImportInv
  <2>4. \A i \in DOMAIN imports' : imports'[i] = "loading" => i = Len(imports')
    BY <2>2, <2>3
  <2> QED BY <1>2, <2>1, <2>2, <2>4 DEF ImportInv
<1> QED BY <1>1, <1>2 DEF Load

LEMMA BeginUpdateKeeps ==
    ASSUME ImportInv, NEW r, BeginUpdate(r) PROVE ImportInv'
<1>1. CASE UNCHANGED <<memo, imports>>
  BY <1>1 DEF ImportInv
<1> QED BY <1>1, LoadKeeps DEF BeginUpdate

LEMMA ImportStep == ImportInv /\ [Next]_vars => ImportInv'
<1> SUFFICES ASSUME ImportInv, [Next]_vars PROVE ImportInv'
  OBVIOUS
<1>1. CASE UNCHANGED <<memo, imports>>
  BY <1>1 DEF ImportInv
<1>2. CASE Prewarm
  BY <1>2, LoadKeeps DEF Prewarm
<1>3. ASSUME NEW i \in DOMAIN imports, NEW o \in {"ok", "failed", "bad"}, Settle(i, o)
      PROVE  ImportInv'
  BY <1>3 DEF Settle, ImportInv
<1>4. ASSUME NEW w \in waiting, Continue(w) PROVE ImportInv'
  <2>1. imports[w.import] # "loading" /\ imports' = imports
        /\ (memo' = memo \/ (memo' = 0 /\ memo = w.import))
    BY <1>4 DEF Continue
  <2> QED BY <2>1 DEF ImportInv
<1>5. ASSUME NEW s \in Sessions, Call(s) PROVE ImportInv'
  BY <1>1, <1>5 DEF Call, CreateTasks, UpdateTask, DeleteTask, ClearTasks,
                    LeaveTasks, Execute, loaderVars
<1>6. ASSUME NEW s \in Sessions, Session(s) PROVE ImportInv'
  <2>1. CASE SessionStart(s)
    BY <1>1, <2>1, BeginUpdateKeeps DEF SessionStart, loaderVars
  <2>2. ASSUME NEW n, ReplayAndRefresh(s, n) PROVE ImportInv'
    BY <1>1, <2>2, BeginUpdateKeeps DEF ReplayAndRefresh, loaderVars
  <2>3. CASE ToolEnd(s)
    BY <2>3, BeginUpdateKeeps DEF ToolEnd
  <2>4. CASE Land(s) \/ Invalidate(s) \/ SessionShutdown(s)
    BY <1>1, <2>4 DEF Land, Invalidate, SessionShutdown, loaderVars
  <2> QED BY <1>6, <2>1, <2>2, <2>3, <2>4 DEF Session
<1>7. CASE Crash
  BY <1>7 DEF Crash, ImportInv
<1>8. CASE RenderWidget \/ AgentStart \/ UNCHANGED vars
  BY <1>1, <1>8 DEF RenderWidget, AgentStart, vars, loaderVars
<1> QED BY <1>2, <1>3, <1>4, <1>5, <1>6, <1>7, <1>8 DEF Next, Loader

-----------------------------------------------------------------------------
(* The foreground and its overlay.                                          *)

ScreenInv == fg \in Sessions \cup {None} /\ OverlayBound

\* The overlay is only ever given the bound UI.
LEMMA ContinueKeepsScreen ==
    ASSUME ScreenInv, NEW w, Continue(w) PROVE ScreenInv'
<1>1. fg' = fg /\ uiCtx' = uiCtx /\ life' = life
  BY DEF Continue, sessionVars
<1>2. CASE overlay' = overlay /\ shown' = shown
  BY <1>1, <1>2 DEF ScreenInv, OverlayBound
<1>3. CASE Refresh(w.reset) /\ uiCtx # None
  <2>1. overlay' = uiCtx /\ shown' \subseteq shown \cup {uiCtx}
    BY <1>3 DEF Refresh
  <2>2. shown \subseteq {uiCtx}
    BY <1>3 DEF ScreenInv, OverlayBound
  <2> QED BY <1>1, <1>3, <2>1, <2>2 DEF ScreenInv, OverlayBound
<1> QED BY <1>2, <1>3 DEF Continue

\* While the foreground is unclaimed nothing is bound; a new foreground binds
\* its own UI.
LEMMA StartKeepsScreen ==
    ASSUME ListTypes, ScreenInv, NEW s \in Sessions, SessionStart(s)
    PROVE  ScreenInv'
<1>1. /\ life[s] = "off" /\ life' = [life EXCEPT ![s] = "live"]
      /\ overlay' = overlay /\ shown' = shown
      /\ fg' = fg \/ (fg = None /\ fg' = s)
      /\ uiCtx' = uiCtx \/ (fg' = s /\ uiCtx' = s)
  BY DEF SessionStart
<1>2. fg # s
  BY <1>1, NoneAssumption DEF ScreenInv, OverlayBound
<1>3. fg = None => uiCtx = None /\ overlay = None /\ shown = {}
  BY DEF ScreenInv, OverlayBound
<1>4. fg' \in Sessions \cup {None} /\ (fg' # None => life'[fg'] # "off")
  BY <1>1 DEF ScreenInv, OverlayBound, ListTypes
<1>5. CASE fg' = fg
  BY <1>1, <1>2, <1>4, <1>5 DEF ScreenInv, OverlayBound
<1>6. CASE fg = None /\ fg' = s
  BY <1>1, <1>3, <1>4, <1>6 DEF ScreenInv, OverlayBound
<1> QED BY <1>1, <1>5, <1>6

\* A shutdown of the foreground unbinds everything; another session's leaves
\* the foreground alone.
LEMMA ShutdownKeepsScreen ==
    ASSUME ListTypes, ScreenInv, NEW s \in Sessions, SessionShutdown(s)
    PROVE  ScreenInv'
<1>1. life' = [life EXCEPT ![s] = "off"]
  BY DEF SessionShutdown
<1>2. CASE life[s] = "stale" \/ fg = s
  <2>1. fg' = None /\ uiCtx' = None /\ overlay' = None /\ shown' = shown \ {overlay, s}
    BY <1>2 DEF SessionShutdown
  <2> QED BY <2>1 DEF ScreenInv, OverlayBound
<1>3. CASE ~(life[s] = "stale" \/ fg = s)
  <2>1. fg' = fg /\ uiCtx' = uiCtx /\ overlay' = overlay /\ shown' = shown \ {s}
    BY <1>3 DEF SessionShutdown
  <2>2. fg \in Sessions => life'[fg] = life[fg]
    BY <1>1, <1>3 DEF ListTypes
  <2> QED BY <2>1, <2>2 DEF ScreenInv, OverlayBound
<1> QED BY <1>2, <1>3

LEMMA ScreenStep == ListTypes /\ ScreenInv /\ [Next]_vars => ScreenInv'
<1> SUFFICES ASSUME ListTypes, ScreenInv, [Next]_vars PROVE ScreenInv'
  OBVIOUS
<1>1. CASE UNCHANGED <<life, fg, uiCtx, overlay, shown>>
  BY <1>1 DEF ScreenInv, OverlayBound
<1>2. CASE Loader
  BY <1>1, <1>2, ContinueKeepsScreen DEF Loader, Prewarm, Settle, sessionVars, screenVars
<1>3. ASSUME NEW s \in Sessions, Call(s) PROVE ScreenInv'
  BY <1>1, <1>3 DEF Call, CreateTasks, UpdateTask, DeleteTask, ClearTasks,
                    LeaveTasks, Execute, screenVars
<1>4. ASSUME NEW s \in Sessions, Session(s) PROVE ScreenInv'
  <2>1. CASE Invalidate(s)
    BY <2>1 DEF Invalidate, screenVars, ListTypes, ScreenInv, OverlayBound
  <2>2. CASE ToolEnd(s) \/ Land(s)
    BY <1>1, <2>2 DEF ToolEnd, Land, screenVars
  <2>3. ASSUME NEW n, ReplayAndRefresh(s, n) PROVE ScreenInv'
    BY <1>1, <2>3 DEF ReplayAndRefresh, screenVars
  <2> QED BY <1>4, <2>1, <2>2, <2>3, StartKeepsScreen, ShutdownKeepsScreen DEF Session
<1>5. CASE Crash
  BY <1>5 DEF Crash, ScreenInv, OverlayBound
<1>6. CASE RenderWidget \/ AgentStart \/ UNCHANGED vars
  BY <1>1, <1>6 DEF RenderWidget, AgentStart, vars, sessionVars, screenVars
<1> QED BY <1>2, <1>3, <1>4, <1>5, <1>6 DEF Next

IInv == ListInv /\ ImportInv /\ ScreenInv

-----------------------------------------------------------------------------
(* The widget says what the foreground's list holds.  A call made through   *)
(* another tool is followed by no tool_execution_end of its own, so nothing *)
(* refreshes the overlay after it: the theorem is about scenarios in which  *)
(* a session with a UI has only the model's own calls.                      *)

CallsEnd == \A c \in Scenarios : c.hasUI # {} => "nested" \notin c.calls

\* No call and no update of the present generation is under way, and no
\* import was lost.
Settled ==
    /\ uiCtx # None /\ fg \notin ends
    /\ \A w \in waiting : w.prewarm \/ w.generation # generation
    /\ \A i \in DOMAIN imports : imports[i] \in {"loading", "ok"}

\* What the widget shows is what it would show after another look at list l.
Fits(d, l, held) ==
    /\ OverlayTasks(Snapshot(d, l), l) # {} => held
    /\ held => Visible(l) # {}

Current == Fits(display, RenderState(fg, mem), uiCtx \in shown)

DisplayShape ==
    display = [pending |-> display.pending, hidden |-> display.hidden,
               lastNextId |-> display.lastNextId]

\* What is awaited, or remembered, is an import.
WaitersInv ==
    /\ memo = 0 \/ memo \in DOMAIN imports
    /\ \A w \in waiting : w.import \in DOMAIN imports

RefreshInv == /\ DisplayShape /\ WaitersInv
              /\ fg # None => fg \in conf.hasUI
              /\ Settled => Current

\* A second look at the same list changes nothing, and hidden tasks stay so.
LEMMA SecondLook ==
    ASSUME NEW d, NEW l, l.nextId \in Nat
    PROVE  /\ Snapshot(Snapshot(d, l), l).hidden = Snapshot(d, l).hidden
           /\ OverlayTasks(Snapshot(d, l), l) \subseteq Visible(l)
<1>1. Snapshot(d, l).lastNextId = l.nextId
      /\ (Snapshot(d, l).hidden = {} \/ Snapshot(d, l).hidden = d.hidden \cap Completed(l))
  BY DEF Snapshot, NoDisplay
<1> QED BY <1>1 DEF Snapshot, NoDisplay, OverlayTasks

\* The list that is rendered has a nextId.
LEMMA RenderedIsList == ListTypes => RenderState(fg, mem).nextId \in Nat
<1>1. \A l \in SoundLists : l.nextId \in Nat
  BY DEF SoundLists
<1> QED BY <1>1 DEF ListTypes, RenderState, EMPTY_STATE

\* A refresh makes the widget fit; so does a new look, or a new turn.
LEMMA RefreshFits ==
    ASSUME ListTypes, NEW reset, Refresh(reset), UNCHANGED <<fg, mem, uiCtx>>
    PROVE  Current'
<1> DEFINE l == RenderState(fg, mem)
           d == IF reset THEN NoDisplay ELSE display
<1>1. l.nextId \in Nat
  BY RenderedIsList
<1>2. /\ display' = Snapshot(d, l)
      /\ shown' = IF OverlayTasks(display', l) = {} THEN shown \ {uiCtx} ELSE shown \cup {uiCtx}
      /\ RenderState(fg', mem') = l /\ uiCtx' = uiCtx
  BY DEF Refresh
<1> HIDE DEF l, d
<1>3. Snapshot(Snapshot(d, l), l).hidden = Snapshot(d, l).hidden
      /\ OverlayTasks(Snapshot(d, l), l) \subseteq Visible(l)
  BY <1>1, SecondLook
<1>4. OverlayTasks(Snapshot(display', l), l) = OverlayTasks(display', l)
  BY <1>2, <1>3 DEF OverlayTasks
<1>5. uiCtx' \in shown' <=> OverlayTasks(display', l) # {}
  BY <1>2
<1>6. OverlayTasks(display', l) \subseteq Visible(l)
  BY <1>2, <1>3
<1> QED BY <1>2, <1>4, <1>5, <1>6 DEF Current, Fits

LEMMA RenderFits ==
    ASSUME ListTypes, Current, RenderWidget
    PROVE  Current'
<1> DEFINE l == RenderState(fg, mem)
           d == Snapshot(display, l)
<1>1. l.nextId \in Nat
  BY RenderedIsList
<1>2. RenderState(fg', mem') = l /\ uiCtx' = uiCtx /\ shown' = shown
      /\ (display' = d \/ display' = [d EXCEPT !.pending = @ \cup (Completed(l) \ d.hidden)])
  BY DEF RenderWidget, sessionVars
<1>3. Snapshot(d, l).hidden = d.hidden
  BY <1>1, SecondLook
<1>4. d.lastNextId = l.nextId /\ d = [pending |-> d.pending, hidden |-> d.hidden, lastNextId |-> d.lastNextId]
  BY DEF Snapshot, NoDisplay
<1> HIDE DEF d
<1>5. display'.hidden = d.hidden /\ display'.lastNextId = d.lastNextId
  BY <1>2, <1>4
<1>6. Snapshot(display', l).hidden = Snapshot(d, l).hidden
  BY <1>1, <1>4, <1>5 DEF Snapshot
<1>7. OverlayTasks(Snapshot(display', l), l) = OverlayTasks(d, l)
  BY <1>3, <1>6 DEF OverlayTasks
<1>8. /\ OverlayTasks(d, l) # {} => uiCtx \in shown
      /\ uiCtx \in shown => Visible(l) # {}
  BY DEF Current, Fits, d
<1> QED BY <1>2, <1>7, <1>8 DEF Current, Fits

LEMMA NewTurnFits ==
    ASSUME ListTypes, DisplayShape, Current, AgentStart
    PROVE  Current'
<1> DEFINE l == RenderState(fg, mem)
<1>1. RenderState(fg', mem') = l /\ uiCtx' = uiCtx /\ shown' = shown
      /\ display' = [display EXCEPT !.hidden = @ \cup display.pending, !.pending = {}]
  BY DEF AgentStart, sessionVars
<1> HIDE DEF l
<1>2. OverlayTasks(Snapshot(display', l), l) \subseteq OverlayTasks(Snapshot(display, l), l)
  <2>1. Snapshot(display, l).hidden \cap Completed(l)
          \subseteq Snapshot(display', l).hidden \cap Completed(l)
    <3>1. /\ display'.hidden = display.hidden \cup display.pending
          /\ display'.lastNextId = display.lastNextId
      BY <1>1 DEF DisplayShape
    <3> QED BY <3>1 DEF Snapshot, NoDisplay
  <2> QED BY <2>1 DEF OverlayTasks
<1> QED BY <1>1, <1>2 DEF Current, Fits, l

\* An update that is not begun has nothing to do: the overlay was never
\* given a UI, and nothing is visible.
LEMMA NoUpdateFits ==
    ASSUME uiCtx' = None \/ (overlay' = None /\ Visible(RenderState(fg', mem')) = {}),
           OverlayBound'
    PROVE  uiCtx' # None => Current'
BY DEF OverlayBound, Current, Fits, OverlayTasks

\* An update that is begun is waited for.
LEMMA BegunFits ==
    ASSUME NEW r, BeginUpdate(r), overlay' = overlay, OverlayBound'
    PROVE  Settled' => Current'
<1>1. CASE uiCtx' # None /\ (overlay # None \/ Visible(RenderState(fg', mem')) # {})
  <2>1. waiting' = waiting \cup {[prewarm |-> FALSE, reset |-> r,
                                  generation |-> generation', import |-> memo']}
    BY <1>1 DEF BeginUpdate, Load
  <2> DEFINE w == [prewarm |-> FALSE, reset |-> r, generation |-> generation', import |-> memo']
  <2>2. w \in waiting' /\ ~w.prewarm /\ w.generation = generation'
    BY <2>1
  <2> HIDE DEF w
  <2>3. ~Settled'
    BY <2>2 DEF Settled
  <2> QED BY <2>3
<1>2. CASE ~(uiCtx' # None /\ (overlay # None \/ Visible(RenderState(fg', mem')) # {}))
  <2>1. uiCtx' = None \/ (overlay' = None /\ Visible(RenderState(fg', mem')) = {})
    BY <1>2
  <2>2. uiCtx' # None => Current'
    BY <2>1, NoUpdateFits
  <2> QED BY <2>2 DEF Settled
<1> QED BY <1>1, <1>2

\* The shape of the overlay's memory.
LEMMA ShapeStep == DisplayShape /\ [Next]_vars => DisplayShape'
<1> SUFFICES ASSUME DisplayShape, [Next]_vars PROVE DisplayShape'
  OBVIOUS
<1>1. \A d, l : Snapshot(d, l) = [pending |-> Snapshot(d, l).pending,
                                 hidden |-> Snapshot(d, l).hidden,
                                 lastNextId |-> Snapshot(d, l).lastNextId]
  BY DEF Snapshot, NoDisplay
<1>2. CASE display' = display
  BY <1>2 DEF DisplayShape
<1>3. CASE display' = NoDisplay
  BY <1>3 DEF DisplayShape, NoDisplay
<1>4. ASSUME NEW w, Continue(w) PROVE DisplayShape'
  BY <1>1, <1>2, <1>4 DEF Continue, Refresh, DisplayShape
<1>5. CASE RenderWidget
  BY <1>1, <1>5 DEF RenderWidget, DisplayShape
<1>6. CASE AgentStart
  BY <1>6 DEF AgentStart, DisplayShape
<1>7. CASE Crash
  BY <1>3, <1>7 DEF Crash
<1>8. CASE Loader
  BY <1>2, <1>4, <1>8 DEF Loader, Prewarm, Settle, screenVars
<1>9. ASSUME NEW s \in Sessions, Call(s) PROVE DisplayShape'
  BY <1>2, <1>9 DEF Call, CreateTasks, UpdateTask, DeleteTask, ClearTasks,
                    LeaveTasks, Execute, screenVars
<1>10. ASSUME NEW s \in Sessions, Session(s) PROVE DisplayShape'
  <2>1. CASE SessionShutdown(s)
    BY <1>2, <1>3, <2>1 DEF SessionShutdown
  <2>2. CASE SessionStart(s)
    BY <1>2, <2>2 DEF SessionStart
  <2>3. ASSUME NEW n, ReplayAndRefresh(s, n) PROVE DisplayShape'
    BY <1>2, <2>3 DEF ReplayAndRefresh, screenVars
  <2>4. CASE Invalidate(s) \/ ToolEnd(s) \/ Land(s)
    BY <1>2, <2>4 DEF Invalidate, ToolEnd, Land, screenVars
  <2> QED BY <1>10, <2>1, <2>2, <2>3, <2>4 DEF Session
<1>11. CASE UNCHANGED vars
  BY <1>2, <1>11 DEF vars, screenVars
<1> QED BY <1>5, <1>6, <1>7, <1>8, <1>9, <1>10, <1>11 DEF Next

\* What leaves the rendered list, the UI and the display alone keeps the fit,
\* if the step ends no call or update of the foreground without a refresh.
LEMMA SameFits ==
    ASSUME Settled' => Settled, Settled => Current,
           RenderState(fg', mem') = RenderState(fg, mem),
           uiCtx' = uiCtx, display' = display, uiCtx \in shown' <=> uiCtx \in shown
    PROVE  Settled' => Current'
BY DEF Current, Fits

\* The steps of the loader.
LEMMA LoaderFits ==
    ASSUME ListTypes, ImportInv, WaitersInv, Settled => Current, Loader
    PROVE  Settled' => Current'
<1>1. /\ fg' = fg /\ uiCtx' = uiCtx /\ mem' = mem /\ ends' = ends /\ generation' = generation
  BY DEF Loader, Prewarm, Settle, Continue, sessionVars, screenVars
<1>2. RenderState(fg', mem') = RenderState(fg, mem)
  BY <1>1 DEF RenderState
<1>3. CASE Prewarm
  <2>1. /\ display' = display /\ shown' = shown
        /\ waiting \subseteq waiting'
        /\ imports' = imports \/ imports' = Append(imports, "loading")
    BY <1>3 DEF Prewarm, Load
  <2>2. \A i \in DOMAIN imports : i \in DOMAIN imports' /\ imports'[i] = imports[i]
    BY <2>1 DEF ImportInv
  <2>3. Settled' => Settled
    BY <1>1, <2>1, <2>2 DEF Settled
  <2> QED BY <1>1, <1>2, <2>1, <2>3, SameFits
<1>4. ASSUME NEW i \in DOMAIN imports, NEW o, Settle(i, o)
      PROVE Settled' => Current'
  <2>1. /\ display' = display /\ shown' = shown /\ waiting' = waiting
        /\ imports[i] = "loading" /\ imports' = [imports EXCEPT ![i] = o]
    BY <1>4 DEF Settle, screenVars
  <2>2. DOMAIN imports' = DOMAIN imports
        /\ \A j \in DOMAIN imports : imports[j] = imports'[j] \/ imports[j] = "loading"
    BY <2>1
  <2>3. Settled' => Settled
    BY <1>1, <2>1, <2>2 DEF Settled
  <2> QED BY <1>1, <1>2, <2>1, <2>3, SameFits
<1>5. ASSUME NEW w \in waiting, Continue(w)
      PROVE Settled' => Current'
  <2>1. imports' = imports /\ waiting' = waiting \ {w} /\ imports[w.import] # "loading"
    BY <1>5 DEF Continue
  <2>2. CASE Refresh(w.reset)
    BY <1>1, <2>2, RefreshFits
  <2>3. CASE /\ ~(/\ imports[w.import] = "ok" /\ ~w.prewarm
                  /\ w.generation = generation /\ uiCtx # None)
             /\ UNCHANGED <<overlay, shown, display>>
    <3>1. CASE w.prewarm \/ w.generation # generation
      <4>1. Settled' => Settled
        BY <1>1, <2>1, <3>1 DEF Settled
      <4> QED BY <1>1, <1>2, <2>3, <4>1, SameFits
    <3>2. CASE uiCtx = None
      BY <1>1, <3>2 DEF Settled
    <3>3. CASE imports[w.import] # "ok"
      <4>1. w.import \in DOMAIN imports
        BY DEF WaitersInv
      <4>2. imports[w.import] \notin {"loading", "ok"}
        BY <2>1, <3>3
      <4> QED BY <2>1, <4>1, <4>2 DEF Settled
    <3> QED BY <2>3, <3>1, <3>2, <3>3
  <2> QED BY <1>5, <2>2, <2>3 DEF Continue
<1> QED BY <1>3, <1>4, <1>5 DEF Loader

\* Waiters await imports.
LEMMA LoadKeepsWaiters ==
    ASSUME ImportInv, WaitersInv, NEW w, NEW r, Load(w, r) PROVE WaitersInv'
<1>1. waiting' = waiting \cup {[prewarm |-> w, reset |-> r,
                               generation |-> generation', import |-> memo']}
  BY DEF Load
<1>2. CASE memo # 0 /\ UNCHANGED <<memo, imports>>
  BY <1>1, <1>2 DEF WaitersInv
<1>3. CASE imports' = Append(imports, "loading") /\ memo' = Len(imports')
  <2>1. DOMAIN imports \subseteq DOMAIN imports' /\ memo' \in DOMAIN imports'
    BY <1>3 DEF ImportInv
  <2> QED BY <1>1, <2>1 DEF WaitersInv
<1> QED BY <1>2, <1>3 DEF Load

LEMMA BeginKeepsWaiters ==
    ASSUME ImportInv, WaitersInv, NEW r, BeginUpdate(r) PROVE WaitersInv'
<1>1. CASE UNCHANGED <<memo, imports, waiting>>
  BY <1>1 DEF WaitersInv
<1> QED BY <1>1, LoadKeepsWaiters DEF BeginUpdate

LEMMA WaitersStep == ImportInv /\ WaitersInv /\ [Next]_vars => WaitersInv'
<1> SUFFICES ASSUME ImportInv, WaitersInv, [Next]_vars PROVE WaitersInv'
  OBVIOUS
<1>1. CASE UNCHANGED <<memo, imports, waiting>>
  BY <1>1 DEF WaitersInv
<1>2. CASE Prewarm
  BY <1>2, LoadKeepsWaiters DEF Prewarm
<1>3. ASSUME NEW i \in DOMAIN imports, NEW o, Settle(i, o) PROVE WaitersInv'
  BY <1>3 DEF Settle, WaitersInv
<1>4. ASSUME NEW w \in waiting, Continue(w) PROVE WaitersInv'
  BY <1>4 DEF Continue, WaitersInv
<1>5. ASSUME NEW s \in Sessions, Call(s) PROVE WaitersInv'
  BY <1>1, <1>5 DEF Call, CreateTasks, UpdateTask, DeleteTask, ClearTasks,
                    LeaveTasks, Execute, loaderVars
<1>6. ASSUME NEW s \in Sessions, Session(s) PROVE WaitersInv'
  <2>1. CASE SessionStart(s)
    BY <1>1, <2>1, BeginKeepsWaiters DEF SessionStart, loaderVars
  <2>2. ASSUME NEW n, ReplayAndRefresh(s, n) PROVE WaitersInv'
    BY <1>1, <2>2, BeginKeepsWaiters DEF ReplayAndRefresh, loaderVars
  <2>3. CASE ToolEnd(s)
    BY <2>3, BeginKeepsWaiters DEF ToolEnd
  <2>4. CASE Land(s) \/ Invalidate(s) \/ SessionShutdown(s)
    BY <1>1, <2>4 DEF Land, Invalidate, SessionShutdown, loaderVars
  <2> QED BY <1>6, <2>1, <2>2, <2>3, <2>4 DEF Session
<1>7. CASE Crash
  BY <1>7 DEF Crash, WaitersInv
<1>8. CASE RenderWidget \/ AgentStart \/ UNCHANGED vars
  BY <1>1, <1>8 DEF RenderWidget, AgentStart, vars, loaderVars
<1> QED BY <1>2, <1>3, <1>4, <1>5, <1>6, <1>7, <1>8 DEF Next, Loader

\* The foreground has a UI.
LEMMA ForegroundStep ==
    (fg # None => fg \in conf.hasUI) /\ [Next]_vars => (fg' # None => fg' \in conf'.hasUI)
<1> SUFFICES ASSUME fg # None => fg \in conf.hasUI, [Next]_vars
             PROVE  (fg' # None => fg' \in conf'.hasUI)
  OBVIOUS
<1>1. CASE UNCHANGED <<fg, conf>>
  BY <1>1
<1>2. CASE fg' = None
  BY <1>2
<1>3. CASE Loader \/ RenderWidget \/ AgentStart \/ UNCHANGED vars
  BY <1>1, <1>3 DEF Loader, Prewarm, Settle, Continue, RenderWidget, AgentStart,
                    vars, screenVars
<1>4. CASE Crash
  BY <1>2, <1>4 DEF Crash
<1>5. ASSUME NEW s \in Sessions, Call(s) PROVE (fg' # None => fg' \in conf'.hasUI)
  BY <1>1, <1>5 DEF Call, CreateTasks, UpdateTask, DeleteTask, ClearTasks,
                    LeaveTasks, Execute, screenVars
<1>6. ASSUME NEW s \in Sessions, Session(s) PROVE (fg' # None => fg' \in conf'.hasUI)
  <2>1. CASE SessionStart(s)
    BY <2>1 DEF SessionStart
  <2>2. CASE SessionShutdown(s)
    BY <1>1, <1>2, <2>2 DEF SessionShutdown
  <2>3. ASSUME NEW n, ReplayAndRefresh(s, n) PROVE (fg' # None => fg' \in conf'.hasUI)
    BY <1>1, <2>3 DEF ReplayAndRefresh, screenVars
  <2>4. CASE Invalidate(s) \/ ToolEnd(s) \/ Land(s)
    BY <1>1, <2>4 DEF Invalidate, ToolEnd, Land, screenVars
  <2> QED BY <1>6, <2>1, <2>2, <2>3, <2>4 DEF Session
<1> QED BY <1>3, <1>4, <1>5, <1>6 DEF Next

\* A call of the foreground is still to be followed by its refresh.
LEMMA CallFits ==
    ASSUME CallsEnd, ListTypes, RefreshInv, NEW s \in Sessions, Call(s)
    PROVE  Settled' => Current'
<1>1. PICK list, persist : Execute(s, list, persist)
  BY DEF Call, CreateTasks, UpdateTask, DeleteTask, ClearTasks, LeaveTasks
<1>2. /\ fg' = fg /\ uiCtx' = uiCtx /\ display' = display /\ shown' = shown
      /\ waiting' = waiting /\ generation' = generation /\ imports' = imports
      /\ mem' = [mem EXCEPT ![s] = list]
      /\ (ends' = ends \cup {s} \/ ("nested" \in conf.calls /\ ends' = ends))
  BY <1>1 DEF Execute, loaderVars, screenVars
<1>3. CASE fg = s
  <2>1. "nested" \notin conf.calls
    BY <1>3, NoneAssumption DEF CallsEnd, RefreshInv, ListTypes
  <2> QED BY <1>2, <1>3, <2>1 DEF Settled
<1>4. CASE fg # s
  <2>1. RenderState(fg', mem') = RenderState(fg, mem)
    BY <1>2, <1>4 DEF RenderState, ListTypes
  <2>2. Settled' => Settled
    BY <1>2 DEF Settled
  <2> QED BY <1>2, <2>1, <2>2, SameFits DEF RefreshInv
<1> QED BY <1>3, <1>4

\* The events of a session.
LEMMA SessionFits ==
    ASSUME ListTypes, ScreenInv, ScreenInv', RefreshInv, NEW s \in Sessions, Session(s)
    PROVE  Settled' => Current'
<1>1. OverlayBound /\ OverlayBound'
  BY DEF ScreenInv
<1>2. CASE SessionStart(s)
  <2>1. /\ overlay' = overlay /\ display' = display /\ shown' = shown /\ ends' = ends
        /\ life[s] = "off" /\ \E l \in Replayed(branch[s]) : mem' = [mem EXCEPT ![s] = l]
    BY <1>2 DEF SessionStart
  <2>2. CASE BeginUpdate(TRUE)
    BY <1>1, <2>1, <2>2, BegunFits
  <2>3. CASE ~(s \in conf.hasUI /\ fg' = s) /\ UNCHANGED <<generation, uiCtx, loaderVars>>
    <3>1. fg # s
      BY <1>1, <2>1, NoneAssumption DEF OverlayBound
    <3>2. fg' = fg \/ uiCtx' = None
      BY <1>1, <1>2, <2>3 DEF SessionStart, OverlayBound
    <3>3. fg' = fg => RenderState(fg', mem') = RenderState(fg, mem)
      BY <2>1, <3>1 DEF RenderState, ListTypes
    <3>4. fg' = fg => (Settled' => Settled)
      BY <2>1, <2>3 DEF Settled, loaderVars
    <3> QED BY <2>1, <2>3, <3>2, <3>3, <3>4, SameFits DEF RefreshInv, Settled
  <2> QED BY <1>2, <2>2, <2>3 DEF SessionStart
<1>3. ASSUME NEW n, ReplayAndRefresh(s, n) PROVE Settled' => Current'
  <2>1. /\ UNCHANGED <<ends, fg, generation, uiCtx, overlay, shown, display>>
        /\ \E l : mem' = [mem EXCEPT ![s] = l]
    BY <1>3 DEF ReplayAndRefresh, screenVars
  <2>2. CASE BeginUpdate(TRUE)
    BY <1>1, <2>1, <2>2, BegunFits
  <2>3. CASE fg # s /\ UNCHANGED loaderVars
    <3>1. RenderState(fg', mem') = RenderState(fg, mem)
      BY <2>1, <2>3 DEF RenderState, ListTypes
    <3>2. Settled' => Settled
      BY <2>1, <2>3 DEF Settled, loaderVars
    <3> QED BY <2>1, <3>1, <3>2, SameFits DEF RefreshInv
  <2> QED BY <1>3, <2>2, <2>3 DEF ReplayAndRefresh
<1>4. CASE ToolEnd(s)
  BY <1>1, <1>4, BegunFits DEF ToolEnd, screenVars
<1>5. CASE Land(s) \/ Invalidate(s)
  <2>1. UNCHANGED <<mem, ends, fg, generation, uiCtx, shown, display, imports, waiting>>
    BY <1>5 DEF Land, Invalidate, loaderVars, screenVars
  <2>2. Settled' => Settled
    BY <2>1 DEF Settled
  <2>3. RenderState(fg', mem') = RenderState(fg, mem)
    BY <2>1 DEF RenderState
  <2> QED BY <2>1, <2>2, <2>3, SameFits DEF RefreshInv
<1>6. CASE SessionShutdown(s)
  <2>1. CASE uiCtx' = None
    BY <2>1 DEF Settled
  <2>2. CASE fg # s /\ shown' = shown \ {s} /\ UNCHANGED <<generation, uiCtx, overlay, fg, display>>
    <3>1. /\ ends' = ends \ {s} /\ waiting' = waiting /\ imports' = imports
          /\ \A r \in Sessions : r # s => mem'[r] = mem[r]
      BY <1>6 DEF SessionShutdown, loaderVars, ListTypes
    <3>2. RenderState(fg', mem') = RenderState(fg, mem)
      BY <2>2, <3>1 DEF RenderState
    <3>3. Settled' => Settled
      BY <2>2, <3>1 DEF Settled
    <3>4. Settled' => uiCtx # s
      BY <1>1, <2>2 DEF OverlayBound, Settled
    <3> QED BY <2>2, <3>2, <3>3, <3>4, SameFits DEF RefreshInv
  <2> QED BY <1>6, <2>1, <2>2 DEF SessionShutdown
<1> QED BY <1>2, <1>3, <1>4, <1>5, <1>6 DEF Session

LEMMA RefreshStep ==
    ASSUME CallsEnd, IInv, IInv', RefreshInv, [Next]_vars
    PROVE  RefreshInv'
<1>1. ListTypes /\ ImportInv /\ ScreenInv /\ ScreenInv'
  BY DEF IInv, ListInv
<1>2. DisplayShape' /\ WaitersInv' /\ (fg' # None => fg' \in conf'.hasUI)
  BY <1>1, ShapeStep, WaitersStep, ForegroundStep DEF RefreshInv
<1>3. CASE RenderWidget \/ AgentStart
  <2>1. UNCHANGED <<uiCtx, ends, fg, waiting, generation, imports>>
    BY <1>3 DEF RenderWidget, AgentStart, sessionVars, loaderVars
  <2>2. Settled' => Settled
    BY <2>1 DEF Settled
  <2>3. Settled' => Current'
    BY <1>1, <1>3, <2>2, RenderFits, NewTurnFits DEF RefreshInv
  <2> QED BY <1>2, <2>3 DEF RefreshInv
<1>4. CASE Loader
  BY <1>1, <1>2, <1>4, LoaderFits DEF RefreshInv
<1>5. CASE Crash
  BY <1>2, <1>5 DEF Crash, RefreshInv, Settled
<1>6. ASSUME NEW s \in Sessions, Call(s) \/ Session(s) PROVE RefreshInv'
  BY <1>1, <1>2, <1>6, CallFits, SessionFits DEF RefreshInv
<1>7. CASE UNCHANGED vars
  <2>1. UNCHANGED <<uiCtx, ends, fg, waiting, generation, imports, mem, display, shown>>
    BY <1>7 DEF vars, sessionVars, loaderVars, screenVars
  <2>2. Settled' => Settled
    BY <2>1 DEF Settled
  <2>3. RenderState(fg', mem') = RenderState(fg, mem)
    BY <2>1 DEF RenderState
  <2> QED BY <1>2, <2>1, <2>2, <2>3, SameFits DEF RefreshInv
<1> QED BY <1>3, <1>4, <1>5, <1>6, <1>7 DEF Next

-----------------------------------------------------------------------------
(* The theorems.                                                            *)

\* The strengthened invariant holds in every reachable state, for any
\* sessions, task data, scenarios and bounds.
THEOREM Inductive == Spec => []IInv
<1>1. Init => IInv
  <2>1. Init => ImportInv /\ ScreenInv
    BY DEF Init, ImportInv, ScreenInv, OverlayBound
  <2> QED BY <2>1, ListInit DEF IInv
<1>2. IInv /\ [Next]_vars => IInv'
  BY ListStep, ImportStep, ScreenStep DEF IInv, ListInv
<1> QED BY <1>1, <1>2, PTL DEF Spec

\* No sequence of calls, replays, restarts and crashes gives a session a list
\* with a dangling blocker, a gap in its ids or a dependency cycle.
THEOREM ListsStaySound == Spec => []ListsSound
<1>1. IInv => ListsSound
  BY ListsAreSound DEF IInv, ListInv, ListTypes, ListsSound
<1> QED BY <1>1, Inductive, PTL

\* A replay of the branch returns the live list at every moment, although
\* results land late and out of order and nested calls leave none.
THEOREM ReplayIsExact == Spec => []MemoryIsReplay
<1>1. IInv => MemoryIsReplay
  BY DEF IInv, ListInv
<1> QED BY <1>1, Inductive, PTL

\* No two imports of the overlay module run at once.
THEOREM ImportsOnce == Spec => []OneImport
<1>1. IInv => OneImport
  BY DEF IInv, ImportInv, OneImport
<1> QED BY <1>1, Inductive, PTL

\* The overlay and its widget are the running foreground session's.
THEOREM OverlayStaysBound == Spec => []OverlayBound
<1>1. IInv => OverlayBound
  BY DEF IInv, ScreenInv
<1> QED BY <1>1, Inductive, PTL

\* Once every call of the foreground has been followed by its refresh, a task
\* that is not hidden has its widget and a list of tombstones has none, however
\* refreshes, imports, sessions and renders overlap, unless an import was lost.
THEOREM WidgetIsCurrent ==
    ASSUME CallsEnd PROVE Spec => []OverlayCurrent
<1>1. Init => RefreshInv
  BY DEF Init, RefreshInv, DisplayShape, NoDisplay, WaitersInv, Settled
<1>2. CallsEnd /\ IInv /\ IInv' /\ RefreshInv /\ [Next]_vars => RefreshInv'
  BY RefreshStep
<1>3. RefreshInv => OverlayCurrent
  BY DEF RefreshInv, OverlayCurrent, Settled, Current, Fits
<1> QED BY <1>1, <1>2, <1>3, Inductive, PTL DEF Spec

=============================================================================
