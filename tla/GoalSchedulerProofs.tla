------------------------- MODULE GoalSchedulerProofs -------------------------
(***************************************************************************)
(* Proofs about GoalScheduler, for any sessions and bounds.  A handler is   *)
(* a function from a context to a context, composed of smaller ones; each   *)
(* of them is shown to keep the context well-formed and to keep what a      *)
(* handler keeps (Keeps), except the three that are meant to do otherwise:  *)
(* admitting a checkpoint, claiming one and resuming the goal.              *)
(***************************************************************************)
EXTENDS GoalScheduler, FiniteSetTheorems, TLAPS

-----------------------------------------------------------------------------
(* Ids: there is always one that nobody holds.                              *)

LEMMA ImageSize ==
  ASSUME NEW S, IsFiniteSet(S), NEW T, NEW f \in [S -> T]
  PROVE  LET R == {f[x] : x \in S} IN
         IsFiniteSet(R) /\ Cardinality(R) \in Nat /\ Cardinality(R) <= Cardinality(S)
  <1> DEFINE R == {f[x] : x \in S}
  <1>1. f \in Surjection(S, R)
    BY DEF Surjection
  <1>2. IsFiniteSet(R) /\ Cardinality(R) <= Cardinality(S)
    BY <1>1, FS_Surjection
  <1> QED BY <1>2, FS_CardinalityType

LEMMA UnionSize ==
  ASSUME NEW A, IsFiniteSet(A), NEW m \in Nat, Cardinality(A) <= m,
         NEW B, IsFiniteSet(B), NEW n \in Nat, Cardinality(B) <= n
  PROVE  IsFiniteSet(A \cup B) /\ Cardinality(A \cup B) <= m + n
  <1>1. /\ IsFiniteSet(A \cup B)
        /\ Cardinality(A \cup B) = Cardinality(A) + Cardinality(B) - Cardinality(A \cap B)
    BY FS_Union
  <1>2. IsFiniteSet(A \cap B)
    BY FS_Subset
  <1>3. Cardinality(A) \in Nat /\ Cardinality(B) \in Nat /\ Cardinality(A \cap B) \in Nat
    BY <1>2, FS_CardinalityType
  <1> QED BY <1>1, <1>3

LEMMA OneMore ==
  ASSUME NEW A, IsFiniteSet(A), NEW m \in Nat, Cardinality(A) <= m, NEW b
  PROVE  IsFiniteSet(A \cup {b}) /\ Cardinality(A \cup {b}) <= m + 1
  <1>1. IsFiniteSet({b}) /\ Cardinality({b}) = 1
    BY FS_Singleton
  <1>2. IsFiniteSet({b}) /\ Cardinality({b}) <= 1 /\ 1 \in Nat
    BY <1>1
  <1> QED BY <1>2, UnionSize

LEMMA FiveUnions ==
  ASSUME NEW A, IsFiniteSet(A), NEW m \in Nat, Cardinality(A) <= m, NEW n \in Nat,
         NEW B1, IsFiniteSet(B1), Cardinality(B1) <= n,
         NEW B2, IsFiniteSet(B2), Cardinality(B2) <= n,
         NEW B3, IsFiniteSet(B3), Cardinality(B3) <= n,
         NEW B4, IsFiniteSet(B4), Cardinality(B4) <= n,
         NEW B5, IsFiniteSet(B5), Cardinality(B5) <= n
  PROVE  LET U == A \cup B1 \cup B2 \cup B3 \cup B4 \cup B5 IN
         IsFiniteSet(U) /\ Cardinality(U) <= m + 5 * n
  <1> DEFINE U1 == A \cup B1
             U2 == U1 \cup B2
             U3 == U2 \cup B3
             U4 == U3 \cup B4
             U5 == U4 \cup B5
             n1 == m + n
             n2 == n1 + n
             n3 == n2 + n
             n4 == n3 + n
  <1>1. n1 \in Nat /\ n2 \in Nat /\ n3 \in Nat /\ n4 \in Nat /\ n4 + n = m + 5 * n
    OBVIOUS
  <1>2. IsFiniteSet(U1) /\ Cardinality(U1) <= n1
    BY UnionSize
  <1> HIDE DEF U1, n1
  <1>3. IsFiniteSet(U2) /\ Cardinality(U2) <= n2
    BY <1>1, <1>2, UnionSize
  <1> HIDE DEF U2, n2
  <1>4. IsFiniteSet(U3) /\ Cardinality(U3) <= n3
    BY <1>1, <1>3, UnionSize
  <1> HIDE DEF U3, n3
  <1>5. IsFiniteSet(U4) /\ Cardinality(U4) <= n4
    BY <1>1, <1>4, UnionSize
  <1> HIDE DEF U4, n4
  <1>6. IsFiniteSet(U5) /\ Cardinality(U5) <= n4 + n
    BY <1>1, <1>5, UnionSize
  <1> USE DEF U1, U2, U3, U4
  <1> QED BY <1>1, <1>6

LEMMA FreshIsFree ==
  ASSUME mem \in [Sessions -> Memory]
  PROVE  Fresh \in Uuids \ {0} /\ Fresh \notin Referenced
  <1> DEFINE n == Cardinality(Sessions)
             armed == [s \in Sessions |-> mem[s].armed]
             qg == [s \in Sessions |-> IF mem[s].queue = None THEN 0 ELSE mem[s].queue.gen]
             qd == [s \in Sessions |-> IF mem[s].queue = None THEN 0 ELSE mem[s].queue.dispatch]
             mg == [s \in Sessions |-> IF mem[s].msg = None THEN 0 ELSE mem[s].msg.gen]
             md == [s \in Sessions |-> IF mem[s].msg = None THEN 0 ELSE mem[s].msg.dispatch]
             All(f) == {f[s] : s \in Sessions}
             A1 == {0} \cup {goal.gen}
             A2 == A1 \cup {goal.dispatch}
             A7 == A2 \cup All(armed) \cup All(qg) \cup All(qd) \cup All(mg) \cup All(md)
  <1>1. IsFiniteSet(Sessions) /\ n \in Nat
    BY SchedulerAssumption, FS_CardinalityType
  <1>2. ASSUME NEW f, NEW T, f \in [Sessions -> T]
        PROVE  IsFiniteSet(All(f)) /\ Cardinality(All(f)) <= n
    BY <1>1, <1>2, ImageSize
  <1>3. /\ IsFiniteSet(All(armed)) /\ Cardinality(All(armed)) <= n
        /\ IsFiniteSet(All(qg)) /\ Cardinality(All(qg)) <= n
        /\ IsFiniteSet(All(qd)) /\ Cardinality(All(qd)) <= n
        /\ IsFiniteSet(All(mg)) /\ Cardinality(All(mg)) <= n
        /\ IsFiniteSet(All(md)) /\ Cardinality(All(md)) <= n
    <2>1. /\ armed \in [Sessions -> Uuids \cup {None}]
          /\ qg \in [Sessions -> Uuids \cup {0}] /\ qd \in [Sessions -> Uuids \cup {0}]
          /\ mg \in [Sessions -> Uuids \cup {0}] /\ md \in [Sessions -> Uuids \cup {0}]
      BY DEF Memory, Checkpoint
    <2> HIDE DEF armed, qg, qd, mg, md
    <2> QED BY <2>1, <1>2
  <1>4. IsFiniteSet(A2) /\ Cardinality(A2) <= 3
    <2>1. IsFiniteSet({0}) /\ Cardinality({0}) = 1
      BY FS_Singleton
    <2>2. Cardinality({0}) <= 1
      BY <2>1
    <2>3. IsFiniteSet(A1) /\ Cardinality(A1) <= 2
      BY <2>1, <2>2, OneMore
    <2> HIDE DEF A1
    <2>4. IsFiniteSet(A1 \cup {goal.dispatch}) /\ Cardinality(A1 \cup {goal.dispatch}) <= 2 + 1
      BY ONLY <2>3, 2 \in Nat, OneMore
    <2> QED BY <2>4
  <1>5. IsFiniteSet(A7) /\ Cardinality(A7) <= 5 * n + 3
    <2> HIDE DEF A2, All, armed, qg, qd, mg, md, n
    <2>1. IsFiniteSet(A7) /\ Cardinality(A7) <= 3 + 5 * n
      BY <1>1, <1>3, <1>4, FiveUnions
    <2> HIDE DEF A7
    <2> QED BY <1>1, <2>1
  <1>6. PICK u \in Uuids : u \notin A7
    <2> SUFFICES ASSUME Uuids \subseteq A7 PROVE FALSE
      OBVIOUS
    <2> HIDE DEF A7
    <2>1. Cardinality(Uuids) <= Cardinality(A7)
      BY <1>5, FS_Subset
    <2>2. Cardinality(Uuids) \in Nat /\ Cardinality(A7) \in Nat
      BY <1>5, SchedulerAssumption, FS_CardinalityType
    <2> QED BY <1>1, <1>5, <2>1, <2>2, SchedulerAssumption DEF n
  <1>7. Referenced \subseteq A7
    <2> SUFFICES ASSUME NEW s \in Sessions, NEW c \in {mem[s].queue, mem[s].msg} \ {None}
                 PROVE  mem[s].armed \in A7 /\ c.gen \in A7 /\ c.dispatch \in A7
      BY DEF Referenced
    <2>1. armed[s] \in A7 /\ qg[s] \in A7 /\ qd[s] \in A7 /\ mg[s] \in A7 /\ md[s] \in A7
      <3> HIDE DEF armed, qg, qd, mg, md, A2
      <3>1. \A f : f[s] \in All(f)
        OBVIOUS
      <3>2. armed[s] \in All(armed) /\ qg[s] \in All(qg) /\ qd[s] \in All(qd)
            /\ mg[s] \in All(mg) /\ md[s] \in All(md)
        BY ONLY <3>1
      <3> HIDE DEF All
      <3> QED BY ONLY <3>2
    <2>2. /\ armed[s] = mem[s].armed
          /\ qg[s] = IF mem[s].queue = None THEN 0 ELSE mem[s].queue.gen
          /\ qd[s] = IF mem[s].queue = None THEN 0 ELSE mem[s].queue.dispatch
          /\ mg[s] = IF mem[s].msg = None THEN 0 ELSE mem[s].msg.gen
          /\ md[s] = IF mem[s].msg = None THEN 0 ELSE mem[s].msg.dispatch
      OBVIOUS
    <2> HIDE DEF armed, qg, qd, mg, md, A7, All, A1, A2
    <2>3. c # None /\ (c = mem[s].queue \/ c = mem[s].msg)
      OBVIOUS
    <2>4. CASE c = mem[s].queue
      BY ONLY <2>1, <2>2, <2>3, <2>4
    <2>5. CASE c = mem[s].msg
      BY ONLY <2>1, <2>2, <2>3, <2>5
    <2> QED BY ONLY <2>3, <2>4, <2>5
  <1>8. u \in Uuids \ {0} /\ u \notin Referenced
    BY <1>6, <1>7
  <1> QED BY <1>8 DEF Fresh
-----------------------------------------------------------------------------
(* Contexts, and what a handler keeps of one.                               *)

Contexts == [s : Sessions, g : Goal, m : Memory, w : Nat, err : BOOLEAN]

\* The checkpoints that a session's host holds.
Holds(m) == {m.queue, m.msg} \ {None}

\* A handler neither charges a run, nor starts one, nor claims; it activates
\* nothing, leaves a claim it does not cancel alone, and gives the host no
\* checkpoint.
Keeps(x, y) ==
    /\ y \in Contexts /\ y.s = x.s
    /\ y.g.used = x.g.used
    /\ y.g.active => x.g.active
    /\ y.g.phase = "running" => x.g.phase = "running"
    /\ y.g.phase = "claimed" => x.g.phase = "claimed"
    /\ y.g.active /\ y.g.phase = "claimed" => y.g = x.g
    /\ GoalSound(x.g) => GoalSound(y.g)
    /\ Holds(y.m) \subseteq Holds(x.m)

\* The same of the goal alone, when it is saved.
Saves(g, h) ==
    /\ h \in Goal
    /\ h.used = g.used
    /\ h.active => g.active
    /\ h.phase = "running" => g.phase = "running"
    /\ h.phase = "claimed" => g.phase = "claimed"
    /\ h.active /\ h.phase = "claimed" => h = g
    /\ GoalSound(g) => GoalSound(h)

\* The same of the memory.
Stays(m, n) == n \in Memory /\ Holds(n) \subseteq Holds(m)

LEMMA KeepsTwice ==
  ASSUME NEW x, NEW y, NEW z, Keeps(x, y), Keeps(y, z)
  PROVE  Keeps(x, z)
  BY DEF Keeps

LEMMA KeepsTyped ==
  ASSUME NEW x, NEW y, Keeps(x, y)
  PROVE  y \in Contexts /\ y.g \in Goal /\ y.m \in Memory
  BY DEF Keeps, Contexts

LEMMA KeepsItself ==
  ASSUME NEW x \in Contexts
  PROVE  Keeps(x, x)
  BY DEF Keeps, Contexts

\* A context of which only the memory changes.
LEMMA KeepsMemory ==
  ASSUME NEW x \in Contexts, NEW m, Stays(x.m, m)
  PROVE  Keeps(x, [x EXCEPT !.m = m])
  BY DEF Keeps, Contexts, Stays

LEMMA CancelStays ==
  ASSUME NEW m \in Memory, NEW b \in BOOLEAN
  PROVE  Stays(m, CancelTimer(m)) /\ Stays(m, ClearContinuation(m, b))
  BY DEF Stays, Holds, Memory, CancelTimer, ClearContinuation

LEMMA StoppedKeeps ==
  ASSUME NEW x \in Contexts
  PROVE  Keeps(x, Stopped(x))
  <1>1. Stays(x.m, ClearContinuation(x.m, TRUE))
    BY CancelStays DEF Contexts
  <1> QED BY <1>1 DEF Keeps, Contexts, Stays, Stopped

LEMMA ReconcileKeeps ==
  ASSUME NEW x \in Contexts
  PROVE  Keeps(x, Reconcile(x)) /\ Reconcile(x).g = x.g /\ Reconcile(x).w = x.w
         /\ Reconcile(x).err = x.err
  <1>1. Stays(x.m, ClearContinuation(x.m, TRUE))
    BY CancelStays DEF Contexts
  <1> QED BY <1>1 DEF Keeps, Contexts, Stays, Reconcile

LEMMA WroteKeeps ==
  ASSUME NEW x \in Contexts, x.w > 0, NEW g, Saves(x.g, g)
  PROVE  Keeps(x, Wrote(x, g)) /\ Wrote(x, g).g = g
  <1> DEFINE r == Reconcile(x)
  <1>1. Keeps(x, r) /\ r.g = x.g /\ r.w = x.w
    BY ReconcileKeeps
  <1>2. r \in Contexts
    BY <1>1 DEF Keeps
  <1> HIDE DEF r
  <1>3. [r EXCEPT !.g = g, !.w = x.w - 1] \in Contexts
    <2>1. x.w \in Nat /\ g \in Goal
      BY DEF Contexts, Saves
    <2>2. x.w - 1 \in Nat
      BY <2>1
    <2> QED BY <1>2, <2>1, <2>2 DEF Contexts
  <1> QED BY <1>1, <1>2, <1>3 DEF Keeps, Contexts, Saves, Wrote, r
-----------------------------------------------------------------------------
(* Goals that are saved.                                                    *)

\* What a goal is like that has no claim: the parts of Saves that are left.
LEMMA SavesUnclaimed ==
  ASSUME NEW g \in Goal, NEW h \in Goal, h.used = g.used, h.active => g.active,
         h.phase \notin {"claimed", "running"}, GoalSound(g) => GoalSound(h)
  PROVE  Saves(g, h)
  BY DEF Saves

LEMMA ImplicitReadySaves ==
  ASSUME NEW g \in Goal, Fresh \in Uuids
  PROVE  Saves(g, ImplicitReady(g)) /\ ImplicitReady(g).phase = "ready"
         /\ ImplicitReady(g).decision = "ready"
  BY DEF Saves, Goal, ImplicitReady, GoalSound, Purposes

LEMMA PaceIdleSaves ==
  ASSUME NEW g \in Goal, NEW worked \in BOOLEAN, g.phase = "ready"
  PROVE  Saves(g, PaceIdle(g, worked))
  BY DEF Saves, Goal, PaceIdle, GoalSound, Idle

\* What pause() saves.
Ended(g) == [g EXCEPT !.active = FALSE, !.gen = Fresh, !.phase = "idle", !.decision = None,
                      !.dispatch = None, !.wait = None]

LEMMA EndedSaves ==
  ASSUME NEW g \in Goal, Fresh \in Uuids
  PROVE  Saves(g, Ended(g)) /\ Ended(g).phase = "idle"
  BY DEF Saves, Goal, Ended, GoalSound

-----------------------------------------------------------------------------
(* The handlers' parts.                                                     *)

LEMMA PauseKeeps ==
  ASSUME NEW x \in Contexts, Fresh \in Uuids
  PROVE  Keeps(x, Pause(x))
  <1> DEFINE y == [x EXCEPT !.m = ClearContinuation(@, TRUE)]
  <1>1. Keeps(x, y) /\ y.g = x.g
    BY CancelStays, KeepsMemory DEF Contexts
  <1> HIDE DEF y
  <1>2. y \in Contexts /\ y.g \in Goal
    BY <1>1 DEF Keeps, Contexts
  <1>3. CASE y.w = 0 \/ y.g.owner # y.s
    BY <1>1, <1>2, <1>3, StoppedKeeps, KeepsTwice DEF Pause, y
  <1>4. CASE ~(y.w = 0 \/ y.g.owner # y.s)
    <2>1. y.w > 0
      BY <1>2, <1>4 DEF Contexts
    <2>2. Keeps(y, Wrote(y, Ended(y.g)))
      BY <1>2, <2>1, EndedSaves, WroteKeeps
    <2> QED BY <1>1, <1>4, <2>2, KeepsTwice DEF Pause, y, Ended
  <1> QED BY <1>3, <1>4

LEMMA PauseActiveKeeps ==
  ASSUME NEW x \in Contexts
  PROVE  Keeps(x, PauseActive(x))
  <1> DEFINE y == [x EXCEPT !.m = ClearContinuation(@, TRUE)]
             h == [x.g EXCEPT !.active = FALSE]
  <1>1. Keeps(x, y) /\ y.g = x.g /\ y.w = x.w
    BY CancelStays, KeepsMemory DEF Contexts
  <1>2. Saves(x.g, h)
    BY DEF Contexts, Goal, Saves, GoalSound
  <1> HIDE DEF y, h
  <1>3. CASE ~x.g.active \/ x.w = 0
    BY <1>3, KeepsItself DEF PauseActive
  <1>4. CASE ~(~x.g.active \/ x.w = 0)
    <2>1. y \in Contexts /\ y.w > 0
      BY <1>1, <1>4 DEF Keeps, Contexts
    <2>2. Keeps(y, Wrote(y, h))
      BY <1>1, <1>2, <2>1, WroteKeeps
    <2> QED BY <1>1, <1>4, <2>2, KeepsTwice DEF PauseActive, y, h
  <1> QED BY <1>3, <1>4

LEMMA ArmKeeps ==
  ASSUME NEW x \in Contexts, Fresh \in Uuids
  PROVE  Keeps(x, Arm(x))
  <1>1. Stays(x.m, [CancelTimer(x.m) EXCEPT !.timer = TRUE, !.cont = x.m.cont /\ ~IdleDelay(x.g)])
    BY DEF Contexts, Stays, Holds, Memory, CancelTimer, IdleDelay
  <1>2. Stays(x.m, [CancelTimer(x.m) EXCEPT !.armed = x.g.gen, !.cont = TRUE])
    BY DEF Contexts, Stays, Holds, Memory, CancelTimer, Goal
  <1>3. Keeps(x, x) /\ Keeps(x, Pause(x))
    BY KeepsItself, PauseKeeps
  <1>4. Keeps(x, [x EXCEPT !.m = [CancelTimer(@) EXCEPT !.timer = TRUE,
                                     !.cont = x.m.cont /\ ~IdleDelay(x.g)]])
    BY <1>1, KeepsMemory
  <1>5. Keeps(x, [x EXCEPT !.m = [CancelTimer(@) EXCEPT !.armed = x.g.gen, !.cont = TRUE]])
    BY <1>2, KeepsMemory
  <1> QED BY ONLY <1>3, <1>4, <1>5 DEF Arm

LEMMA ScheduleKeeps ==
  ASSUME NEW x \in Contexts, Fresh \in Uuids
  PROVE  Keeps(x, Schedule(x))
  <1> DEFINE y == Reconcile(x)
             z == Wrote(y, ImplicitReady(y.g))
  <1>1. Keeps(x, x) /\ Keeps(x, y) /\ y \in Contexts /\ y.g \in Goal
    BY KeepsItself, ReconcileKeeps DEF Keeps, Contexts
  <1> HIDE DEF y
  <1>2. Keeps(x, Stopped(y)) /\ Keeps(x, Arm(y))
    BY <1>1, StoppedKeeps, ArmKeeps, KeepsTwice
  <1>3. y.w # 0 => Keeps(x, Arm(z))
    <2> SUFFICES ASSUME y.w # 0 PROVE Keeps(x, Arm(z))
      OBVIOUS
    <2>1. y.w > 0
      BY <1>1 DEF Contexts
    <2>2. Keeps(y, z)
      BY <1>1, <2>1, ImplicitReadySaves, WroteKeeps
    <2> HIDE DEF z
    <2>3. Keeps(z, Arm(z))
      BY <2>2, ArmKeeps DEF Keeps
    <2> QED BY <1>1, <2>2, <2>3, KeepsTwice
  <1> HIDE DEF z
  <1> QED BY <1>1, <1>2, <1>3 DEF Schedule, y, z

LEMMA UpdateKeeps ==
  ASSUME NEW x \in Contexts, Fresh \in Uuids, NEW g, Owned(x) => Saves(x.g, g)
  PROVE  Keeps(x, Update(x, g)) /\ Keeps(x, UpdateAndSchedule(x, g))
  <1>1. Keeps(x, Stopped(Reconcile(x)))
    <2>1. Keeps(x, Reconcile(x)) /\ Reconcile(x) \in Contexts
      BY ReconcileKeeps DEF Keeps
    <2> QED BY <2>1, StoppedKeeps, KeepsTwice
  <1>2. CASE Owned(x) /\ x.w > 0
    <2>1. Keeps(x, Wrote(x, g))
      BY <1>2, WroteKeeps
    <2>2. Keeps(Wrote(x, g), Schedule(Wrote(x, g)))
      BY <2>1, ScheduleKeeps DEF Keeps
    <2> QED BY <1>2, <2>1, <2>2, KeepsTwice DEF Update, UpdateAndSchedule
  <1>3. CASE ~(Owned(x) /\ x.w > 0)
    BY <1>1, <1>3 DEF Update, UpdateAndSchedule
  <1> QED BY <1>2, <1>3
LEMMA TurnKeeps ==
  ASSUME NEW x \in Contexts, Fresh \in Uuids
  PROVE  Keeps(x, Turn(x))
  <1> DEFINE y == [x EXCEPT !.m.declared = FALSE]
             h == [y.g EXCEPT !.decision = None, !.phase = "idle", !.dispatch = None]
  <1>1. Keeps(x, x) /\ Keeps(x, y) /\ y \in Contexts /\ y.g \in Goal
    <2>1. Stays(x.m, [x.m EXCEPT !.declared = FALSE])
      BY DEF Contexts, Memory, Stays, Holds
    <2>2. Keeps(x, y)
      BY <2>1, KeepsMemory
    <2> QED BY <2>2, KeepsItself DEF Keeps, Contexts
  <1>2. Saves(y.g, h)
    BY <1>1 DEF Saves, Goal, GoalSound
  <1> HIDE DEF y, h
  <1>3. Keeps(x, Update(y, h))
    BY <1>1, <1>2, UpdateKeeps, KeepsTwice
  <1> QED BY <1>1, <1>3 DEF Turn, y, h

LEMMA TakeoverKeeps ==
  ASSUME NEW x \in Contexts, Fresh \in Uuids
  PROVE  Keeps(x, Takeover(x))
  <1> DEFINE m == [ClearContinuation(x.m, TRUE) EXCEPT !.declared = FALSE]
             y == [x EXCEPT !.m = [ClearContinuation(@, TRUE) EXCEPT !.declared = FALSE]]
             h == [y.g EXCEPT !.gen = Fresh, !.phase = "idle", !.decision = None,
                              !.dispatch = None, !.wait = None, !.repairUsed = FALSE,
                              !.idle = "none"]
  <1>1. Keeps(x, y) /\ y \in Contexts /\ y.g \in Goal
    <2>1. Stays(x.m, m)
      BY DEF Contexts, Memory, Stays, Holds, ClearContinuation, CancelTimer
    <2>2. Keeps(x, y)
      BY <2>1, KeepsMemory
    <2> QED BY <2>2 DEF Keeps, Contexts
  <1>2. Saves(y.g, h)
    BY <1>1 DEF Saves, Goal, GoalSound, Idle
  <1> HIDE DEF y, h
  <1>3. Keeps(x, Update(y, h))
    BY <1>1, <1>2, UpdateKeeps, KeepsTwice
  <1> QED BY <1>1, <1>3 DEF Takeover, y, h

LEMMA RejectKeeps ==
  ASSUME NEW x \in Contexts
  PROVE  Keeps(x, Reject(x))
  <1>1. Stays(x.m, [CancelTimer(x.m) EXCEPT !.denied = TRUE, !.abort = TRUE, !.cont = FALSE])
    BY DEF Contexts, Memory, Stays, Holds, CancelTimer
  <1> QED BY <1>1, KeepsMemory DEF Reject

LEMMA BeginKeeps ==
  ASSUME NEW x \in Contexts
  PROVE  Keeps(x, Begin(x))
  <1>1. Stays(x.m, [CancelTimer(x.m) EXCEPT !.inRun = TRUE, !.declared = FALSE, !.cont = FALSE])
    BY DEF Contexts, Memory, Stays, Holds, CancelTimer
  <1> QED BY <1>1, KeepsMemory, KeepsItself DEF Begin

LEMMA RestoreKeeps ==
  ASSUME NEW x \in Contexts, Fresh \in Uuids
  PROVE  Keeps(x, Restore(x))
  <1> DEFINE y == Reconcile(x)
  <1>1. Keeps(x, y) /\ y \in Contexts
    BY ReconcileKeeps DEF Keeps
  <1> HIDE DEF y
  <1>2. Keeps(x, Pause(y)) /\ Keeps(x, Schedule(y))
    BY <1>1, PauseKeeps, ScheduleKeeps, KeepsTwice
  <1> QED BY <1>1, <1>2 DEF Restore, y

Waits == {w \in Wait : w.due => w.checks # None}

LEMMA DeclareKeeps ==
  ASSUME NEW x \in Contexts, Fresh \in Uuids, NEW decision \in {"ready", "wait"},
         NEW wait \in Waits \cup {None}, decision = "wait" => wait # None
  PROVE  Keeps(x, Declare(x, decision, wait))
  <1> DEFINE h == [x.g EXCEPT !.phase = IF decision = "wait" THEN "waiting" ELSE "ready",
                              !.decision = decision, !.wait = wait,
                              !.idle = IF Strict(x.g) THEN "none" ELSE @,
                              !.dispatch = None, !.gen = Fresh]
             z == Wrote(x, h)
  <1>1. Saves(x.g, h)
    <2>1. x.g \in Goal /\ h \in Goal
      BY DEF Contexts, Goal, Purposes, Waits, Wait, Idle
    <2>2. /\ h.used = x.g.used /\ h.active = x.g.active /\ h.decision = decision
          /\ h.wait = wait
          /\ h.phase = IF decision = "wait" THEN "waiting" ELSE "ready"
      BY <2>1 DEF Goal
    <2>3. wait # None /\ wait.due => wait.checks # None
      BY DEF Waits
    <2>4. GoalSound(h)
      BY <2>2, <2>3 DEF GoalSound, Purposes
    <2> HIDE DEF h
    <2> QED BY <2>1, <2>2, <2>4, SavesUnclaimed
  <1>2. CASE Owned(x) /\ Available(x.g) /\ x.w > 0
    <2>1. Keeps(x, z)
      BY <1>1, <1>2, WroteKeeps
    <2> HIDE DEF h, z
    <2>2. Stays(z.m, [z.m EXCEPT !.declared = TRUE]) /\ z \in Contexts
      BY <2>1 DEF Keeps, Contexts, Stays, Holds, Memory
    <2>3. Keeps(x, [z EXCEPT !.m = [z.m EXCEPT !.declared = TRUE]])
      BY <2>1, <2>2, KeepsMemory, KeepsTwice
    <2> QED BY <1>2, <2>3 DEF Declare, h, z
  <1>3. CASE ~(Owned(x) /\ Available(x.g) /\ x.w > 0)
    BY <1>3, KeepsItself DEF Declare
  <1> QED BY <1>2, <1>3

LEMMA SettleKeeps ==
  ASSUME NEW x \in Contexts, Fresh \in Uuids, NEW successful \in BOOLEAN, NEW worked \in BOOLEAN
  PROVE  Keeps(x, SettleRun(x, successful, worked))
  <1> DEFINE y == [x EXCEPT !.m.denied = FALSE]
             h == [x.g EXCEPT !.phase = "ready", !.dispatch = None, !.decision = "repair"]
             i == PaceIdle(ImplicitReady(x.g), worked)
  <1>1. Keeps(x, Schedule(y))
    <2>1. Stays(x.m, [x.m EXCEPT !.denied = FALSE])
      BY DEF Contexts, Memory, Stays, Holds
    <2>2. Keeps(x, y)
      BY <2>1, KeepsMemory
    <2> QED BY <2>2, ScheduleKeeps, KeepsTwice, KeepsTyped
  <1>2. /\ Keeps(x, x) /\ Keeps(x, Stopped(x)) /\ Keeps(x, Schedule(x)) /\ Keeps(x, Pause(x))
    BY KeepsItself, StoppedKeeps, ScheduleKeeps, PauseKeeps
  <1>3. Keeps(x, UpdateAndSchedule(x, i))
    <2>1. Saves(x.g, ImplicitReady(x.g)) /\ ImplicitReady(x.g).phase = "ready"
      BY ImplicitReadySaves DEF Contexts
    <2>2. Saves(ImplicitReady(x.g), i)
      BY <2>1, PaceIdleSaves DEF Saves
    <2>3. Saves(x.g, i)
      BY <2>1, <2>2 DEF Saves
    <2> HIDE DEF i
    <2> QED BY <2>3, UpdateKeeps
  <1>4. ~x.g.repairUsed => Keeps(x, UpdateAndSchedule(x, h))
    <2> SUFFICES ASSUME ~x.g.repairUsed PROVE Keeps(x, UpdateAndSchedule(x, h))
      OBVIOUS
    <2>1. Saves(x.g, h)
      BY DEF Contexts, Saves, Goal, GoalSound, Purposes
    <2> HIDE DEF h
    <2> QED BY <2>1, UpdateKeeps
  <1> HIDE DEF y, h, i
  <1> QED BY <1>1, <1>2, <1>3, <1>4 DEF SettleRun, y, h, i
-----------------------------------------------------------------------------
(* Admitting a checkpoint, claiming one, and pi's events.                   *)

\* The checkpoint c is admitted: its run starts.
Admits(x, y, c) ==
    /\ Matches(x.g, c)
    /\ y \in Contexts /\ y.s = x.s
    /\ y.g = [x.g EXCEPT !.phase = "running"]
    /\ Holds(y.m) \subseteq Holds(x.m)

LEMMA AdmitMoves ==
  ASSUME NEW x \in Contexts, NEW c
  PROVE  Keeps(x, Admit(x, c)) \/ Admits(x, Admit(x, c), c)
  <1> DEFINE y == Reconcile(x)
             h == [y.g EXCEPT !.phase = "running"]
             z == Wrote(y, h)
             r == Reconcile(y)
  <1>1. /\ Keeps(x, x) /\ Keeps(x, y) /\ Keeps(x, Reject(y)) /\ y \in Contexts /\ y.g = x.g
    BY KeepsItself, ReconcileKeeps, RejectKeeps, KeepsTwice, KeepsTyped
  <1>2. /\ r \in Contexts /\ r.s = y.s /\ r.g = y.g /\ Holds(r.m) \subseteq Holds(y.m)
    BY <1>1, ReconcileKeeps DEF Keeps
  <1> HIDE DEF y, r
  <1>3. ASSUME Matches(y.g, c), y.w > 0
        PROVE  Admits(x, z, c)
    <2>1. h \in Goal /\ y.w \in Nat
      BY <1>1 DEF Contexts, Goal
    <2>2. y.w - 1 \in Nat
      BY <1>3, <2>1
    <2> HIDE DEF h
    <2>3. z = [r EXCEPT !.g = h, !.w = y.w - 1]
      BY DEF Wrote, r
    <2>4. z \in Contexts /\ z.s = r.s /\ z.g = h /\ z.m = r.m
      BY <1>2, <2>1, <2>2, <2>3 DEF Contexts
    <2>5. z.s = x.s /\ Holds(z.m) \subseteq Holds(x.m)
      BY <1>1, <1>2, <2>4 DEF Keeps
    <2> QED BY <1>1, <1>3, <2>4, <2>5 DEF Admits, h
  <1> QED BY <1>1, <1>3 DEF Admit, y

LEMMA KeepsAdmits ==
  ASSUME NEW x, NEW y, NEW z, NEW c, Keeps(x, y), Admits(y, z, c)
  PROVE  Admits(x, z, c)
  <1>1. y.g = x.g
    BY DEF Keeps, Admits, Matches
  <1> QED BY <1>1 DEF Keeps, Admits

LEMMA MessageMoves ==
  ASSUME NEW x \in Contexts, Fresh \in Uuids, NEW c
  PROVE  \/ Keeps(x, Message(x, c))
         \/ c # None /\ Admits(x, Message(x, c), c)
  BY KeepsItself, TakeoverKeeps, AdmitMoves DEF Message

\* A run is claimed: the allowance is charged, and the checkpoint that is sent,
\* if any, has an id nobody held.
Claims(x, z) ==
    /\ z \in Contexts /\ z.s = x.s
    /\ z.g.used = x.g.used + 1
    /\ z.g.phase # "running"
    /\ z.g.active /\ z.g.phase = "claimed" => z.g.dispatch = Fresh
    /\ GoalSound(z.g)
    /\ x.g.decision = "repair" => ~x.g.repairUsed
    /\ \A c \in Holds(z.m) : c \in Holds(x.m) \/ c.dispatch = Fresh

LEMMA ClaimedSound ==
  ASSUME NEW g \in Goal, Fresh \in Uuids, Kind(g) # None, Available(g), GoalSound(g)
  PROVE  /\ Claimed(g) \in Goal /\ GoalSound(Claimed(g))
         /\ Claimed(g).used = g.used + 1
         /\ Claimed(g).phase = "claimed" /\ Claimed(g).dispatch = Fresh
         /\ Claimed(g).gen = g.gen
         /\ g.decision = "repair" => ~g.repairUsed
  <1>1. Charged(g) \in Waits \cup {None}
    <2>1. CASE g.wait = None
      BY <2>1 DEF Charged
    <2>2. CASE g.wait # None
      <3>1. g.wait \in Wait /\ (g.wait.due => g.wait.checks # None)
        BY <2>2 DEF Goal, GoalSound
      <3>2. Kind(g) = "check" => g.wait.checks \in 1 .. MaxChecks
        BY <3>1, SchedulerAssumption DEF Kind, Wait, Purposes
      <3>3. Kind(g) = "check" => g.wait.checks - 1 \in 0 .. MaxChecks
        BY <3>2, SchedulerAssumption
      <3>4. Charged(g) \in Wait
        BY <2>2, <3>1, <3>3 DEF Charged, Wait
      <3>5. Kind(g) = "check" => Charged(g).checks = g.wait.checks - 1
        BY <2>2, <3>1 DEF Charged, Wait
      <3>6. Charged(g).due = g.wait.due
        BY <2>2, <3>1 DEF Charged, Wait
      <3>7. Kind(g) # "check" => Charged(g).checks = g.wait.checks
        BY <2>2, <3>1 DEF Charged, Wait
      <3>8. None \notin 0 .. MaxChecks
        BY NoneAssumption
      <3>9. Charged(g).due => Charged(g).checks # None
        BY <3>1, <3>3, <3>5, <3>6, <3>7, <3>8
      <3> QED BY <3>4, <3>9 DEF Waits
    <2> QED BY <2>1, <2>2
  <1> DEFINE h == Claimed(g)
             repaired == IF Kind(g) = "repair" THEN TRUE
                         ELSE g.repairUsed /\ Kind(g) = "recovery"
  <1>2. g.used + 1 \in 0 .. Limit /\ repaired \in BOOLEAN
    <2>1. g.used \in 0 .. Limit /\ g.used < Limit /\ g.repairUsed \in BOOLEAN
      BY DEF Goal, Available
    <2>2. g.used + 1 \in 0 .. Limit
      BY <2>1, SchedulerAssumption
    <2>3. repaired \in BOOLEAN
      BY ONLY <2>1, Zenon
    <2> QED BY <2>2, <2>3
  <1>3. h = [g EXCEPT !.used = g.used + 1, !.phase = "claimed", !.dispatch = Fresh,
                      !.repairUsed = repaired, !.wait = Charged(g)]
    BY DEF Claimed
  <1> HIDE DEF h, repaired
  <1>4. /\ h \in Goal /\ h.used = g.used + 1 /\ h.phase = "claimed" /\ h.dispatch = Fresh
        /\ h.gen = g.gen /\ h.wait = Charged(g)
    BY <1>1, <1>2, <1>3 DEF Goal, Waits
  <1>5. GoalSound(h)
    BY <1>1, <1>4, NoneAssumption DEF GoalSound, Waits
  <1>6. g.phase \in {"ready", "waiting"}
    BY DEF Kind
  <1>7. g.decision = "repair" => ~g.repairUsed
    BY <1>6 DEF GoalSound
  <1> QED BY <1>4, <1>5, <1>7 DEF h

LEMMA ClaimMoves ==
  ASSUME NEW x \in Contexts, GoalSound(x.g), Fresh \in Uuids, NEW sent \in BOOLEAN
  PROVE  Keeps(x, Claim(x, sent)) \/ Claims(x, Claim(x, sent))
  <1> DEFINE gen == x.m.armed
             y == Reconcile([x EXCEPT !.m.armed = None])
             g == IF LostRepair(y.g) THEN ImplicitReady(y.g) ELSE y.g
             h == Claimed(g)
             z == Wrote(y, h)
             q == [gen |-> z.g.gen, dispatch |-> z.g.dispatch]
  <1>1. Keeps(x, y) /\ y.g = x.g /\ y \in Contexts /\ y.g \in Goal
    <2>1. Stays(x.m, [x.m EXCEPT !.armed = None])
      BY DEF Contexts, Memory, Stays, Holds
    <2>2. Keeps(x, [x EXCEPT !.m.armed = None]) /\ [x EXCEPT !.m.armed = None].g = x.g
      BY <2>1, KeepsMemory
    <2> QED BY <2>2, ReconcileKeeps, KeepsTwice, KeepsTyped DEF Contexts
  <1> HIDE DEF y
  <1>2. Saves(y.g, g) /\ g \in Goal
    BY <1>1, ImplicitReadySaves DEF Saves
  <1>3. CanClaim(y, gen) => Keeps(x, Schedule(Wrote(y, g)))
    <2> SUFFICES ASSUME CanClaim(y, gen) PROVE Keeps(x, Schedule(Wrote(y, g)))
      OBVIOUS
    <2> HIDE DEF g
    <2>1. Keeps(y, Wrote(y, g))
      BY <1>1, <1>2, WroteKeeps DEF CanClaim
    <2>2. Keeps(Wrote(y, g), Schedule(Wrote(y, g)))
      BY <2>1, ScheduleKeeps DEF Keeps
    <2> QED BY <1>1, <2>1, <2>2, KeepsTwice
  <1>4. Keeps(x, x) /\ Keeps(x, Pause(y))
    BY <1>1, KeepsItself, PauseKeeps, KeepsTwice
  <1>5. ASSUME CanClaim(y, gen), Kind(g) # None
        PROVE  Claims(x, [z EXCEPT !.m.queue = q]) /\ Claims(x, Pause(z))
    <2> USE <1>5
    <2>1. /\ GoalSound(g)
          /\ x.g.decision = "repair" => ~x.g.repairUsed
      <3>1. g.phase \in {"ready", "waiting"}
        BY DEF Kind
      <3>2. CASE LostRepair(y.g)
        BY <1>1, <1>2, <3>2 DEF Saves, GoalSound, LostRepair
      <3>3. CASE ~LostRepair(y.g)
        BY <1>1, <3>1, <3>3 DEF GoalSound
      <3> QED BY <3>2, <3>3
    <2>2. g.used = x.g.used /\ Available(g)
      BY <1>1, <1>2 DEF Saves, CanClaim, Available
    <2> HIDE DEF g
    <2>3. /\ h \in Goal /\ h.used = x.g.used + 1 /\ h.phase = "claimed"
          /\ h.dispatch = Fresh /\ GoalSound(h)
      BY <1>2, <2>1, <2>2, ClaimedSound
    <2>4. /\ z \in Contexts /\ z.s = x.s /\ z.g = h /\ Holds(z.m) \subseteq Holds(x.m)
      <3> HIDE DEF h
      <3>1. LET r == Reconcile(y) IN
            r \in Contexts /\ r.s = x.s /\ Holds(r.m) \subseteq Holds(x.m)
        BY <1>1, ReconcileKeeps DEF Keeps
      <3>2. y.w \in Nat /\ y.w > 0
        BY <1>1 DEF Contexts, CanClaim
      <3>3. y.w - 1 \in Nat
        BY <3>2
      <3> QED BY <2>3, <3>1, <3>3 DEF Wrote, Contexts
    <2> HIDE DEF h, z
    <2>5. Claims(x, z)
      BY <2>1, <2>3, <2>4 DEF Claims
    <2>6. Claims(x, Pause(z))
      <3>1. Keeps(z, Pause(z))
        BY <2>4, PauseKeeps
      <3> QED BY <2>5, <3>1 DEF Keeps, Claims
    <2>7. Claims(x, [z EXCEPT !.m.queue = q])
      <3>1. q \in Checkpoint /\ q.dispatch = Fresh
        <4>1. h.gen \in Uuids /\ h.dispatch = Fresh /\ z.g = h
          BY <2>3, <2>4 DEF Goal
        <4> QED BY <4>1 DEF Checkpoint
      <3> HIDE DEF q
      <3>2. [z.m EXCEPT !.queue = q] \in Memory
            /\ Holds([z.m EXCEPT !.queue = q]) \subseteq Holds(z.m) \cup {q}
        BY <2>4, <3>1 DEF Contexts, Memory, Holds
      <3> DEFINE y2 == [z EXCEPT !.m.queue = q]
      <3>3. y2 \in Contexts /\ y2.s = z.s /\ y2.g = z.g /\ y2.m = [z.m EXCEPT !.queue = q]
        BY <2>4, <3>2 DEF Contexts
      <3> HIDE DEF y2
      <3>4. Claims(x, y2)
        BY <2>5, <3>1, <3>2, <3>3 DEF Claims
      <3> QED BY <3>4 DEF y2
    <2> QED BY <2>6, <2>7
  <1> HIDE DEF g, h, z, q
  <1> QED BY <1>1, <1>3, <1>4, <1>5 DEF Claim, y, g, h, z, q
LEMMA PreparePromptKeeps ==
  ASSUME NEW x \in Contexts, Fresh \in Uuids
  PROVE  Keeps(x, PreparePrompt(x))
  <1> DEFINE h == [x.g EXCEPT !.phase = "idle", !.gen = Fresh]
             y == IF ~Held(x) THEN x
                  ELSE IF x.w = 0 THEN Stopped(x)
                  ELSE IF x.g.owner = x.s /\ x.g.phase = "interrupted" THEN Wrote(x, h)
                  ELSE Wrote(x, x.g)
             m == [ClearContinuation(y.m, TRUE) EXCEPT !.held = FALSE, !.pc = "prep", !.msg = None]
             z == [y EXCEPT !.m = m]
  <1>1. Saves(x.g, h) /\ Saves(x.g, x.g)
    BY DEF Contexts, Goal, Saves, GoalSound
  <1>2. Keeps(x, y)
    <2> HIDE DEF h
    <2>1. Keeps(x, x) /\ Keeps(x, Stopped(x))
      BY KeepsItself, StoppedKeeps
    <2>2. x.w # 0 => Keeps(x, Wrote(x, h)) /\ Keeps(x, Wrote(x, x.g))
      <3>1. x.w # 0 => x.w > 0
        BY DEF Contexts
      <3> QED BY <1>1, <3>1, WroteKeeps
    <2> QED BY <2>1, <2>2
  <1> HIDE DEF y
  <1>3. y \in Contexts
    BY <1>2 DEF Keeps
  <1>4. Stays(y.m, m)
    <2> DEFINE c == ClearContinuation(y.m, TRUE)
    <2>1. Stays(y.m, c)
      BY <1>3, CancelStays DEF Contexts
    <2> HIDE DEF c
    <2>2. Stays(c, [c EXCEPT !.held = FALSE, !.pc = "prep", !.msg = None])
      BY <2>1 DEF Memory, Stays, Holds
    <2> QED BY <2>1, <2>2 DEF Stays, c
  <1> HIDE DEF m
  <1>5. Keeps(x, z) /\ z \in Contexts
    BY <1>2, <1>3, <1>4, KeepsMemory, KeepsTwice, KeepsTyped
  <1> HIDE DEF z
  <1>6. Keeps(x, Reconcile(z))
    BY <1>5, ReconcileKeeps, KeepsTwice
  <1> QED BY <1>6 DEF PreparePrompt, y, z, m, h

LEMMA PrepareCheckpointKeeps ==
  ASSUME NEW x \in Contexts
  PROVE  Keeps(x, PrepareCheckpoint(x))
  <1> DEFINE m == [ClearContinuation(x.m, FALSE) EXCEPT !.pc = "prep", !.msg = x.m.queue,
                                                        !.queue = None]
             z == [x EXCEPT !.m = m]
             y == Reconcile(z)
  <1>1. Stays(x.m, m)
    BY DEF Contexts, Memory, Stays, Holds, ClearContinuation, CancelTimer
  <1> HIDE DEF m
  <1>2. Keeps(x, z) /\ z \in Contexts
    BY <1>1, KeepsMemory, KeepsTyped
  <1> HIDE DEF z
  <1>3. Keeps(x, y) /\ y \in Contexts
    BY <1>2, ReconcileKeeps, KeepsTwice, KeepsTyped
  <1>4. Keeps(x, Reject(y))
    BY <1>3, RejectKeeps, KeepsTwice
  <1> QED BY <1>3, <1>4 DEF PrepareCheckpoint, y, z, m

LEMMA EndRunKeeps ==
  ASSUME NEW x \in Contexts, NEW outcome
  PROVE  Keeps(x, EndRun(x, outcome))
  <1> DEFINE m == [x.m EXCEPT !.pc = "ended", !.after = "none"]
             y == [x EXCEPT !.m.pc = "ended", !.m.after = "none"]
             n == ClearContinuation(m, FALSE)
             z == [y EXCEPT !.m = ClearContinuation(@, FALSE)]
  <1>1. Stays(x.m, m) /\ m \in Memory
    BY DEF Contexts, Memory, Stays, Holds
  <1>2. y = [x EXCEPT !.m = m]
    BY DEF Contexts
  <1>3. Keeps(x, y) /\ y \in Contexts /\ y.m = m
    BY <1>1, <1>2, KeepsMemory, KeepsTyped DEF Contexts
  <1> HIDE DEF m, y
  <1>4. Keeps(x, z) /\ z \in Contexts
    BY <1>1, <1>3, CancelStays, KeepsMemory, KeepsTwice, KeepsTyped
  <1> HIDE DEF z
  <1>5. Keeps(x, PauseActive(z))
    BY <1>4, PauseActiveKeeps, KeepsTwice
  <1>6. Keeps(x, [z EXCEPT !.m.after = "network"])
    <2>1. Stays(z.m, [z.m EXCEPT !.after = "network"])
      BY <1>4 DEF Contexts, Memory, Stays, Holds
    <2> QED BY <1>4, <2>1, KeepsMemory, KeepsTwice
  <1>7. Keeps(x, [z EXCEPT !.m.after = "continue", !.m.retry = FALSE])
    <2>1. Stays(z.m, [z.m EXCEPT !.after = "continue", !.retry = FALSE])
      BY <1>4 DEF Contexts, Memory, Stays, Holds
    <2>2. [z EXCEPT !.m.after = "continue", !.m.retry = FALSE]
            = [z EXCEPT !.m = [z.m EXCEPT !.after = "continue", !.retry = FALSE]]
      BY <1>4 DEF Contexts
    <2> QED BY <1>4, <2>1, <2>2, KeepsMemory, KeepsTwice
  <1> QED BY <1>3, <1>4, <1>5, <1>6, <1>7 DEF EndRun, y, z

LEMMA FinishKeeps ==
  ASSUME NEW x \in Contexts, Fresh \in Uuids, NEW worked \in BOOLEAN
  PROVE  Keeps(x, Finish(x, worked))
  <1> DEFINE m     == [x.m EXCEPT !.pc = "idle", !.inRun = FALSE,
                                  !.after = "none", !.abort = FALSE]
             idle  == [x EXCEPT !.m.pc = "idle", !.m.inRun = FALSE,
                                !.m.after = "none", !.m.abort = FALSE]
             quiet == [idle EXCEPT !.m.ignore = FALSE]
             ok    == x.m.after = "continue" /\ Actionable(x)
             y     == SettleRun(quiet, ok, worked)
             z     == IF x.m.ignore /\ ~Held(x) THEN Schedule(y) ELSE y
             b     == z.m.retry \/ (x.m.after = "network" /\ Actionable(z))
             e     == [z EXCEPT !.err = TRUE, !.m.retry = b]
  <1>1. Keeps(x, idle)
    <2>1. Stays(x.m, m)
      BY DEF Contexts, Memory, Stays, Holds
    <2>2. idle = [x EXCEPT !.m = m]
      BY DEF Contexts
    <2> QED BY <2>1, <2>2, KeepsMemory
  <1> HIDE DEF idle
  <1>2. Keeps(x, quiet)
    <2>1. Stays(idle.m, [idle.m EXCEPT !.ignore = FALSE])
      <3>1. idle.m \in Memory
        BY <1>1, KeepsTyped
      <3> DEFINE n == idle.m
      <3> HIDE DEF n
      <3>2. n \in Memory
        BY <3>1 DEF n
      <3>3. Stays(n, [n EXCEPT !.ignore = FALSE])
        BY ONLY <3>2 DEF Memory, Stays, Holds
      <3> QED BY <3>3 DEF n
    <2>2. Keeps(idle, quiet)
      BY <1>1, <2>1, KeepsMemory, KeepsTyped
    <2> QED BY <1>1, <2>2, KeepsTwice
  <1> HIDE DEF quiet
  <1>3. Keeps(x, y) /\ Keeps(x, SettleRun(idle, FALSE, worked))
    <2>1. ok \in BOOLEAN
      BY Zenon DEF Actionable, Held, Contexts
    <2> HIDE DEF ok
    <2> QED BY <1>1, <1>2, <2>1, SettleKeeps, KeepsTwice, KeepsTyped
  <1> HIDE DEF y, ok
  <1>4. Keeps(x, z)
    BY <1>3, ScheduleKeeps, KeepsTwice, KeepsTyped
  <1> HIDE DEF z
  <1>5. Keeps(x, e)
    <2>1. b \in BOOLEAN
      BY <1>4, KeepsTyped DEF Memory
    <2> HIDE DEF b
    <2>2. /\ e \in Contexts /\ e.s = z.s /\ e.g = z.g
          /\ e.m.queue = z.m.queue /\ e.m.msg = z.m.msg
      <3> DEFINE n == [z.m EXCEPT !.retry = b]
      <3>1. n \in Memory /\ n.queue = z.m.queue /\ n.msg = z.m.msg
        BY <1>4, <2>1, KeepsTyped DEF Memory
      <3>2. e = [z EXCEPT !.err = TRUE, !.m = n]
        BY <1>4, KeepsTyped DEF Contexts
      <3>3. z \in Contexts
        BY <1>4, KeepsTyped
      <3> HIDE DEF n, e
      <3>4. e \in Contexts /\ e.s = z.s /\ e.g = z.g /\ e.m = n
        BY <3>1, <3>2, <3>3 DEF Contexts
      <3> QED BY <3>1, <3>4
    <2> HIDE DEF e
    <2> QED BY <1>4, <2>2 DEF Keeps, Holds
  <1> HIDE DEF b, e
  <1> QED BY <1>3, <1>4, <1>5 DEF Finish, idle, quiet, ok, y, z, b, e

LEMMA CancelledStartKeeps ==
  ASSUME NEW x \in Contexts, Fresh \in Uuids
  PROVE  Keeps(x, CancelledStart(x))
  <1> DEFINE y == IF x.m.denied \/ x.m.ignore \/ Held(x) THEN x ELSE PauseActive(x)
  <1>1. Keeps(x, y)
    BY KeepsItself, PauseActiveKeeps
  <1> HIDE DEF y
  <1>2. Keeps(y, Finish(y, FALSE))
    BY <1>1, FinishKeeps, KeepsTyped
  <1> QED BY <1>1, <1>2, KeepsTwice DEF CancelledStart, y

-----------------------------------------------------------------------------
(* Steps.                                                                   *)

\* The contexts that actions start from: the goal file and the session's
\* memory, perhaps with a checkpoint less.
From(s) == {x \in Contexts : x.s = s /\ x.g = goal /\ Holds(x.m) \subseteq Holds(mem[s])}

\* The step of a session s from x to y.
Becomes(s, y) == y \in Contexts /\ y.s = s /\ Become(y)

LEMMA BecomeTypes ==
  ASSUME TypeOK, NEW s \in Sessions, NEW y, Becomes(s, y)
  PROVE  /\ goal' = y.g /\ goal' \in Goal
         /\ mem' \in [Sessions -> Memory] /\ mem'[s] = y.m
         /\ \A r \in Sessions \ {s} : mem'[r] = mem[r]
         /\ failed' \in [Sessions -> BOOLEAN]
  BY DEF TypeOK, Becomes, Become, Contexts, Memory

LEMMA ContextFrom ==
  ASSUME TypeOK, NEW s \in Sessions, NEW w \in Nat
  PROVE  Context(s, w) \in From(s) /\ Context(s, w).m = mem[s]
  BY DEF TypeOK, Context, From, Contexts

LEMMA WritesNat == Writes \subseteq Nat /\ UnreadWrites \subseteq Nat
  BY DEF Writes, UnreadWrites

\* A step that keeps what a handler keeps.
LEMMA KeptStep ==
  ASSUME SchedulerInv, NEW s \in Sessions, NEW x \in From(s), NEW y, Keeps(x, y), Step(y)
  PROVE  SchedulerInv' /\ started' = started /\ goal'.used = goal.used /\ ~Starts
  <1>1. Becomes(s, y) /\ y.g.used = goal.used
    BY DEF Becomes, Step, From, Keeps
  <1>2. ~Starts
    BY DEF Starts, Step, Become, Keeps, From
  <1>3. started' = started /\ grant' = grant /\ acts' = acts /\ strict' = strict
    BY <1>1, <1>2, BecomeTypes DEF Step, SchedulerInv, TypeOK, Goal
  <1>4. TypeOK'
    BY <1>1, <1>3, BecomeTypes DEF TypeOK, SchedulerInv
  <1>5. GoalSound(goal')
    BY <1>1, BecomeTypes DEF SchedulerInv, Keeps, From
  <1>6. Paid'
    BY <1>1, <1>3, BecomeTypes DEF SchedulerInv, Keeps, From, Paid
  <1>7. Granted'
    <2> SUFFICES ASSUME NEW r \in Sessions, NEW c \in Holds(mem'[r]),
                        goal'.active, goal'.phase = "claimed", c.dispatch = goal'.dispatch
                 PROVE  grant = r
      BY <1>3 DEF Granted, Holds
    <2>1. goal' = goal
      BY <1>1, BecomeTypes DEF SchedulerInv, Keeps, From
    <2>2. c \in Holds(mem[r])
      BY <1>1, BecomeTypes DEF SchedulerInv, Keeps, From
    <2> QED BY <2>1, <2>2 DEF SchedulerInv, Granted, Holds
  <1> QED BY <1>1, <1>2, <1>3, <1>4, <1>5, <1>6, <1>7, BecomeTypes DEF SchedulerInv
\* What the user's message makes of the goal.
LEMMA KeptUserStep ==
  ASSUME SchedulerInv, NEW s \in Sessions, NEW x \in From(s), NEW y, Keeps(x, y), UserStep(y),
         acts' \in 0 .. MaxActs
  PROVE  SchedulerInv' /\ started' = started /\ goal'.used = goal.used /\ ~Starts
  <1>1. Becomes(s, y) /\ y.g.used = goal.used
    BY DEF Becomes, UserStep, From, Keeps
  <1>2. ~Starts
    BY DEF Starts, UserStep, Become, Keeps, From
  <1>3. started' = started /\ strict' = strict /\ grant' = IF goal' # goal THEN None ELSE grant
    BY DEF UserStep
  <1>4. TypeOK'
    BY <1>1, <1>3, BecomeTypes DEF TypeOK, SchedulerInv
  <1>5. GoalSound(goal')
    BY <1>1, BecomeTypes DEF SchedulerInv, Keeps, From
  <1>6. Paid'
    BY <1>1, <1>3, BecomeTypes DEF SchedulerInv, Keeps, From, Paid
  <1>7. Granted'
    <2> SUFFICES ASSUME NEW r \in Sessions, NEW c \in Holds(mem'[r]),
                        goal'.active, goal'.phase = "claimed", c.dispatch = goal'.dispatch
                 PROVE  grant' = r
      BY DEF Granted, Holds
    <2>1. goal' = goal
      BY <1>1, BecomeTypes DEF SchedulerInv, Keeps, From
    <2>2. c \in Holds(mem[r])
      BY <1>1, BecomeTypes DEF SchedulerInv, Keeps, From
    <2> QED BY <1>3, <2>1, <2>2 DEF SchedulerInv, Granted, Holds
  <1> QED BY <1>1, <1>2, <1>3, <1>4, <1>5, <1>6, <1>7, BecomeTypes DEF SchedulerInv

\* A run starts.
LEMMA AdmittedStep ==
  ASSUME SchedulerInv, NEW s \in Sessions, NEW x \in From(s), NEW y, NEW c \in Holds(mem[s]),
         Admits(x, y, c), Step(y)
  PROVE  /\ SchedulerInv' /\ goal'.used = goal.used
         /\ started' = started + 1 /\ started < goal.used
         /\ \A r \in Sessions : mem'[r] # mem[r] => grant = r
  <1>1. /\ Becomes(s, y) /\ y.g.used = goal.used
        /\ goal.active /\ goal.phase = "claimed" /\ c.dispatch = goal.dispatch
    BY DEF Becomes, Step, From, Admits, Matches, SchedulerInv, TypeOK, Goal
  <1>2. goal' = [goal EXCEPT !.phase = "running"]
    BY <1>1, BecomeTypes DEF SchedulerInv, Admits, From
  <1>3. goal'.phase = "running" /\ goal'.used = goal.used
    BY <1>2 DEF SchedulerInv, TypeOK, Goal
  <1>4. started' = started + 1 /\ grant' = grant /\ acts' = acts /\ strict' = strict
    BY <1>1, <1>3 DEF Step, Starts, SchedulerInv, TypeOK, Goal
  <1>5. started < goal.used /\ started \in Nat /\ goal.used \in 0 .. Limit
    BY <1>1 DEF SchedulerInv, Paid, TypeOK, Goal
  <1>6. TypeOK'
    BY <1>1, <1>4, <1>5, BecomeTypes DEF TypeOK, SchedulerInv
  <1>7. GoalSound(goal')
    BY <1>1, <1>2 DEF SchedulerInv, TypeOK, Goal, GoalSound
  <1>8. Paid' /\ Granted'
    BY <1>3, <1>4, <1>5 DEF Paid, Granted
  <1>9. grant = s
    BY <1>1 DEF SchedulerInv, Granted, Holds
  <1>10. \A r \in Sessions : mem'[r] # mem[r] => grant = r
    BY <1>1, <1>9, BecomeTypes DEF SchedulerInv
  <1> QED BY <1>3, <1>4, <1>5, <1>6, <1>7, <1>8, <1>10 DEF SchedulerInv

\* A run is claimed.
LEMMA ClaimedStep ==
  ASSUME SchedulerInv, NEW s \in Sessions, NEW x \in From(s), NEW y, Claims(x, y), Step(y)
  PROVE  /\ SchedulerInv' /\ started' = started
         /\ goal.used < Limit /\ goal'.used = goal.used + 1 /\ ~Starts
         /\ goal.decision = "repair" => ~goal.repairUsed
  <1>1. /\ Becomes(s, y) /\ y.g.used = goal.used + 1 /\ y.g.phase # "running"
        /\ GoalSound(y.g)
        /\ goal.decision = "repair" => ~goal.repairUsed
    BY DEF Becomes, Step, From, Claims
  <1>2. ~Starts /\ goal' = y.g
    BY <1>1, BecomeTypes DEF SchedulerInv, Starts
  <1>3. goal.used \in Nat /\ goal'.used \in 0 .. Limit /\ goal'.used = goal.used + 1
    BY <1>1, BecomeTypes, SchedulerAssumption DEF SchedulerInv, TypeOK, Goal
  <1>4. started' = started /\ grant' = s /\ acts' = acts /\ strict' = strict
    BY <1>1, <1>2, <1>3 DEF Step, Becomes
  <1>5. TypeOK'
    BY <1>1, <1>4, BecomeTypes DEF TypeOK, SchedulerInv
  <1>6. Paid'
    BY <1>3, <1>4 DEF SchedulerInv, Paid, TypeOK
  <1>7. Granted'
    <2> SUFFICES ASSUME NEW r \in Sessions, NEW c \in Holds(mem'[r]),
                        goal'.active, goal'.phase = "claimed", c.dispatch = goal'.dispatch
                 PROVE  r = s
      BY <1>4 DEF Granted, Holds
    <2>1. c.dispatch = Fresh /\ Fresh \notin Referenced
      BY <1>1, <1>2, FreshIsFree DEF Claims, SchedulerInv, TypeOK
    <2>2. \A d \in Holds(mem[r]) : d.dispatch \in Referenced
      BY DEF Referenced, Holds
    <2> QED BY <1>1, <2>1, <2>2, BecomeTypes DEF SchedulerInv
  <1> QED BY <1>1, <1>2, <1>3, <1>4, <1>5, <1>6, <1>7, SchedulerAssumption DEF SchedulerInv

LEMMA NewRunSound ==
  ASSUME NEW s \in Sessions, Fresh \in Uuids
  PROVE  NewRun(s) \in Goal /\ GoalSound(NewRun(s))
  BY SchedulerAssumption DEF NewRun, Goal, GoalSound, Purposes, Idle

\* The user's resume: a new allowance, and no claim of the old one is left.
LEMMA ResumedStep ==
  ASSUME SchedulerInv, NEW s \in Sessions, Resume(s)
  PROVE  /\ SchedulerInv' /\ ~Starts
         /\ \/ goal'.used = 0 /\ started' = 0
            \/ goal'.used = goal.used /\ started' = started
  <1> USE DEF SchedulerInv
  <1>1. PICK w \in Writes :
           /\ Become(ResumeGoal(Context(s, w)))
           /\ started' = IF Limit > 0 /\ w > 0 THEN 0 ELSE started
           /\ grant' = IF Limit > 0 /\ w > 0 THEN None ELSE grant
    BY DEF Resume
  <1>2. /\ acts' \in 0 .. MaxActs /\ strict' = strict
    BY SchedulerAssumption DEF Resume, Act, TypeOK
  <1> DEFINE x == Context(s, w)
             y == [x EXCEPT !.m = ClearContinuation(@, TRUE)]
             h == [y EXCEPT !.m.held = FALSE, !.m.declared = y.m.inRun]
             z == Wrote(h, NewRun(y.s))
  <1>3. Keeps(x, x) /\ Keeps(x, y) /\ x \in From(s) /\ w \in Nat /\ x.w = w /\ y.w = w
    BY <1>1, ContextFrom, WritesNat, CancelStays, KeepsItself, KeepsMemory
       DEF From, Context, Contexts
  <1> HIDE DEF x, y
  <1>4. CASE Limit > 0 /\ w > 0
    <2>1. h \in Contexts /\ h.s = s /\ h.w = w /\ Holds(h.m) \subseteq Holds(mem[s])
      <3> DEFINE m == [y.m EXCEPT !.held = FALSE, !.declared = y.m.inRun]
      <3>1. y \in Contexts /\ y.s = s /\ Holds(y.m) \subseteq Holds(mem[s])
        BY <1>3 DEF Keeps, From
      <3>2. m \in Memory /\ Holds(m) = Holds(y.m)
        BY <3>1 DEF Contexts, Memory, Holds
      <3>3. h = [y EXCEPT !.m = m]
        BY <3>1 DEF Contexts
      <3> HIDE DEF m, h
      <3> QED BY <1>3, <3>1, <3>2, <3>3 DEF Contexts
    <2>2. NewRun(s) \in Goal /\ GoalSound(NewRun(s)) /\ NewRun(s).used = 0
          /\ NewRun(s).phase = "ready" /\ y.s = s
      BY <1>3, NewRunSound, FreshIsFree DEF TypeOK, NewRun, Keeps, From
    <2> HIDE DEF h
    <2>3. /\ z \in Contexts /\ z.s = s /\ z.g = NewRun(s) /\ Holds(z.m) \subseteq Holds(mem[s])
      <3> DEFINE r == Reconcile(h)
      <3>1. r \in Contexts /\ r.s = s /\ Holds(r.m) \subseteq Holds(h.m)
        BY <2>1, ReconcileKeeps DEF Keeps
      <3>2. h.w - 1 \in Nat
        BY <1>3, <1>4, <2>1
      <3> HIDE DEF r
      <3>3. z = [r EXCEPT !.g = NewRun(s), !.w = h.w - 1]
        BY <2>2 DEF Wrote, r
      <3> QED BY <2>1, <2>2, <3>1, <3>2, <3>3 DEF Contexts
    <2> HIDE DEF z
    <2>4. Keeps(z, Schedule(z))
      BY <2>3, ScheduleKeeps, FreshIsFree DEF TypeOK
    <2> DEFINE e == Schedule(z)
    <2>5. ResumeGoal(x) = e
      <3>1. Limit # 0 /\ y.w # 0
        BY <1>3, <1>4
      <3> QED BY <3>1 DEF ResumeGoal, y, h, z
    <2> HIDE DEF e
    <2>6. /\ Becomes(s, e) /\ e.g.used = 0 /\ e.g.phase \notin {"claimed", "running"}
          /\ GoalSound(e.g)
      BY <1>1, <2>2, <2>3, <2>4, <2>5 DEF Keeps, Becomes, x, e
    <2>7. goal' = e.g /\ started' = 0 /\ grant' = None
      BY <1>1, <1>4, <2>6, BecomeTypes
    <2>8. TypeOK' /\ Paid' /\ Granted'
      BY <1>2, <2>6, <2>7, BecomeTypes DEF TypeOK, Paid, Granted
    <2> QED BY <2>6, <2>7, <2>8 DEF Starts
  <1>5. CASE ~(Limit > 0 /\ w > 0)
    <2> DEFINE e == ResumeGoal(x)
               f == [y EXCEPT !.err = TRUE]
    <2>1. Limit = 0 \/ w = 0
      BY <1>3, <1>5, SchedulerAssumption
    <2>2. e = x \/ e = f
      BY <1>3, <2>1 DEF ResumeGoal, y
    <2>3. f \in Contexts /\ f.s = y.s /\ f.g = y.g /\ f.m = y.m /\ y.g = x.g
      <3>1. y \in Contexts /\ y.g = x.g
        BY <1>3, KeepsTyped DEF y, Contexts, From
      <3> QED BY <3>1 DEF Contexts
    <2> HIDE DEF e, f
    <2>4. /\ e \in Contexts /\ e.s = s /\ e.g = goal /\ Holds(e.m) \subseteq Holds(mem[s])
      BY <1>3, <2>2, <2>3 DEF Keeps, From
    <2>5. Becomes(s, e)
      BY <1>1, <2>4 DEF Becomes, x, e
    <2>6. goal' = goal /\ started' = started /\ grant' = grant
      BY <1>1, <1>5, <2>4, <2>5, BecomeTypes
    <2>7. TypeOK' /\ Paid'
      BY <1>2, <2>5, <2>6, BecomeTypes DEF TypeOK, Paid
    <2>8. Granted'
      <3> SUFFICES ASSUME NEW r \in Sessions, NEW c \in Holds(mem'[r]),
                          goal.active, goal.phase = "claimed", c.dispatch = goal.dispatch
                   PROVE  grant = r
        BY <2>6 DEF Granted, Holds
      <3>1. c \in Holds(mem[r])
        BY <2>4, <2>5, BecomeTypes
      <3> QED BY <3>1 DEF Granted, Holds
    <2> QED BY <2>6, <2>7, <2>8 DEF Starts
  <1> QED BY <1>4, <1>5

-----------------------------------------------------------------------------
(* The actions.                                                             *)

KeptBy(s) == \E x \in From(s) : \E y : Keeps(x, y) /\ Step(y)
KeptByUser(s) ==
    \E x \in From(s) : \E y : Keeps(x, y) /\ UserStep(y) /\ acts' \in 0 .. MaxActs
AdmittedBy(s) ==
    \E x \in From(s), c \in Holds(mem[s]) : \E y : Admits(x, y, c) /\ Step(y)
ClaimedBy(s) == \E x \in From(s) : \E y : Claims(x, y) /\ Step(y)

\* Contexts in which an action changed the memory first.
LEMMA FromMemory ==
  ASSUME TypeOK, NEW s \in Sessions, NEW x \in From(s), NEW m, Stays(x.m, m)
  PROVE  [x EXCEPT !.m = m] \in From(s)
  BY DEF From, Contexts, Stays

LEMMA ActAllowed ==
  ASSUME TypeOK, Act
  PROVE  acts' \in 0 .. MaxActs
  BY SchedulerAssumption DEF TypeOK, Act

LEMMA PromptKinds ==
  ASSUME SchedulerInv, NEW s \in Sessions,
         UserPrompt(s) \/ StartCheckpoint(s) \/ BeginRun(s) \/ CancelStart(s)
  PROVE  KeptBy(s) \/ KeptByUser(s) \/ AdmittedBy(s)
  <1> USE DEF SchedulerInv
  <1>1. Fresh \in Uuids
    BY FreshIsFree DEF TypeOK
  <1>2. CASE UserPrompt(s)
    <2>1. PICK w \in Writes : ActStep(PreparePrompt(Context(s, w)))
      BY <1>2 DEF UserPrompt
    <2>2. Context(s, w) \in From(s) /\ Context(s, w) \in Contexts
      BY ContextFrom, WritesNat DEF From
    <2> QED BY <1>1, <2>1, <2>2, PreparePromptKeeps, ActAllowed DEF KeptByUser, ActStep
  <1>3. CASE StartCheckpoint(s)
    <2>1. PICK w \in Writes : Step(PrepareCheckpoint(Context(s, w)))
      BY <1>3 DEF StartCheckpoint
    <2>2. Context(s, w) \in From(s) /\ Context(s, w) \in Contexts
      BY ContextFrom, WritesNat DEF From
    <2> QED BY <2>1, <2>2, PrepareCheckpointKeeps DEF KeptBy
  <1>4. CASE BeginRun(s)
    <2> DEFINE c == mem[s].msg
               x(w) == [Context(s, w) EXCEPT !.m.pc = "turn", !.m.msg = None]
               y(w) == Message(Begin(x(w)), mem[s].msg)
    <2>1. PICK w \in Writes : IF c = None THEN UserStep(y(w)) /\ UNCHANGED acts ELSE Step(y(w))
      BY <1>4 DEF BeginRun
    <2>2. x(w) \in From(s) /\ x(w) \in Contexts
      <3> DEFINE k == Context(s, w)
                 m == [k.m EXCEPT !.pc = "turn", !.msg = None]
      <3>1. k \in From(s)
        BY ContextFrom, WritesNat
      <3> HIDE DEF k
      <3>2. Stays(k.m, m)
        BY <3>1 DEF From, Contexts, Memory, Stays, Holds
      <3>3. [k EXCEPT !.m.pc = "turn", !.m.msg = None] = [k EXCEPT !.m = m]
        BY <3>1 DEF From, Contexts
      <3>4. [k EXCEPT !.m = m] \in From(s)
        BY <3>1, <3>2, FromMemory
      <3> HIDE DEF m
      <3>5. x(w) \in From(s)
        BY <3>3, <3>4 DEF k
      <3> QED BY <3>5 DEF From
    <2> HIDE DEF x
    <2>3. Keeps(x(w), Begin(x(w))) /\ Begin(x(w)) \in Contexts
      BY <2>2, BeginKeeps, KeepsTyped
    <2>4. Keeps(x(w), y(w)) \/ (c # None /\ Admits(x(w), y(w), c))
      BY <1>1, <2>3, MessageMoves, KeepsTwice, KeepsAdmits
    <2>5. c # None => c \in Holds(mem[s])
      BY DEF Holds
    <2>6. acts \in 0 .. MaxActs
      BY DEF TypeOK
    <2> HIDE DEF y, c
    <2> QED BY <2>1, <2>2, <2>4, <2>5, <2>6 DEF KeptBy, KeptByUser, AdmittedBy
  <1>5. CASE CancelStart(s)
    <2>1. PICK w \in UnreadWrites : Step(CancelledStart([Context(s, w) EXCEPT !.m.msg = None]))
      BY <1>5 DEF CancelStart
    <2> DEFINE k == Context(s, w)
    <2>2. k \in From(s)
      BY ContextFrom, WritesNat
    <2> HIDE DEF k
    <2>3. Stays(k.m, [k.m EXCEPT !.msg = None])
      BY <2>2 DEF From, Contexts, Memory, Stays, Holds
    <2>4. [k EXCEPT !.m.msg = None] \in From(s)
      BY <2>2, <2>3, FromMemory
    <2> QED BY <1>1, <2>1, <2>4, CancelledStartKeeps DEF KeptBy, From, k
  <1> QED BY <1>2, <1>3, <1>4, <1>5

LEMMA TurnKinds ==
  ASSUME SchedulerInv, NEW s \in Sessions,
         \/ Deliver(s) \/ Steer(s) \/ NextTurn(s) \/ DeclareReady(s) \/ DeclareWait(s)
         \/ StopGoal(s) \/ EndTurns(s) \/ ContinueRun(s) \/ Settled(s)
  PROVE  KeptBy(s) \/ KeptByUser(s) \/ AdmittedBy(s)
  <1> USE DEF SchedulerInv
  <1>1. Fresh \in Uuids
    BY FreshIsFree DEF TypeOK
  <1>2. \A w \in Writes : Context(s, w) \in From(s) /\ Context(s, w) \in Contexts
    BY ContextFrom, WritesNat DEF From
  <1>3. CASE Deliver(s)
    <2> DEFINE c == mem[s].queue
               x(w) == [Context(s, w) EXCEPT !.m.queue = None]
    <2>1. PICK w \in Writes : Step(Admit(Turn(x(w)), c))
      BY <1>3 DEF Deliver
    <2>2. c \in Holds(mem[s])
      BY <1>3 DEF Deliver, Holds
    <2>3. x(w) \in From(s)
      <3> DEFINE k == Context(s, w)
      <3>1. k \in From(s)
        BY <1>2
      <3> HIDE DEF k
      <3>2. Stays(k.m, [k.m EXCEPT !.queue = None])
        BY <3>1 DEF From, Contexts, Memory, Stays, Holds
      <3> QED BY <3>1, <3>2, FromMemory DEF k
    <2> HIDE DEF x, c
    <2>4. Keeps(x(w), Turn(x(w))) /\ Turn(x(w)) \in Contexts
      BY <1>1, <2>3, TurnKeeps, KeepsTyped DEF From
    <2>5. \/ Keeps(x(w), Admit(Turn(x(w)), c))
          \/ Admits(x(w), Admit(Turn(x(w)), c), c)
      BY <2>4, AdmitMoves, KeepsTwice, KeepsAdmits
    <2> QED BY <2>1, <2>2, <2>3, <2>5 DEF KeptBy, AdmittedBy
  <1>4. CASE Steer(s)
    <2>1. PICK w \in Writes : ActStep(Message(Turn(Context(s, w)), None))
      BY <1>4 DEF Steer
    <2> DEFINE x == Context(s, w)
    <2>2. x \in From(s) /\ x \in Contexts
      BY <1>2
    <2> HIDE DEF x
    <2>3. Keeps(x, Turn(x)) /\ Turn(x) \in Contexts
      BY <1>1, <2>2, TurnKeeps, KeepsTyped
    <2>4. Keeps(x, Message(Turn(x), None))
      BY <1>1, <2>3, MessageMoves, KeepsTwice
    <2> QED BY <2>1, <2>2, <2>4, ActAllowed DEF KeptByUser, ActStep, x
  <1>5. CASE NextTurn(s)
    BY <1>1, <1>2, <1>5, TurnKeeps DEF NextTurn, KeptBy
  <1>6. CASE DeclareReady(s)
    BY <1>1, <1>2, <1>6, DeclareKeeps DEF DeclareReady, KeptBy
  <1>7. CASE DeclareWait(s)
    <2>1. PICK w \in Writes, wait \in IF goal.wait = None THEN NewWaits
                                       ELSE {Redeclared(goal.wait)} :
             Step(Declare(Context(s, w), "wait", wait))
      BY <1>7 DEF DeclareWait
    <2>2. wait \in Waits /\ wait # None
      <3>1. CASE goal.wait = None
        <4>1. PICK n \in 1 .. MaxChecks \cup {None} :
                 wait = [due |-> FALSE, expired |-> FALSE, signalled |-> FALSE, checks |-> n]
          BY <2>1, <3>1 DEF NewWaits
        <4>2. n \in 0 .. MaxChecks \cup {None}
          BY SchedulerAssumption
        <4>3. wait \in Wait /\ ~wait.due
          BY <4>1, <4>2 DEF Wait
        <4> QED BY <4>3, NoneAssumption DEF Waits
      <3>2. CASE goal.wait # None
        <4>1. wait \in Wait /\ ~wait.due
          BY <2>1, <3>2 DEF Redeclared, Wait, TypeOK, Goal
        <4> QED BY <4>1, NoneAssumption DEF Waits
      <3> QED BY <3>1, <3>2
    <2> QED BY <1>1, <1>2, <2>1, <2>2, DeclareKeeps DEF KeptBy
  <1>8. CASE StopGoal(s)
    BY <1>1, <1>2, <1>8, PauseActiveKeeps DEF StopGoal, KeptBy
  <1>9. CASE EndTurns(s)
    BY <1>1, <1>2, <1>9, EndRunKeeps DEF EndTurns, KeptBy
  <1>10. CASE ContinueRun(s)
    <2>1. PICK w \in Writes : Step(Turn([Context(s, w) EXCEPT !.m.pc = "turn"]))
      BY <1>10 DEF ContinueRun
    <2> DEFINE k == Context(s, w)
    <2>2. k \in From(s)
      BY <1>2
    <2> HIDE DEF k
    <2>3. Stays(k.m, [k.m EXCEPT !.pc = "turn"])
      BY <2>2 DEF From, Contexts, Memory, Stays, Holds
    <2>4. [k EXCEPT !.m.pc = "turn"] \in From(s)
      BY <2>2, <2>3, FromMemory
    <2> QED BY <1>1, <2>1, <2>4, TurnKeeps DEF KeptBy, From, k
  <1>11. CASE Settled(s)
    BY <1>1, <1>2, <1>11, FinishKeeps DEF Settled, KeptBy
  <1> QED BY <1>3, <1>4, <1>5, <1>6, <1>7, <1>8, <1>9, <1>10, <1>11

LEMMA TimerKinds ==
  ASSUME SchedulerInv, NEW s \in Sessions,
         \/ SendContinuation(s) \/ TimerFires(s) \/ RetryFires(s) \/ Signal(s) \/ Reschedule(s)
         \/ UserPause(s) \/ Interrupt(s) \/ StartSession(s)
  PROVE  KeptBy(s) \/ KeptByUser(s) \/ ClaimedBy(s)
  <1> USE DEF SchedulerInv
  <1>1. Fresh \in Uuids
    BY FreshIsFree DEF TypeOK
  <1>2. \A w \in Writes \cup UnreadWrites : Context(s, w) \in From(s) /\ Context(s, w) \in Contexts
    BY ContextFrom, WritesNat DEF From
  <1>3. CASE SendContinuation(s)
    <2> DEFINE k(w) == Context(s, w)
               x(w) == [k(w) EXCEPT !.m.cont = FALSE]
    <2>1. PICK w \in Writes, sent \in BOOLEAN, stale \in BOOLEAN :
             Step(IF Actionable(x(w)) \/ (stale /\ ~goal.active) THEN Claim(x(w), sent) ELSE x(w))
      BY <1>3 DEF SendContinuation
    <2>2. k(w) \in From(s)
      BY <1>2
    <2> HIDE DEF k
    <2>3. Stays(k(w).m, [k(w).m EXCEPT !.cont = FALSE])
      BY <2>2 DEF From, Contexts, Memory, Stays, Holds
    <2>4. x(w) \in From(s)
      BY <2>2, <2>3, FromMemory
    <2> HIDE DEF x
    <2>5. Keeps(x(w), x(w))
      BY <2>4, KeepsItself DEF From
    <2>6. Keeps(x(w), Claim(x(w), sent)) \/ Claims(x(w), Claim(x(w), sent))
      BY <1>1, <2>4, ClaimMoves DEF From
    <2> QED BY <2>1, <2>4, <2>5, <2>6 DEF KeptBy, ClaimedBy
  <1>4. CASE TimerFires(s)
    <2>1. PICK w \in Writes : Step(Schedule([Context(s, w) EXCEPT !.m.timer = FALSE]))
      BY <1>4 DEF TimerFires
    <2> DEFINE k == Context(s, w)
    <2>2. k \in From(s)
      BY <1>2
    <2> HIDE DEF k
    <2>3. Stays(k.m, [k.m EXCEPT !.timer = FALSE])
      BY <2>2 DEF From, Contexts, Memory, Stays, Holds
    <2>4. [k EXCEPT !.m.timer = FALSE] \in From(s)
      BY <2>2, <2>3, FromMemory
    <2> QED BY <1>1, <2>1, <2>4, ScheduleKeeps DEF KeptBy, From, k
  <1>5. CASE RetryFires(s)
    <2> DEFINE k(w) == Context(s, w)
               x(w) == [k(w) EXCEPT !.m.retry = FALSE]
               h(w) == [x(w).g EXCEPT !.phase = "ready", !.dispatch = None, !.decision = "recovery"]
    <2>1. PICK w \in Writes :
             Step(IF ~Actionable(x(w)) THEN x(w) ELSE UpdateAndSchedule(x(w), h(w)))
      BY <1>5 DEF RetryFires
    <2>2. k(w) \in From(s)
      BY <1>2
    <2> HIDE DEF k
    <2>3. Stays(k(w).m, [k(w).m EXCEPT !.retry = FALSE])
      BY <2>2 DEF From, Contexts, Memory, Stays, Holds
    <2>4. x(w) \in From(s)
      BY <2>2, <2>3, FromMemory
    <2> HIDE DEF x
    <2>5. Saves(x(w).g, h(w))
      BY <2>4 DEF From, Contexts, Saves, Goal, GoalSound, Purposes
    <2> HIDE DEF h
    <2>6. Keeps(x(w), x(w)) /\ Keeps(x(w), UpdateAndSchedule(x(w), h(w)))
      BY <1>1, <2>4, <2>5, KeepsItself, UpdateKeeps DEF From
    <2> QED BY <2>1, <2>4, <2>6 DEF KeptBy
  <1>6. CASE Signal(s)
    <2> DEFINE k(w) == Context(s, w)
               h == [goal EXCEPT !.wait.signalled = TRUE]
               x(w) == Update(k(w), h)
    <2>1. PICK w \in Writes : Step(IF x(w).err THEN x(w) ELSE Schedule(x(w)))
      BY <1>6 DEF Signal
    <2>2. k(w) \in From(s) /\ k(w) \in Contexts /\ k(w).g = goal
      BY <1>2 DEF From
    <2> HIDE DEF k
    <2>3. Saves(goal, h)
      <3> DEFINE v == [goal.wait EXCEPT !.signalled = TRUE]
      <3>1. goal.phase = "waiting" /\ goal.wait # None /\ goal.wait \in Wait
        BY <1>6 DEF Signal, GoalSound, TypeOK, Goal
      <3>2. v \in Wait /\ v.due = goal.wait.due /\ v.checks = goal.wait.checks
        BY <3>1 DEF Wait
      <3>3. h = [goal EXCEPT !.wait = v]
        BY DEF TypeOK, Goal
      <3> HIDE DEF v
      <3>4. h \in Goal /\ h.wait = v /\ h.used = goal.used /\ h.active = goal.active
            /\ h.phase = "waiting" /\ h.decision = goal.decision
        BY <3>1, <3>2, <3>3 DEF TypeOK, Goal
      <3> HIDE DEF h
      <3> QED BY <3>1, <3>2, <3>4, NoneAssumption DEF Saves, GoalSound
    <2> HIDE DEF h
    <2>4. Keeps(k(w), x(w)) /\ x(w) \in Contexts
      BY <1>1, <2>2, <2>3, UpdateKeeps, KeepsTyped
    <2> HIDE DEF x
    <2>5. Keeps(k(w), Schedule(x(w)))
      BY <1>1, <2>4, ScheduleKeeps, KeepsTwice
    <2> QED BY <2>1, <2>2, <2>4, <2>5 DEF KeptBy
  <1>7. CASE Reschedule(s)
    BY <1>1, <1>2, <1>7, ScheduleKeeps DEF Reschedule, KeptBy
  <1>8. CASE UserPause(s)
    <2> DEFINE k(w) == Context(s, w)
               m(w) == [k(w).m EXCEPT !.held = FALSE, !.abort = mem[s].pc # "idle"]
               x(w) == [k(w) EXCEPT !.m.held = FALSE, !.m.abort = mem[s].pc # "idle"]
    <2>1. PICK w \in UnreadWrites : ActStep(PauseActive(x(w)))
      BY <1>8 DEF UserPause
    <2>2. k(w) \in From(s)
      BY <1>2
    <2> HIDE DEF k
    <2>3. Stays(k(w).m, m(w))
      BY <2>2 DEF From, Contexts, Memory, Stays, Holds
    <2>4. x(w) = [k(w) EXCEPT !.m = m(w)]
      BY <2>2 DEF From, Contexts
    <2> HIDE DEF m, x
    <2>5. x(w) \in From(s)
      BY <2>2, <2>3, <2>4, FromMemory
    <2> QED BY <2>1, <2>5, PauseActiveKeeps, ActAllowed DEF KeptByUser, ActStep, From
  <1>9. CASE Interrupt(s)
    <2> DEFINE k(w) == Context(s, w)
               m(w) == [ClearContinuation(k(w).m, TRUE) EXCEPT !.held = TRUE, !.ignore = TRUE,
                          !.abort = mem[s].pc # "idle"]
               y(w) == [k(w) EXCEPT !.m = m(w)]
               h == [goal EXCEPT !.phase = "interrupted", !.gen = Fresh, !.dispatch = None,
                                 !.decision = None, !.wait = None]
    <2>1. PICK w \in Writes : ActStep(Update(y(w), h))
      BY <1>9 DEF Interrupt
    <2>2. k(w) \in From(s)
      BY <1>2
    <2> HIDE DEF k
    <2>3. Stays(k(w).m, m(w))
      <3> DEFINE c == ClearContinuation(k(w).m, TRUE)
      <3>1. Stays(k(w).m, c)
        BY <2>2, CancelStays DEF From, Contexts
      <3> HIDE DEF c
      <3>2. (mem[s].pc # "idle") \in BOOLEAN
        BY Zenon
      <3>3. Stays(c, [c EXCEPT !.held = TRUE, !.ignore = TRUE, !.abort = mem[s].pc # "idle"])
        BY <3>1, <3>2 DEF Memory, Stays, Holds
      <3> QED BY <3>1, <3>3 DEF Stays, c
    <2> HIDE DEF m
    <2>4. y(w) \in From(s)
      BY <2>2, <2>3, FromMemory
    <2> HIDE DEF y
    <2>5. Saves(goal, h)
      BY <1>1 DEF TypeOK, Saves, Goal, GoalSound
    <2> HIDE DEF h
    <2>6. Keeps(y(w), Update(y(w), h))
      BY <1>1, <2>4, <2>5, UpdateKeeps DEF From
    <2> QED BY <2>1, <2>4, <2>6, ActAllowed DEF KeptByUser, ActStep
  <1>10. CASE StartSession(s)
    <2>1. PICK w \in Writes : Step(Restore([Context(s, w) EXCEPT !.m.up = TRUE]))
      BY <1>10 DEF StartSession
    <2> DEFINE k == Context(s, w)
    <2>2. k \in From(s)
      BY <1>2
    <2> HIDE DEF k
    <2>3. Stays(k.m, [k.m EXCEPT !.up = TRUE])
      BY <2>2 DEF From, Contexts, Memory, Stays, Holds
    <2>4. [k EXCEPT !.m.up = TRUE] \in From(s)
      BY <2>2, <2>3, FromMemory
    <2> QED BY <1>1, <2>1, <2>4, RestoreKeeps DEF KeptBy, From, k
  <1> QED BY <1>3, <1>4, <1>5, <1>6, <1>7, <1>8, <1>9, <1>10

-----------------------------------------------------------------------------
(* The invariant.                                                           *)

\* What a step may do to the allowance.
AllowedStep ==
    \/ goal'.used = goal.used /\ started' = started
    \/ goal.used < Limit /\ goal'.used = goal.used + 1 /\ started' = started
    \/ started < goal.used /\ goal'.used = goal.used /\ started' = started + 1
    \/ goal'.used = 0 /\ started' = 0

\* What every step does.
GoodStep ==
    /\ SchedulerInv' /\ AllowedStep /\ Authorised
    /\ goal'.used > goal.used /\ goal.decision = "repair" => ~goal.repairUsed

LEMMA SessionStep ==
  ASSUME SchedulerInv, NEW s \in Sessions, Session(s)
  PROVE  GoodStep
  <1>1. goal.used \in Nat
    BY SchedulerAssumption DEF SchedulerInv, TypeOK, Goal
  <1>2. CASE KeptBy(s)
    BY <1>1, <1>2, KeptStep DEF KeptBy, GoodStep, AllowedStep, Authorised
  <1>3. CASE KeptByUser(s)
    BY <1>1, <1>3, KeptUserStep DEF KeptByUser, GoodStep, AllowedStep, Authorised
  <1>4. CASE AdmittedBy(s)
    BY <1>1, <1>4, AdmittedStep DEF AdmittedBy, GoodStep, AllowedStep, Authorised
  <1>5. CASE ClaimedBy(s)
    BY <1>1, <1>5, ClaimedStep DEF ClaimedBy, GoodStep, AllowedStep, Authorised
  <1>6. CASE Resume(s)
    BY <1>1, <1>6, ResumedStep DEF GoodStep, AllowedStep, Authorised
  <1>7. CASE Crash(s)
    <2>1. /\ goal' = goal /\ started' = started /\ grant' = grant /\ strict' = strict
          /\ mem' = [mem EXCEPT ![s] = Down] /\ failed' = [failed EXCEPT ![s] = FALSE]
          /\ acts' \in 0 .. MaxActs
      BY <1>7, ActAllowed DEF Crash, SchedulerInv
    <2>2. Down \in Memory /\ Holds(Down) = {}
      BY DEF Down, Memory, Holds
    <2>3. mem' \in [Sessions -> Memory] /\ \A r \in Sessions : Holds(mem'[r]) \subseteq Holds(mem[r])
      BY <2>1, <2>2 DEF SchedulerInv, TypeOK
    <2>4. TypeOK' /\ GoalSound(goal') /\ Paid'
      BY <2>1, <2>3 DEF SchedulerInv, TypeOK, Paid
    <2>5. Granted'
      BY <2>1, <2>3 DEF SchedulerInv, Granted, Holds
    <2> QED BY <1>1, <2>1, <2>4, <2>5 DEF GoodStep, AllowedStep, Authorised, Starts, SchedulerInv
  <1> QED BY <1>2, <1>3, <1>4, <1>5, <1>6, <1>7, PromptKinds, TurnKinds, TimerKinds DEF Session

LEMMA TimeStep ==
  ASSUME SchedulerInv, WaitDue \/ WaitExpires \/ IdlePasses \/ SetStrict
  PROVE  GoodStep
  <1>1. /\ mem' = mem /\ started' = started /\ grant' = grant /\ failed' = failed
        /\ acts' \in 0 .. MaxActs /\ strict' \in StrictChoices
    BY ActAllowed DEF WaitDue, WaitExpires, IdlePasses, SetStrict, SchedulerInv, TypeOK
  <1>2. /\ goal' \in Goal /\ GoalSound(goal')
        /\ goal'.used = goal.used /\ goal'.phase = goal.phase
        /\ goal'.active = goal.active /\ goal'.dispatch = goal.dispatch
    <2>1. CASE WaitDue
      <3> DEFINE v == [goal.wait EXCEPT !.due = TRUE]
      <3>1. goal.wait \in Wait /\ goal.wait.checks # None
        BY <2>1 DEF WaitDue, SchedulerInv, TypeOK, Goal
      <3>2. v \in Wait /\ v.checks = goal.wait.checks
        BY <3>1 DEF Wait
      <3>3. goal' = [goal EXCEPT !.wait = v]
        BY <2>1 DEF WaitDue, SchedulerInv, TypeOK, Goal
      <3> HIDE DEF v
      <3>4. /\ goal' \in Goal /\ goal'.wait = v
            /\ \A f \in {"used", "phase", "active", "dispatch", "decision", "repairUsed"} :
                  goal'[f] = goal[f]
        BY <3>2, <3>3 DEF SchedulerInv, TypeOK, Goal
      <3> QED BY <3>1, <3>2, <3>4, NoneAssumption DEF SchedulerInv, GoalSound
    <2>2. CASE WaitExpires
      <3> DEFINE v == [goal.wait EXCEPT !.expired = TRUE]
      <3>1. goal.wait \in Wait /\ goal.wait # None
        BY <2>2 DEF WaitExpires, SchedulerInv, TypeOK, Goal
      <3>2. v \in Wait /\ v.checks = goal.wait.checks /\ v.due = goal.wait.due
        BY <3>1 DEF Wait
      <3>3. goal' = [goal EXCEPT !.wait = v]
        BY <2>2 DEF WaitExpires, SchedulerInv, TypeOK, Goal
      <3> HIDE DEF v
      <3>4. /\ goal' \in Goal /\ goal'.wait = v
            /\ \A f \in {"used", "phase", "active", "dispatch", "decision", "repairUsed"} :
                  goal'[f] = goal[f]
        BY <3>2, <3>3 DEF SchedulerInv, TypeOK, Goal
      <3> QED BY <3>1, <3>2, <3>4, NoneAssumption DEF SchedulerInv, GoalSound
    <2>3. CASE IdlePasses
      BY <2>3 DEF IdlePasses, SchedulerInv, TypeOK, Goal, GoalSound, Idle
    <2>4. CASE SetStrict
      BY <2>4 DEF SetStrict, SchedulerInv, TypeOK
    <2> QED BY <2>1, <2>2, <2>3, <2>4
  <1>3. TypeOK' /\ Paid' /\ Granted'
    BY <1>1, <1>2 DEF SchedulerInv, TypeOK, Paid, Granted
  <1>4. goal.used \in Nat
    BY SchedulerAssumption DEF SchedulerInv, TypeOK, Goal
  <1>5. Authorised
    BY <1>1 DEF Authorised
  <1> QED BY <1>1, <1>2, <1>3, <1>4, <1>5 DEF GoodStep, AllowedStep, SchedulerInv

LEMMA NextStep == SchedulerInv /\ Next => GoodStep
  BY SessionStep, TimeStep DEF Next

LEMMA StutterStep == SchedulerInv /\ UNCHANGED vars => SchedulerInv'
  BY DEF vars, SchedulerInv, TypeOK, GoalSound, Paid, Granted

LEMMA InitInv == Init => SchedulerInv
  <1> SUFFICES ASSUME Init PROVE SchedulerInv
    OBVIOUS
  <1>1. PICK inRun \in BOOLEAN :
         LET kick == ~inRun /\ Limit > 0 IN
         /\ goal = [active |-> TRUE, owner |-> Creator, gen |-> 0, used |-> 0,
                    phase |-> IF kick THEN "ready" ELSE "idle",
                    decision |-> IF kick THEN "kickoff" ELSE None,
                    wait |-> None, dispatch |-> None, repairUsed |-> FALSE,
                    idle |-> "none"]
         /\ mem = [s \in Sessions |->
               IF s # Creator THEN Down
               ELSE [Down EXCEPT !.up = TRUE, !.inRun = inRun,
                       !.pc = IF inRun THEN "turn" ELSE "idle",
                       !.armed = IF kick THEN 0 ELSE None, !.cont = kick]]
    BY DEF Init
  <1>2. goal \in Goal /\ GoalSound(goal) /\ goal.used = 0 /\ goal.phase # "claimed"
    BY <1>1, SchedulerAssumption DEF Goal, GoalSound, Purposes, Idle
  <1>3. mem \in [Sessions -> Memory]
    BY <1>1, SchedulerAssumption DEF Down, Memory
  <1>4. TypeOK
    BY <1>2, <1>3, SchedulerAssumption DEF Init, TypeOK
  <1>5. Paid /\ Granted
    BY <1>2 DEF Init, Paid, Granted
  <1> QED BY <1>2, <1>4, <1>5 DEF SchedulerInv

\* goal-scheduler.ts: what holds of the goal file, the sessions' memories and
\* the checkpoints in flight, whatever the sessions do.
THEOREM SchedulerHolds == Spec => []SchedulerInv
  <1>1. SchedulerInv /\ [Next]_vars => SchedulerInv'
    BY NextStep, StutterStep DEF GoodStep
  <1> QED BY InitInv, <1>1, PTL DEF Spec

\* The goal file and the memories are well-formed.
THEOREM TypesHold == Spec => []TypeOK
  <1>1. SchedulerInv => TypeOK
    BY DEF SchedulerInv
  <1> QED BY <1>1, SchedulerHolds, PTL

\* goal-scheduler-state.ts normalizeGoalScheduler: whatever the handlers save
\* is accepted when it is read back.
THEOREM SavesAreAccepted == Spec => []SavesAccepted
  <1>1. SchedulerInv => SavesAccepted
    BY DEF SchedulerInv, GoalSound, SavesAccepted
  <1> QED BY <1>1, SchedulerHolds, PTL

\* goal-scheduler.ts message(): a checkpoint the user has superseded never
\* starts a run, in whatever session it is delivered.
THEOREM RunsAreAuthorised == Spec => OnlyAuthorisedRuns
  <1>1. SchedulerInv /\ [Next]_vars => [Authorised]_vars
    BY NextStep DEF GoodStep
  <1> QED BY <1>1, SchedulerHolds, PTL DEF OnlyAuthorisedRuns, Spec

\* goal-scheduler.ts claim(): a run that repairs a missing declaration is
\* claimed at most once in a row.
THEOREM RepairsOnce == Spec => RepairOnce
  <1>1. SchedulerInv /\ [Next]_vars =>
          [goal'.used > goal.used /\ goal.decision = "repair" => ~goal.repairUsed]_vars
    BY NextStep DEF GoodStep
  <1> QED BY <1>1, SchedulerHolds, PTL DEF RepairOnce, Spec

\* goal-scheduler.ts: the scheduler implements the allowance, for any sessions,
\* crashes, failed writes and resumes.
THEOREM AllowanceHolds == Spec => AllowanceKept
  <1>1. Init => Allowed!Init
    BY DEF Init, Allowed!Init
  <1>2. SchedulerInv /\ [Next]_vars => [Allowed!Next]_(Allowed!vars)
    <2> SUFFICES ASSUME SchedulerInv, [Next]_vars PROVE [Allowed!Next]_(Allowed!vars)
      OBVIOUS
    <2>1. CASE Next
      BY <2>1, NextStep DEF GoodStep, AllowedStep, Allowed!Next, Allowed!Pay, Allowed!Start,
                            Allowed!Renew, Allowed!vars
    <2>2. CASE UNCHANGED vars
      BY <2>2 DEF vars, Allowed!vars
    <2> QED BY <2>1, <2>2
  <1> QED BY <1>1, <1>2, SchedulerHolds, PTL DEF Spec, AllowanceKept, Allowed!Spec

-----------------------------------------------------------------------------
(* The saved intent.  f says that the session had failed before the step.   *)

\* Intent, Scheduled and NoStrandedIntent, of a context.
Intends(x) == /\ x.g.active /\ x.g.owner = x.s
              /\ x.g.phase \in {"ready", "waiting"}
Awake(x)   == \/ x.m.cont /\ x.m.armed = x.g.gen
              \/ x.m.timer \/ x.m.retry \/ x.m.queue # None
Bad(x, f)  == x.err \/ (f /\ ~x.m.timer /\ ~x.m.cont)
Served(x, f) ==
    Intends(x) =>
      /\ x.m.cont => x.m.armed = x.g.gen \/ x.m.timer
      /\ x.m.held => Bad(x, f)
      /\ x.m.up /\ x.m.pc = "idle" /\ ~x.m.held => Bad(x, f) \/ Awake(x)

\* A handler leaves the goals of other sessions alone, and the memory as
\* MemoryOK describes it.
Mine(x) == x.g = goal \/ ~x.g.active \/ x.g.owner = x.s
Sane(x) == x \in Contexts /\ MemoryOK(x.m) /\ Mine(x)
Fit(x, f) == Sane(x) /\ Served(x, f)

\* What most handlers leave alone of where the host stands.
SameRun(m, n) ==
    /\ n.up = m.up /\ n.pc = m.pc /\ n.inRun = m.inRun /\ n.denied = m.denied
    /\ n.held = m.held /\ n.abort = m.abort
    /\ n.cont => m.cont
    /\ n.timer => m.timer
    /\ n.retry => m.retry

LEMMA SameRunTwice ==
  ASSUME NEW l, NEW m, NEW n, SameRun(l, m), SameRun(m, n)
  PROVE  SameRun(l, n)
  BY DEF SameRun

LEMMA SameRunOK ==
  ASSUME NEW m, NEW n, SameRun(m, n), MemoryOK(m)
  PROVE  MemoryOK(n)
  BY DEF SameRun, MemoryOK

LEMMA ClearRun ==
  ASSUME NEW m \in Memory, NEW b \in BOOLEAN
  PROVE  /\ SameRun(m, ClearContinuation(m, b))
         /\ ~ClearContinuation(m, b).cont /\ ~ClearContinuation(m, b).timer
  BY DEF Memory, CancelTimer, ClearContinuation, SameRun

LEMMA StoppedRun ==
  ASSUME NEW x \in Contexts
  PROVE  SameRun(x.m, Stopped(x).m) /\ Stopped(x).err /\ Stopped(x).g = x.g
  BY ClearRun DEF Contexts, Stopped

LEMMA ReconcileRun ==
  ASSUME NEW x \in Contexts
  PROVE  SameRun(x.m, Reconcile(x).m) /\ (x.g.active => Reconcile(x) = x)
  <1>1. SameRun(x.m, x.m)
    BY DEF SameRun
  <1>2. SameRun(x.m, ClearContinuation(x.m, TRUE))
    BY ClearRun DEF Contexts
  <1>3. [x EXCEPT !.m = ClearContinuation(x.m, TRUE)].m = ClearContinuation(x.m, TRUE)
    BY DEF Contexts
  <1> QED BY <1>1, <1>2, <1>3 DEF Reconcile

LEMMA WroteRun ==
  ASSUME NEW x \in Contexts, NEW g
  PROVE  SameRun(x.m, Wrote(x, g).m) /\ Wrote(x, g).g = g /\ Wrote(x, g).s = x.s
         /\ Wrote(x, g).err = x.err
         /\ (x.g.active => Wrote(x, g).m = x.m)
  <1> DEFINE r == Reconcile(x)
  <1>1. /\ r \in Contexts /\ r.s = x.s /\ r.err = x.err /\ SameRun(x.m, r.m)
        /\ (x.g.active => r = x)
    BY ReconcileKeeps, ReconcileRun DEF Keeps
  <1> HIDE DEF r
  <1>2. Wrote(x, g) = [r EXCEPT !.g = g, !.w = x.w - 1]
    BY DEF Wrote, r
  <1> QED BY <1>1, <1>2 DEF Contexts

-----------------------------------------------------------------------------
(* Parts of handlers.                                                       *)

\* Nothing is stranded where nothing is intended, in a run that nobody has
\* interrupted, or after a failure.
LEMMA FitAtRest ==
  ASSUME NEW x, Sane(x), NEW f, ~Intends(x)
  PROVE  Fit(x, f)
  BY DEF Fit, Served

LEMMA FitBusy ==
  ASSUME NEW x, Sane(x), NEW f, x.m.pc # "idle", ~x.m.cont, ~x.m.held
  PROVE  Fit(x, f)
  BY DEF Fit, Served

LEMMA FitFailed ==
  ASSUME NEW x, Sane(x), NEW f, x.err, ~x.m.cont
  PROVE  Fit(x, f)
  BY DEF Fit, Served, Bad

LEMMA StoppedFits ==
  ASSUME NEW x, Sane(x), NEW f
  PROVE  Fit(Stopped(x), f)
  <1>1. Stopped(x) \in Contexts /\ Stopped(x).s = x.s
    BY StoppedKeeps DEF Sane, Keeps
  <1>2. SameRun(x.m, Stopped(x).m) /\ Stopped(x).err /\ Stopped(x).g = x.g
    BY StoppedRun DEF Sane
  <1>3. ~Stopped(x).m.cont
    BY ClearRun DEF Sane, Contexts, Stopped
  <1>4. Sane(Stopped(x))
    BY <1>1, <1>2, SameRunOK DEF Sane, Mine
  <1> QED BY <1>2, <1>3, <1>4, FitFailed

LEMMA ReconcileSane ==
  ASSUME NEW x, Sane(x)
  PROVE  Sane(Reconcile(x)) /\ Reconcile(x).g = x.g /\ Reconcile(x).s = x.s
  <1>1. /\ Reconcile(x) \in Contexts /\ Reconcile(x).s = x.s /\ Reconcile(x).g = x.g
        /\ SameRun(x.m, Reconcile(x).m)
    BY ReconcileKeeps, ReconcileRun DEF Sane, Keeps
  <1> QED BY <1>1, SameRunOK DEF Sane, Mine

LEMMA ReconcileFits ==
  ASSUME NEW x, NEW f, Fit(x, f)
  PROVE  Fit(Reconcile(x), f)
  <1>1. CASE x.g.active
    BY <1>1 DEF Reconcile
  <1>2. CASE ~x.g.active
    BY <1>2, ReconcileSane, FitAtRest DEF Fit, Intends
  <1> QED BY <1>1, <1>2

LEMMA WroteSane ==
  ASSUME NEW x, Sane(x), x.w > 0, NEW g \in Goal,
         g = x.g \/ ~g.active \/ g.owner = x.s
  PROVE  Sane(Wrote(x, g))
  <1>1. x.w - 1 \in Nat
    BY DEF Sane, Contexts
  <1>2. SameRun(x.m, Wrote(x, g).m) /\ Wrote(x, g).g = g /\ Wrote(x, g).s = x.s
    BY WroteRun DEF Sane
  <1>3. Wrote(x, g) \in Contexts
    <2> DEFINE r == Reconcile(x)
    <2>1. r \in Contexts
      BY ReconcileSane DEF Sane
    <2> HIDE DEF r
    <2> QED BY <1>1, <2>1 DEF Wrote, Contexts, r
  <1> QED BY <1>2, <1>3, SameRunOK DEF Sane, Mine

LEMMA PauseFits ==
  ASSUME NEW x, Sane(x), NEW f, Fresh \in Uuids
  PROVE  Fit(Pause(x), f)
  <1> DEFINE y == [x EXCEPT !.m = ClearContinuation(@, TRUE)]
  <1>1. /\ y \in Contexts /\ y.g = x.g /\ y.s = x.s /\ y.w = x.w
        /\ y.m = ClearContinuation(x.m, TRUE)
    BY CancelStays DEF Sane, Contexts, Stays
  <1> HIDE DEF y
  <1>2. Sane(y)
    BY <1>1, ClearRun, SameRunOK DEF Sane, Contexts, Mine
  <1>3. CASE y.w = 0 \/ y.g.owner # y.s
    BY <1>2, <1>3, StoppedFits DEF Pause, y
  <1>4. CASE ~(y.w = 0 \/ y.g.owner # y.s)
    <2>1. y.w > 0 /\ Ended(y.g) \in Goal /\ ~Ended(y.g).active
      <3>1. y.w > 0 /\ y.g \in Goal
        BY <1>2, <1>4 DEF Sane, Contexts
      <3>2. Ended(y.g) \in Goal
        BY <3>1, EndedSaves DEF Saves
      <3>3. ~Ended(y.g).active
        BY <3>1 DEF Ended, Goal
      <3> QED BY <3>1, <3>2, <3>3
    <2>2. Sane(Wrote(y, Ended(y.g)))
      BY <1>2, <2>1, WroteSane
    <2>3. ~Intends(Wrote(y, Ended(y.g)))
      BY <1>2, <2>1, WroteRun DEF Sane, Intends
    <2> QED BY <1>4, <2>2, <2>3, FitAtRest DEF Pause, y, Ended
  <1> QED BY <1>3, <1>4

LEMMA PauseActiveFits ==
  ASSUME NEW x, NEW f, Fit(x, f)
  PROVE  Fit(PauseActive(x), f)
  <1> DEFINE y == [x EXCEPT !.m = ClearContinuation(@, TRUE)]
             h == [x.g EXCEPT !.active = FALSE]
  <1>1. /\ y \in Contexts /\ y.g = x.g /\ y.s = x.s /\ y.w = x.w
        /\ y.m = ClearContinuation(x.m, TRUE)
    BY CancelStays DEF Fit, Sane, Contexts, Stays
  <1> HIDE DEF y
  <1>2. Sane(y)
    BY <1>1, ClearRun, SameRunOK DEF Fit, Sane, Contexts, Mine
  <1>3. h \in Goal /\ ~h.active
    BY DEF Fit, Sane, Contexts, Goal
  <1> HIDE DEF h
  <1>4. CASE ~x.g.active \/ x.w = 0
    BY <1>4 DEF PauseActive
  <1>5. CASE ~(~x.g.active \/ x.w = 0)
    <2>1. y.w > 0
      BY <1>1, <1>5 DEF Fit, Sane, Contexts
    <2>2. Sane(Wrote(y, h)) /\ ~Intends(Wrote(y, h))
      BY <1>2, <1>3, <2>1, WroteSane, WroteRun DEF Sane, Intends
    <2> QED BY <1>5, <2>2, FitAtRest DEF PauseActive, y, h
  <1> QED BY <1>4, <1>5

LEMMA ArmFits ==
  ASSUME NEW x, Sane(x), NEW f, Fresh \in Uuids, ~x.m.inRun, ~x.m.denied, ~x.m.held
  PROVE  Fit(Arm(x), f)
  <1> DEFINE m == [CancelTimer(x.m) EXCEPT !.timer = TRUE,
                                           !.cont = x.m.cont /\ ~IdleDelay(x.g)]
             n == [CancelTimer(x.m) EXCEPT !.armed = x.g.gen, !.cont = TRUE]
             y == [x EXCEPT !.m = m]
             z == [x EXCEPT !.m = n]
  <1>1. x.g \in Goal /\ x.m \in Memory /\ x \in Contexts
    BY DEF Sane, Contexts
  <1>2. /\ m \in Memory /\ m.timer /\ m.pc = x.m.pc /\ ~m.inRun /\ ~m.denied /\ ~m.held
        /\ n \in Memory /\ n.cont /\ n.armed = x.g.gen
        /\ n.pc = x.m.pc /\ ~n.inRun /\ ~n.denied /\ ~n.held
    BY <1>1 DEF Memory, CancelTimer, IdleDelay, Goal
  <1> HIDE DEF m, n
  <1>3. /\ y \in Contexts /\ y.g = x.g /\ y.s = x.s /\ y.m = m
        /\ z \in Contexts /\ z.g = x.g /\ z.s = x.s /\ z.m = n
    BY <1>1, <1>2 DEF Contexts
  <1>4. MemoryOK(m) /\ MemoryOK(n)
    BY <1>2 DEF MemoryOK, Sane
  <1> HIDE DEF y, z
  <1>5. Sane(y) /\ Sane(z)
    BY <1>3, <1>4 DEF Sane, Mine
  <1>6. Fit(y, f) /\ Fit(z, f)
    BY <1>2, <1>3, <1>5 DEF Fit, Served, Awake
  <1>7. Fit(Pause(x), f)
    BY PauseFits
  <1>8. x.g.phase \notin {"ready", "waiting"} => Fit(x, f)
    BY FitAtRest DEF Intends
  <1> QED BY <1>6, <1>7, <1>8 DEF Arm, y, z, m, n

\* schedule() serves the intent, or leaves to a run that is under way, or to
\* the user who has interrupted the session, what they will deal with.
LEMMA ScheduleFits ==
  ASSUME NEW x, Sane(x), NEW f, Fresh \in Uuids,
         x.m.inRun \/ x.m.denied \/ Held(x) => Fit(x, f)
  PROVE  Fit(Schedule(x), f)
  <1> DEFINE y == Reconcile(x)
             z == Wrote(y, ImplicitReady(y.g))
  <1>1. /\ Sane(y) /\ y.g = x.g /\ y.s = x.s /\ SameRun(x.m, y.m)
        /\ y \in Contexts /\ y.g \in Goal
    BY ReconcileSane, ReconcileRun DEF Sane, Contexts
  <1> HIDE DEF y
  <1>2. ~y.g.active => Fit(y, f)
    BY <1>1, FitAtRest DEF Intends
  <1>3. Fit(Stopped(y), f)
    BY <1>1, StoppedFits
  <1>4. ASSUME ~x.m.inRun, ~x.m.denied, ~Held(x), y.g.active, Owned(y)
        PROVE  /\ Fit(Arm(y), f)
               /\ y.w # 0 => Fit(Arm(z), f)
    <2> USE <1>4
    <2>1. ~y.m.inRun /\ ~y.m.denied /\ ~y.m.held
      BY <1>1 DEF Held, SameRun
    <2>2. Fit(Arm(y), f)
      BY <1>1, <2>1, ArmFits
    <2>3. ASSUME y.w # 0 PROVE Fit(Arm(z), f)
      <3>1. ImplicitReady(y.g) \in Goal /\ ImplicitReady(y.g).owner = y.s
        BY <1>1, ImplicitReadySaves DEF Saves, ImplicitReady, Goal, Owned
      <3>2. y.w > 0
        BY <1>1, <2>3 DEF Contexts
      <3>3. Sane(z) /\ SameRun(y.m, z.m)
        BY <1>1, <3>1, <3>2, WroteSane, WroteRun
      <3> HIDE DEF z
      <3> QED BY <2>1, <3>3, ArmFits DEF SameRun
    <2> QED BY <2>2, <2>3
  <1> HIDE DEF z
  <1> QED BY <1>2, <1>3, <1>4 DEF Schedule, y, z

\* An intent is saved and scheduled.
LEMMA UpdateFits ==
  ASSUME NEW x, Sane(x), NEW f, Fresh \in Uuids, ~x.m.held,
         NEW g \in Goal, g.owner = x.g.owner
  PROVE  Fit(UpdateAndSchedule(x, g), f)
  <1> DEFINE y == Wrote(x, g)
  <1>1. CASE Owned(x) /\ x.w > 0
    <2>1. Sane(y) /\ SameRun(x.m, y.m)
      BY <1>1, WroteSane, WroteRun DEF Sane, Owned
    <2> HIDE DEF y
    <2>2. ASSUME y.m.inRun \/ y.m.denied PROVE Fit(y, f)
      <3>1. y.m.pc # "idle" /\ ~y.m.cont /\ ~y.m.held
        BY <2>1, <2>2 DEF Sane, MemoryOK, SameRun
      <3> QED BY <2>1, <3>1, FitBusy
    <2>3. ~Held(y)
      BY <2>1 DEF Held, SameRun
    <2>4. Fit(Schedule(y), f)
      BY <2>1, <2>2, <2>3, ScheduleFits
    <2> QED BY <1>1, <2>4 DEF UpdateAndSchedule, y
  <1>2. CASE ~(Owned(x) /\ x.w > 0)
    BY <1>2, ReconcileSane, StoppedFits DEF UpdateAndSchedule
  <1> QED BY <1>1, <1>2

\* A decision is withdrawn, or work of the host takes over.
LEMMA WithdrawFits ==
  ASSUME NEW x, Sane(x), NEW f, NEW g \in Goal, g.owner = x.g.owner,
         g.phase \notin {"ready", "waiting"}
  PROVE  /\ Fit(Update(x, g), f) /\ SameRun(x.m, Update(x, g).m)
         /\ Update(x, g).s = x.s
  <1>1. CASE Owned(x) /\ x.w > 0
    <2>1. Sane(Wrote(x, g)) /\ SameRun(x.m, Wrote(x, g).m) /\ ~Intends(Wrote(x, g))
          /\ Wrote(x, g).s = x.s
      BY <1>1, WroteSane, WroteRun DEF Sane, Owned, Intends
    <2> QED BY <1>1, <2>1, FitAtRest DEF Update
  <1>2. CASE ~(Owned(x) /\ x.w > 0)
    <2> DEFINE y == Reconcile(x)
    <2>1. Sane(y) /\ SameRun(x.m, y.m) /\ y.s = x.s
      BY ReconcileSane, ReconcileRun DEF Sane
    <2> HIDE DEF y
    <2>2. Fit(Stopped(y), f) /\ SameRun(y.m, Stopped(y).m) /\ Stopped(y).s = y.s
      BY <2>1, StoppedFits, StoppedRun, StoppedKeeps DEF Sane, Keeps
    <2> QED BY <1>2, <2>1, <2>2, SameRunTwice DEF Update, y
  <1> QED BY <1>1, <1>2

LEMMA TurnFits ==
  ASSUME NEW x, NEW f, Fit(x, f), Fresh \in Uuids
  PROVE  Fit(Turn(x), f) /\ Turn(x).m.pc = x.m.pc
  <1> DEFINE m == [x.m EXCEPT !.declared = FALSE]
             y == [x EXCEPT !.m = m]
             h == [y.g EXCEPT !.decision = None, !.phase = "idle", !.dispatch = None]
  <1>1. m \in Memory /\ SameRun(x.m, m)
    BY DEF Fit, Sane, Contexts, Memory, SameRun
  <1> HIDE DEF m
  <1>2. y \in Contexts /\ y.g = x.g /\ y.s = x.s /\ y.m = m
    BY <1>1 DEF Fit, Sane, Contexts
  <1> HIDE DEF y
  <1>3. Sane(y)
    BY <1>1, <1>2, SameRunOK DEF Fit, Sane, Mine
  <1>4. h \in Goal /\ h.owner = y.g.owner /\ h.phase = "idle"
    BY <1>2 DEF Contexts, Goal
  <1> HIDE DEF h
  <1>5. Fit(Update(y, h), f) /\ SameRun(y.m, Update(y, h).m)
    BY <1>3, <1>4, WithdrawFits
  <1>6. CASE x.m.denied \/ ~x.m.declared
    BY <1>6 DEF Turn
  <1>7. CASE ~(x.m.denied \/ ~x.m.declared)
    <2>1. Turn(x) = Update(y, h)
      BY <1>7 DEF Turn, y, h, m
    <2> QED BY <1>1, <1>2, <1>5, <2>1 DEF SameRun
  <1> QED BY <1>6, <1>7

LEMMA TakeoverFits ==
  ASSUME NEW x, Sane(x), NEW f, Fresh \in Uuids
  PROVE  Fit(Takeover(x), f)
  <1> DEFINE m == [ClearContinuation(x.m, TRUE) EXCEPT !.declared = FALSE]
             y == [x EXCEPT !.m = [ClearContinuation(@, TRUE) EXCEPT !.declared = FALSE]]
             h == [y.g EXCEPT !.gen = Fresh, !.phase = "idle", !.decision = None,
                              !.dispatch = None, !.wait = None, !.repairUsed = FALSE,
                              !.idle = "none"]
  <1>1. m \in Memory /\ SameRun(x.m, m)
    BY DEF Sane, Contexts, Memory, SameRun, ClearContinuation, CancelTimer
  <1>2. y \in Contexts /\ y.g = x.g /\ y.s = x.s /\ y.m = m
    BY <1>1 DEF Sane, Contexts
  <1> HIDE DEF y, m
  <1>3. Sane(y)
    BY <1>1, <1>2, SameRunOK DEF Sane, Mine
  <1>4. h \in Goal /\ h.owner = y.g.owner /\ h.phase = "idle"
    BY <1>2 DEF Contexts, Goal, Idle
  <1> HIDE DEF h
  <1>5. Fit(Update(y, h), f)
    BY <1>3, <1>4, WithdrawFits
  <1>6. y.g.owner # y.s => Fit(y, f)
    BY <1>3, FitAtRest DEF Intends
  <1> QED BY <1>5, <1>6 DEF Takeover, y, h

LEMMA RejectFits ==
  ASSUME NEW x, NEW f, Fit(x, f), x.m.pc # "idle"
  PROVE  Fit(Reject(x), f)
  <1> DEFINE m == [CancelTimer(x.m) EXCEPT !.denied = TRUE, !.abort = TRUE, !.cont = FALSE]
             y == [x EXCEPT !.m = m]
  <1>1. /\ m \in Memory /\ m.pc = x.m.pc /\ m.inRun = x.m.inRun /\ m.denied /\ m.abort
        /\ m.held = x.m.held /\ ~m.cont /\ ~m.timer /\ m.retry = x.m.retry
    BY DEF Fit, Sane, Contexts, Memory, CancelTimer
  <1>2. MemoryOK(m)
    BY <1>1 DEF Fit, Sane, MemoryOK
  <1> HIDE DEF m
  <1>3. /\ y \in Contexts /\ y.g = x.g /\ y.s = x.s /\ y.m = m /\ y.err = x.err
    BY <1>1 DEF Fit, Sane, Contexts
  <1> HIDE DEF y
  <1>4. Sane(y)
    BY <1>2, <1>3 DEF Fit, Sane, Mine
  <1>5. Served(y, f)
    BY <1>1, <1>3 DEF Fit, Served, Intends, Bad
  <1> QED BY <1>4, <1>5 DEF Fit, Reject, y, m

LEMMA AdmitFits ==
  ASSUME NEW x, NEW f, Fit(x, f), x.m.pc # "idle", NEW c
  PROVE  Fit(Admit(x, c), f)
  <1> DEFINE y == Reconcile(x)
             h == [y.g EXCEPT !.phase = "running"]
  <1>1. /\ Fit(y, f) /\ y.m.pc # "idle" /\ y.g = x.g /\ y.s = x.s
        /\ y \in Contexts
    BY ReconcileFits, ReconcileRun, ReconcileSane DEF Fit, Sane, SameRun
  <1> HIDE DEF y
  <1>2. Fit(Reject(y), f)
    BY <1>1, RejectFits
  <1>3. ASSUME Owned(y), y.w > 0 PROVE Fit(Wrote(y, h), f)
    <2>1. h \in Goal /\ h.owner = y.s /\ h.phase = "running"
      BY <1>1, <1>3 DEF Contexts, Goal, Owned
    <2> HIDE DEF h
    <2>2. Sane(Wrote(y, h)) /\ ~Intends(Wrote(y, h))
      BY <1>1, <1>3, <2>1, WroteSane, WroteRun DEF Fit, Intends
    <2> QED BY <2>2, FitAtRest
  <1> QED BY <1>2, <1>3 DEF Admit, y

LEMMA MessageFits ==
  ASSUME NEW x, NEW f, Fit(x, f), x.m.pc # "idle", Fresh \in Uuids, NEW c
  PROVE  Fit(Message(x, c), f)
  BY TakeoverFits, AdmitFits DEF Message, Fit
-----------------------------------------------------------------------------
(* pi's events.                                                             *)

\* Only the memory changes.
LEMMA MemorySane ==
  ASSUME NEW x, Sane(x), NEW m \in Memory, MemoryOK(m)
  PROVE  LET y == [x EXCEPT !.m = m] IN
         Sane(y) /\ y.g = x.g /\ y.s = x.s /\ y.m = m /\ y.err = x.err /\ y.w = x.w
  <1> DEFINE y == [x EXCEPT !.m = m]
  <1>1. y \in Contexts /\ y.g = x.g /\ y.s = x.s /\ y.m = m /\ y.err = x.err /\ y.w = x.w
    BY DEF Sane, Contexts
  <1> HIDE DEF y
  <1>2. Sane(y)
    BY <1>1 DEF Sane, Mine
  <1> QED BY <1>1, <1>2 DEF y

\* What was bad stays so while nothing is scheduled; x may have been anywhere.
LEMMA FitStays ==
  ASSUME NEW x, NEW f, Fit(x, f), NEW y, Sane(y), y.g = x.g, y.s = x.s, x.err => y.err,
         y.m.pc # "idle", ~y.m.cont, ~y.m.timer, y.m.held => x.m.held
  PROVE  Fit(y, f)
  BY DEF Fit, Served, Intends, Bad

\* A run begins: agent_start.
LEMMA BeginFits ==
  ASSUME NEW x, NEW f, Fit(x, f), x.m.pc = "prep"
  PROVE  LET y == Begin([x EXCEPT !.m.pc = "turn", !.m.msg = None]) IN
         Fit(y, f) /\ y.m.pc = "turn"
  <1> DEFINE m == [x.m EXCEPT !.pc = "turn", !.msg = None]
             n == [CancelTimer(m) EXCEPT !.inRun = TRUE, !.declared = FALSE, !.cont = FALSE]
             y == [x EXCEPT !.m.pc = "turn", !.m.msg = None]
  <1>1. /\ m \in Memory /\ m.pc = "turn" /\ m.held = x.m.held /\ m.denied = x.m.denied
        /\ m.inRun = x.m.inRun /\ m.cont = x.m.cont /\ m.timer = x.m.timer
        /\ m.retry = x.m.retry /\ m.abort = x.m.abort
    BY DEF Fit, Sane, Contexts, Memory
  <1> HIDE DEF m
  <1>2. /\ n \in Memory /\ n.pc = "turn" /\ n.held = x.m.held /\ n.denied = x.m.denied
        /\ n.inRun /\ ~n.cont /\ ~n.timer /\ n.retry = x.m.retry /\ n.abort = x.m.abort
    BY <1>1 DEF Memory, CancelTimer
  <1>3. y = [x EXCEPT !.m = m] /\ y.m = m
    BY <1>1 DEF Fit, Sane, Contexts, m
  <1> HIDE DEF n, y
  <1>4. MemoryOK(n) /\ ~x.m.inRun /\ (x.m.denied => MemoryOK(m) /\ ~m.cont /\ ~m.timer)
    BY <1>1, <1>2 DEF Fit, Sane, MemoryOK
  <1>5. CASE y.m.denied \/ y.m.inRun
    <2>1. x.m.denied /\ Begin(y) = y
      BY <1>1, <1>3, <1>4, <1>5 DEF Begin
    <2>2. Sane(y) /\ y.g = x.g /\ y.s = x.s /\ y.err = x.err
      BY <1>1, <1>3, <1>4, <2>1, MemorySane DEF Fit
    <2> QED BY <1>1, <1>3, <1>4, <2>1, <2>2, FitStays DEF y
  <1>6. CASE ~(y.m.denied \/ y.m.inRun)
    <2> DEFINE z == [x EXCEPT !.m = n]
    <2>1. Begin(y) = z
      <3>1. Begin(y) = [y EXCEPT !.m = n]
        BY <1>3, <1>6 DEF Begin, n
      <3>2. [y EXCEPT !.m = n] = z
        BY <1>3 DEF Fit, Sane, Contexts
      <3> QED BY <3>1, <3>2
    <2>2. Sane(z) /\ z.g = x.g /\ z.s = x.s /\ z.err = x.err /\ z.m = n
      BY <1>2, <1>4, MemorySane DEF Fit
    <2> HIDE DEF z
    <2>3. Fit(z, f)
      BY <1>2, <2>2, FitStays
    <2> QED BY <1>2, <2>1, <2>2, <2>3 DEF y
  <1> QED BY <1>5, <1>6

\* declare(), which a run calls that nobody has cancelled.
LEMMA DeclareFits ==
  ASSUME NEW x, Sane(x), NEW f, Fresh \in Uuids, NEW decision \in {"ready", "wait"},
         NEW wait \in Wait \cup {None}, x.m.pc = "turn", ~x.m.abort
  PROVE  Fit(Declare(x, decision, wait), f)
  <1> DEFINE h == [x.g EXCEPT !.phase = IF decision = "wait" THEN "waiting" ELSE "ready",
                              !.decision = decision, !.wait = wait,
                              !.idle = IF Strict(x.g) THEN "none" ELSE @,
                              !.dispatch = None, !.gen = Fresh]
             z == Wrote(x, h)
             n == [z.m EXCEPT !.declared = TRUE]
             y == [z EXCEPT !.m = n]
  <1>1. ~x.m.held /\ ~x.m.cont
    BY DEF Sane, MemoryOK
  <1>2. h \in Goal /\ h.owner = x.g.owner
    BY DEF Sane, Contexts, Goal, Purposes, Idle
  <1> HIDE DEF h
  <1>3. CASE Owned(x) /\ Available(x.g) /\ x.w > 0
    <2>1. Sane(z) /\ SameRun(x.m, z.m)
      BY <1>2, <1>3, WroteSane, WroteRun DEF Sane, Owned
    <2> HIDE DEF z
    <2>2. n \in Memory /\ SameRun(z.m, n)
      BY <2>1 DEF Sane, Contexts, Memory, SameRun
    <2> HIDE DEF n
    <2>3. Sane(y) /\ SameRun(x.m, y.m)
      BY <2>1, <2>2, SameRunOK, SameRunTwice, MemorySane DEF Sane
    <2> HIDE DEF y
    <2>4. Fit(y, f)
      BY <1>1, <2>3, FitBusy DEF SameRun
    <2> QED BY <1>3, <2>4 DEF Declare, h, z, n, y
  <1>4. CASE ~(Owned(x) /\ Available(x.g) /\ x.w > 0)
    BY <1>1, <1>4, FitBusy DEF Declare
  <1> QED BY <1>3, <1>4

\* settled(), once the session is idle.
LEMMA SettleFits ==
  ASSUME NEW x, Sane(x), NEW f, Fresh \in Uuids, NEW worked \in BOOLEAN,
         ~x.m.inRun, ~x.m.denied, Actionable(x)
  PROVE  Fit(SettleRun(x, TRUE, worked), f)
  <1> DEFINE h == [x.g EXCEPT !.phase = "ready", !.dispatch = None, !.decision = "repair"]
             i == PaceIdle(ImplicitReady(x.g), worked)
  <1>1. x.g.active /\ ~x.m.held /\ x.g \in Goal
    BY DEF Actionable, Held, Sane, Contexts
  <1>2. Fit(Stopped(x), f) /\ Fit(Pause(x), f)
    BY StoppedFits, PauseFits
  <1>3. Fit(Schedule(x), f)
    BY <1>1, ScheduleFits DEF Held
  <1>4. h \in Goal /\ h.owner = x.g.owner
    BY <1>1 DEF Goal, Purposes
  <1>5. i \in Goal /\ i.owner = x.g.owner
    <2> DEFINE j == ImplicitReady(x.g)
    <2>1. Saves(x.g, j) /\ j.phase = "ready" /\ j.owner = x.g.owner
      BY <1>1, ImplicitReadySaves DEF ImplicitReady, Goal
    <2> HIDE DEF j
    <2>2. PaceIdle(j, worked) \in Goal /\ PaceIdle(j, worked).owner = j.owner
      BY <2>1, PaceIdleSaves DEF Saves, PaceIdle, Goal
    <2> QED BY <2>1, <2>2 DEF j
  <1> HIDE DEF h, i
  <1>6. Fit(UpdateAndSchedule(x, h), f) /\ Fit(UpdateAndSchedule(x, i), f)
    BY <1>1, <1>4, <1>5, UpdateFits
  <1> QED BY <1>1, <1>2, <1>3, <1>6 DEF SettleRun, h, i

\* claim(), of a continuation that was taken from the queue.
LEMMA ClaimFits ==
  ASSUME NEW x, NEW f, Sane(x), GoalSound(x.g), Fresh \in Uuids, NEW sent \in BOOLEAN,
         ~x.m.inRun, ~x.m.denied, ~x.m.held, ~x.m.cont,
         Intends(x) => x.m.armed = x.g.gen \/ x.m.timer
  PROVE  Fit(Claim(x, sent), f)
  <1> DEFINE gen == x.m.armed
             m == [x.m EXCEPT !.armed = None]
             u == [x EXCEPT !.m = m]
             y == Reconcile(u)
             g == IF LostRepair(y.g) THEN ImplicitReady(y.g) ELSE y.g
             h == Claimed(g)
             z == Wrote(y, h)
             q == [gen |-> z.g.gen, dispatch |-> z.g.dispatch]
             e == [z EXCEPT !.m.queue = q]
  <1>1. m \in Memory /\ SameRun(x.m, m) /\ m.timer = x.m.timer
    BY DEF Sane, Contexts, Memory, SameRun
  <1> HIDE DEF m
  <1>2. Sane(u) /\ u.g = x.g /\ u.s = x.s /\ u.m = m
    BY <1>1, SameRunOK, MemorySane DEF Sane
  <1> HIDE DEF u
  <1>3. /\ Sane(y) /\ y.g = x.g /\ y.s = x.s /\ SameRun(m, y.m) /\ y \in Contexts
        /\ y.g \in Goal /\ (y.g.active => y.m.timer = x.m.timer)
    BY <1>1, <1>2, ReconcileSane, ReconcileRun DEF Sane, Contexts
  <1> HIDE DEF y
  <1>4. g \in Goal /\ g.owner = y.g.owner /\ g.used = y.g.used
    BY <1>3, ImplicitReadySaves DEF Saves, ImplicitReady, Goal
  <1>5. GoalSound(y.g) => GoalSound(g)
    BY <1>3, ImplicitReadySaves DEF Saves
  <1> HIDE DEF g
  <1>6. CASE gen = None
    <2>1. ~(x.m.armed = x.g.gen)
      BY <1>6, NoneAssumption DEF Sane, Contexts, Goal
    <2>2. Fit(x, f)
      BY <2>1 DEF Fit, Served, Awake
    <2> QED BY <1>6, <2>2 DEF Claim
  <1>7. ASSUME CanClaim(y, gen) PROVE Fit(Schedule(Wrote(y, g)), f)
    <2>1. Sane(Wrote(y, g)) /\ SameRun(y.m, Wrote(y, g).m)
      BY <1>3, <1>4, <1>7, WroteSane, WroteRun DEF CanClaim, Owned
    <2> QED BY <1>1, <1>3, <2>1, ScheduleFits DEF SameRun, Held
  <1>8. ASSUME CanClaim(y, gen), Kind(g) # None
        PROVE  Fit(e, f) /\ Fit(Pause(z), f)
    <2>1. h \in Goal /\ h.phase = "claimed" /\ h.owner = y.s /\ h.dispatch = Fresh
      <3>1. Available(g) /\ GoalSound(g) /\ g.owner = y.s
        BY <1>3, <1>4, <1>5, <1>8 DEF CanClaim, Available, Owned
      <3>2. h \in Goal /\ h.phase = "claimed" /\ h.dispatch = Fresh
        BY <1>4, <1>8, <3>1, ClaimedSound
      <3>3. h.owner = g.owner
        BY <1>4 DEF Claimed, Goal
      <3> QED BY <3>1, <3>2, <3>3
    <2> HIDE DEF h
    <2>2. Sane(z) /\ SameRun(y.m, z.m) /\ z.g = h
      BY <1>3, <1>8, <2>1, WroteSane, WroteRun DEF CanClaim
    <2> HIDE DEF z
    <2>3. q \in Checkpoint
      BY <2>1, <2>2 DEF Checkpoint, Goal
    <2> HIDE DEF q
    <2> DEFINE n == [z.m EXCEPT !.queue = q]
    <2>4. n \in Memory /\ SameRun(z.m, n)
      BY <2>2, <2>3 DEF Sane, Contexts, Memory, SameRun
    <2> HIDE DEF n
    <2>5. Sane([z EXCEPT !.m = n]) /\ [z EXCEPT !.m = n].g = h
      BY <2>2, <2>4, SameRunOK, MemorySane DEF Sane
    <2>6. e = [z EXCEPT !.m = n]
      BY DEF n
    <2> HIDE DEF e
    <2>7. Fit(e, f)
      BY <2>1, <2>5, <2>6, FitAtRest DEF Intends
    <2> QED BY <2>2, <2>7, PauseFits
  <1>9. Fit(Pause(y), f)
    BY <1>3, PauseFits
  <1>10. CASE y.g.owner # y.s \/ y.g.gen # gen
    <2>1. Intends(y) => y.m.timer
      BY <1>3, <1>10 DEF Intends
    <2>2. Fit(y, f)
      BY <1>1, <1>3, <2>1 DEF Fit, Served, Awake, SameRun
    <2>3. ~CanClaim(y, gen)
      BY <1>10 DEF CanClaim, Owned
    <2> HIDE DEF gen
    <2>4. gen # None => Claim(x, sent) = y
      BY <1>10, <2>3 DEF Claim, y, u, m, gen
    <2> QED BY <1>6, <2>2, <2>4
  <1> HIDE DEF h, z, q, e
  <1> QED BY <1>6, <1>7, <1>8, <1>9, <1>10 DEF Claim, y, u, m, g, h, z, q, e

\* before_agent_start for a prompt of the user: what was held is released.
LEMMA PreparePromptFits ==
  ASSUME NEW x, Sane(x), NEW f, Fresh \in Uuids, x.m.pc = "idle"
  PROVE  Fit(PreparePrompt(x), f)
  <1> DEFINE h == [x.g EXCEPT !.phase = "idle", !.gen = Fresh]
             y == IF ~Held(x) THEN x
                  ELSE IF x.w = 0 THEN Stopped(x)
                  ELSE IF x.g.owner = x.s /\ x.g.phase = "interrupted" THEN Wrote(x, h)
                  ELSE Wrote(x, x.g)
             c == ClearContinuation(y.m, TRUE)
             m == [c EXCEPT !.held = FALSE, !.pc = "prep", !.msg = None]
             z == [y EXCEPT !.m = m]
  <1>1. h \in Goal /\ h.owner = x.g.owner /\ x.g \in Goal
    BY DEF Sane, Contexts, Goal
  <1> HIDE DEF h
  <1>2. Sane(y) /\ SameRun(x.m, y.m)
    <2>1. Sane(x) /\ SameRun(x.m, x.m)
      BY DEF SameRun
    <2>2. Sane(Stopped(x)) /\ SameRun(x.m, Stopped(x).m)
      BY StoppedFits, StoppedRun DEF Fit, Sane
    <2>3. ASSUME x.w # 0, x.g.owner = x.s
          PROVE  Sane(Wrote(x, h))
      BY <1>1, <2>3, WroteSane DEF Sane, Contexts
    <2>4. ASSUME x.w # 0
          PROVE  Sane(Wrote(x, x.g))
      BY <1>1, <2>4, WroteSane DEF Sane, Contexts
    <2>5. SameRun(x.m, Wrote(x, h).m) /\ SameRun(x.m, Wrote(x, x.g).m)
      BY WroteRun DEF Sane
    <2> QED BY <2>1, <2>2, <2>3, <2>4, <2>5
  <1> HIDE DEF y
  <1>3. c \in Memory /\ SameRun(x.m, c) /\ ~c.cont /\ ~c.timer
    BY <1>2, ClearRun, CancelStays, SameRunTwice DEF Sane, Contexts, Stays
  <1> HIDE DEF c
  <1>4. m \in Memory /\ m.pc = "prep" /\ ~m.held /\ ~m.cont /\ ~m.timer
        /\ m.inRun = c.inRun /\ m.denied = c.denied
    BY <1>3 DEF Memory
  <1> HIDE DEF m
  <1>5. MemoryOK(m)
    BY <1>3, <1>4 DEF Sane, MemoryOK, SameRun
  <1>6. Sane(z) /\ z.m = m
    BY <1>2, <1>4, <1>5, MemorySane
  <1> HIDE DEF z
  <1>7. Fit(Reconcile(z), f)
    BY <1>4, <1>6, FitBusy, ReconcileFits
  <1> QED BY <1>7 DEF PreparePrompt, y, z, m, c, h

\* before_agent_start for a checkpoint.
LEMMA PrepareCheckpointFits ==
  ASSUME NEW x, NEW f, Fit(x, f), x.m.pc = "idle"
  PROVE  Fit(PrepareCheckpoint(x), f)
  <1> DEFINE c == ClearContinuation(x.m, FALSE)
             m == [c EXCEPT !.pc = "prep", !.msg = x.m.queue, !.queue = None]
             z == [x EXCEPT !.m = m]
             y == Reconcile(z)
             d == [CancelTimer(y.m) EXCEPT !.denied = TRUE, !.abort = TRUE, !.cont = FALSE]
             e == [y EXCEPT !.m = d]
  <1>1. c \in Memory /\ SameRun(x.m, c) /\ ~c.cont /\ ~c.timer
    BY ClearRun, CancelStays DEF Fit, Sane, Contexts, Stays
  <1> HIDE DEF c
  <1>2. m \in Memory /\ m.pc = "prep" /\ m.held = x.m.held /\ ~m.cont /\ ~m.timer
        /\ ~m.inRun /\ ~m.denied /\ (m.retry => x.m.retry)
    BY <1>1 DEF Memory, SameRun, Fit, Sane, Contexts, MemoryOK
  <1> HIDE DEF m
  <1>3. z \in Contexts /\ z.g = x.g /\ z.s = x.s /\ z.m = m /\ z.err = x.err
    BY <1>2 DEF Fit, Sane, Contexts
  <1> HIDE DEF z
  <1>4. /\ y \in Contexts /\ y.g = x.g /\ y.s = x.s /\ y.err = x.err /\ SameRun(m, y.m)
        /\ (y.g.active => y = z)
    BY <1>3, ReconcileKeeps, ReconcileRun DEF Keeps
  <1> HIDE DEF y
  <1>5. /\ d \in Memory /\ d.pc = "prep" /\ d.held = y.m.held /\ ~d.cont /\ ~d.timer
        /\ ~d.inRun /\ d.denied /\ d.abort /\ d.retry = y.m.retry
    BY <1>2, <1>4 DEF Contexts, Memory, CancelTimer, SameRun
  <1> HIDE DEF d
  <1>6. MemoryOK(d)
    BY <1>2, <1>4, <1>5 DEF MemoryOK, SameRun, Fit, Sane
  <1>7. Fit(e, f)
    <2>1. e \in Contexts /\ e.g = x.g /\ e.s = x.s /\ e.m = d /\ e.err = x.err
      BY <1>4, <1>5 DEF Contexts
    <2> HIDE DEF e
    <2>2. Sane(e)
      BY <1>6, <2>1 DEF Fit, Sane, Mine
    <2> QED BY <1>2, <1>4, <1>5, <2>1, <2>2, FitStays DEF SameRun
  <1>8. Actionable(y) => Fit(y, f)
    <2> SUFFICES ASSUME Actionable(y) PROVE Fit(y, f)
      OBVIOUS
    <2>1. y.m = m /\ ~m.held
      BY <1>3, <1>4 DEF Actionable, Held
    <2>2. Sane(y)
      BY <1>2, <1>4, <2>1 DEF Fit, Sane, Mine, MemoryOK
    <2> QED BY <1>2, <2>1, <2>2, FitBusy
  <1> QED BY <1>7, <1>8 DEF PrepareCheckpoint, Reject, y, z, m, c, d, e

\* agent_end.
LEMMA EndRunFits ==
  ASSUME NEW x, NEW f, Fit(x, f), NEW outcome, x.m.pc = "turn"
  PROVE  Fit(EndRun(x, outcome), f)
  <1> DEFINE m == [x.m EXCEPT !.pc = "ended", !.after = "none"]
             y == [x EXCEPT !.m.pc = "ended", !.m.after = "none"]
             n == ClearContinuation(m, FALSE)
             z == [y EXCEPT !.m = n]
  <1>1. /\ m \in Memory /\ m.pc = "ended" /\ m.inRun = x.m.inRun /\ m.denied = x.m.denied
        /\ m.held = x.m.held /\ m.abort = x.m.abort /\ m.cont = x.m.cont
        /\ m.timer = x.m.timer /\ m.retry = x.m.retry
    BY DEF Fit, Sane, Contexts, Memory
  <1>2. MemoryOK(m) /\ ~m.cont /\ ~m.timer
    BY <1>1 DEF Fit, Sane, MemoryOK
  <1>3. y = [x EXCEPT !.m = m]
    BY DEF Fit, Sane, Contexts
  <1> HIDE DEF m, y
  <1>4. Sane(y) /\ y.g = x.g /\ y.s = x.s /\ y.m = m /\ y.err = x.err
    BY <1>1, <1>2, <1>3, MemorySane DEF Fit
  <1>5. Fit(y, f)
    BY <1>1, <1>2, <1>4, FitStays
  <1>6. n \in Memory /\ SameRun(m, n) /\ MemoryOK(n)
    BY <1>1, <1>2, ClearRun, CancelStays, SameRunOK DEF Stays
  <1> HIDE DEF n
  <1>7. ASSUME NEW k \in Memory, SameRun(n, k)
        PROVE  Fit([y EXCEPT !.m = k], f)
    <2> DEFINE e == [y EXCEPT !.m = k]
    <2>1. Sane(e) /\ e.g = y.g /\ e.s = y.s /\ e.m = k /\ e.err = y.err
      BY <1>4, <1>6, <1>7, SameRunOK, MemorySane
    <2> HIDE DEF e
    <2>2. k.pc = "ended" /\ ~k.cont /\ ~k.timer /\ k.held = m.held
      BY <1>1, <1>2, <1>6, <1>7 DEF SameRun
    <2>3. Fit(e, f)
      BY <1>4, <1>5, <2>1, <2>2, FitStays
    <2> QED BY <2>3 DEF e
  <1>8. Fit(z, f)
    <2>1. SameRun(n, n)
      BY DEF SameRun
    <2> QED BY <1>6, <1>7, <2>1
  <1>9. Fit(PauseActive(z), f)
    BY <1>8, PauseActiveFits
  <1>10. Fit([z EXCEPT !.m.after = "network"], f)
    <2> DEFINE k == [n EXCEPT !.after = "network"]
    <2>1. k \in Memory /\ SameRun(n, k)
      BY <1>6 DEF Memory, SameRun
    <2>2. [z EXCEPT !.m.after = "network"] = [y EXCEPT !.m = k]
      BY <1>4 DEF Sane, Contexts
    <2> HIDE DEF k, z
    <2> QED BY <1>7, <2>1, <2>2
  <1>11. Fit([z EXCEPT !.m.after = "continue", !.m.retry = FALSE], f)
    <2> DEFINE k == [n EXCEPT !.after = "continue", !.retry = FALSE]
    <2>1. k \in Memory /\ SameRun(n, k)
      BY <1>6 DEF Memory, SameRun
    <2>2. [z EXCEPT !.m.after = "continue", !.m.retry = FALSE] = [y EXCEPT !.m = k]
      BY <1>4 DEF Sane, Contexts
    <2> HIDE DEF k, z
    <2> QED BY <1>7, <2>1, <2>2
  <1>12. z = [y EXCEPT !.m = ClearContinuation(@, FALSE)]
    BY <1>4 DEF n
  <1> HIDE DEF z
  <1> QED BY <1>5, <1>8, <1>9, <1>10, <1>11, <1>12 DEF EndRun, y

\* agent_settled, of a run that has ended or was cancelled before it began.
LEMMA FinishFits ==
  ASSUME NEW x, NEW f, Fit(x, f), Fresh \in Uuids, NEW worked \in BOOLEAN
  PROVE  Fit(Finish(x, worked), f)
  <1> DEFINE m     == [x.m EXCEPT !.pc = "idle", !.inRun = FALSE,
                                  !.after = "none", !.abort = FALSE]
             idle  == [x EXCEPT !.m.pc = "idle", !.m.inRun = FALSE,
                                !.m.after = "none", !.m.abort = FALSE]
             k     == [m EXCEPT !.denied = FALSE]
             n     == [m EXCEPT !.ignore = FALSE]
             quiet == [idle EXCEPT !.m.ignore = FALSE]
             ok    == x.m.after = "continue" /\ Actionable(x)
             y     == SettleRun(quiet, ok, worked)
             z     == IF x.m.ignore /\ ~Held(x) THEN Schedule(y) ELSE y
             b     == z.m.retry \/ (x.m.after = "network" /\ Actionable(z))
             e     == [z EXCEPT !.err = TRUE, !.m.retry = b]
  <1>1. /\ m \in Memory /\ m.pc = "idle" /\ ~m.inRun /\ ~m.abort
        /\ \A c \in {"denied", "held", "cont", "timer", "retry", "armed", "queue", "up"} :
              m[c] = x.m[c]
    BY DEF Fit, Sane, Contexts, Memory
  <1>2. idle = [x EXCEPT !.m = m]
    BY DEF Fit, Sane, Contexts
  <1> HIDE DEF m, idle
  <1>3. CASE x.m.denied
    <2> DEFINE u == [x EXCEPT !.m = k]
    <2>1. /\ k \in Memory /\ k.pc = "idle" /\ ~k.inRun /\ ~k.denied
          /\ k.held = x.m.held /\ k.cont = x.m.cont /\ k.timer = x.m.timer
          /\ k.retry = x.m.retry
      BY <1>1 DEF Memory
    <2> HIDE DEF k
    <2>2. MemoryOK(k) /\ ~k.cont /\ ~k.timer
      BY <1>3, <2>1 DEF Fit, Sane, MemoryOK
    <2>3. Sane(u) /\ u.g = x.g /\ u.s = x.s /\ u.m = k /\ u.err = x.err
      BY <2>1, <2>2, MemorySane DEF Fit
    <2> HIDE DEF u
    <2>4. Held(u) => Fit(u, f)
      BY <2>1, <2>2, <2>3 DEF Fit, Served, Held, Intends, Bad
    <2>5. Fit(Schedule(u), f)
      BY <2>1, <2>3, <2>4, ScheduleFits
    <2>6. /\ idle.m.denied
          /\ [idle EXCEPT !.m.denied = FALSE] = u
      BY <1>1, <1>2, <1>3 DEF Fit, Sane, Contexts, u, k
    <2>7. Finish(x, worked) = SettleRun(idle, FALSE, worked)
      BY <1>3 DEF Finish, idle
    <2>8. SettleRun(idle, FALSE, worked) = Schedule(u)
      BY <2>6 DEF SettleRun
    <2> QED BY <2>5, <2>7, <2>8
  <1>4. CASE ~x.m.denied
    <2>1. /\ n \in Memory /\ n.pc = "idle" /\ ~n.inRun /\ ~n.denied /\ ~n.abort
          /\ n.held = x.m.held /\ n.cont = x.m.cont /\ n.timer = x.m.timer
          /\ n.retry = x.m.retry /\ n.armed = x.m.armed
      BY <1>1, <1>4 DEF Memory
    <2>2. quiet = [x EXCEPT !.m = n]
      BY <1>1, <1>2 DEF Fit, Sane, Contexts, n
    <2> HIDE DEF n, quiet
    <2>3. MemoryOK(n)
      BY <2>1 DEF Fit, Sane, MemoryOK
    <2>4. Sane(quiet) /\ quiet.g = x.g /\ quiet.s = x.s /\ quiet.m = n
      BY <2>1, <2>2, <2>3, MemorySane DEF Fit
    <2>5. Held(quiet) = Held(x) /\ (Actionable(x) => Actionable(quiet))
      BY <2>1, <2>4 DEF Held, Actionable
    <2>6. ok \in BOOLEAN
      BY Zenon DEF Actionable, Held, Fit, Sane, Contexts
    <2>7. CASE ok
      <3>1. Actionable(x) /\ ok = TRUE
        BY <2>6, <2>7
      <3> HIDE DEF ok
      <3>2. Fit(y, f)
        BY <2>1, <2>4, <2>5, <3>1, SettleFits
      <3> HIDE DEF y
      <3>3. Fit(Schedule(y), f)
        BY <3>2, ScheduleFits DEF Fit
      <3>4. Finish(x, worked) = z
        BY <1>4, <3>1 DEF Finish, idle, quiet, y, ok
      <3> QED BY <3>2, <3>3, <3>4
    <2>8. CASE ~ok
      <3>1. y = quiet
        BY <2>1, <2>4, <2>8 DEF SettleRun
      <3> HIDE DEF ok, y
      <3>2. ASSUME ~Held(x) PROVE Fit(Schedule(quiet), f)
        BY <2>1, <2>4, <2>5, <3>2, ScheduleFits
      <3>3. Sane(z) /\ (Intends(z) /\ z.m.cont => z.m.armed = z.g.gen \/ z.m.timer)
        <4>1. Intends(quiet) /\ quiet.m.cont => quiet.m.armed = quiet.g.gen \/ quiet.m.timer
          BY <2>1, <2>4 DEF Fit, Served, Intends
        <4> QED BY <2>4, <3>1, <3>2, <4>1 DEF Fit, Served
      <3> HIDE DEF z
      <3>4. b \in BOOLEAN /\ (z.m.held => b = FALSE)
        <4>1. z.m.held => ~Actionable(z) /\ ~z.m.retry
          BY <3>3 DEF Sane, MemoryOK, Actionable, Held
        <4>2. z.m.retry \in BOOLEAN
          BY <3>3 DEF Sane, Contexts, Memory
        <4>3. b \in BOOLEAN
          BY <4>2
        <4> QED BY <4>1, <4>3
      <3> HIDE DEF b
      <3> DEFINE l == [z.m EXCEPT !.retry = b]
      <3>5. /\ l \in Memory
            /\ l.retry = b
            /\ \A c \in {"pc", "inRun", "denied", "held", "cont", "timer", "abort", "armed"} :
                  l[c] = z.m[c]
        BY <3>3, <3>4 DEF Sane, Contexts, Memory
      <3>6. e = [z EXCEPT !.err = TRUE, !.m = l]
        BY <3>3 DEF Sane, Contexts
      <3> HIDE DEF l, e
      <3>7. e \in Contexts /\ e.g = z.g /\ e.s = z.s /\ e.m = l /\ e.err
        BY <3>3, <3>5, <3>6 DEF Sane, Contexts
      <3>8. MemoryOK(l)
        BY <3>3, <3>4, <3>5 DEF Sane, MemoryOK
      <3>9. Sane(e)
        BY <3>3, <3>7, <3>8 DEF Sane, Mine
      <3>10. Fit(e, f)
        BY <3>3, <3>5, <3>7, <3>9 DEF Fit, Served, Intends, Bad
      <3>11. Finish(x, worked) = e
        BY <1>4, <2>8 DEF Finish, idle, quiet, ok, y, z, b, e
      <3> QED BY <3>10, <3>11
    <2> QED BY <2>7, <2>8
  <1> QED BY <1>3, <1>4

LEMMA CancelledStartFits ==
  ASSUME NEW x, NEW f, Fit(x, f), Fresh \in Uuids
  PROVE  Fit(CancelledStart(x), f)
  <1>1. Fit(PauseActive(x), f)
    BY PauseActiveFits
  <1> QED BY <1>1, FinishFits DEF CancelledStart

\* A session starts and finds the goal.
LEMMA RestoreFits ==
  ASSUME NEW x, Sane(x), NEW f, Fresh \in Uuids,
         x.m.inRun \/ x.m.denied \/ Held(x) => Fit(x, f)
  PROVE  Fit(Restore(x), f)
  <1> DEFINE y == Reconcile(x)
  <1>1. /\ Sane(y) /\ y.g = x.g /\ y.s = x.s
        /\ (x.g.active => y = x)
    BY ReconcileSane DEF Reconcile
  <1> HIDE DEF y
  <1>2. ~y.g.active \/ y.g.owner # y.s => Fit(y, f)
    BY <1>1, FitAtRest DEF Intends
  <1>3. Fit(Pause(y), f)
    BY <1>1, PauseFits
  <1>4. y.g.active => Fit(Schedule(y), f)
    BY <1>1, ScheduleFits
  <1> QED BY <1>2, <1>3, <1>4 DEF Restore, y

\* The user's resume.
LEMMA ResumeFits ==
  ASSUME NEW x, NEW f, Fit(x, f), Fresh \in Uuids
  PROVE  Fit(ResumeGoal(x), f) /\ ResumeGoal(x).s = x.s
  <1> DEFINE c == ClearContinuation(x.m, TRUE)
             y == [x EXCEPT !.m = c]
             m == [c EXCEPT !.held = FALSE, !.declared = c.inRun]
             u == [x EXCEPT !.m = m]
             z == Wrote(u, NewRun(x.s))
             e == [y EXCEPT !.err = TRUE]
  <1>1. c \in Memory /\ SameRun(x.m, c) /\ ~c.cont /\ ~c.timer
    BY ClearRun, CancelStays DEF Fit, Sane, Contexts, Stays
  <1>2. MemoryOK(c)
    BY <1>1, SameRunOK DEF Fit, Sane
  <1> HIDE DEF c
  <1>3. Sane(y) /\ y.g = x.g /\ y.s = x.s /\ y.m = c /\ y.w = x.w
    BY <1>1, <1>2, MemorySane DEF Fit
  <1>4. /\ m \in Memory /\ m.pc = c.pc /\ m.inRun = c.inRun /\ m.denied = c.denied
        /\ ~m.held /\ ~m.cont /\ ~m.timer
    BY <1>1 DEF Memory
  <1>5. MemoryOK(m)
    BY <1>2, <1>4 DEF MemoryOK
  <1>6. [y EXCEPT !.m.held = FALSE, !.m.declared = y.m.inRun] = u
    BY <1>1, <1>3 DEF Fit, Sane, Contexts
  <1> HIDE DEF m
  <1>7. Sane(u) /\ u.g = x.g /\ u.s = x.s /\ u.m = m /\ u.w = x.w
    BY <1>4, <1>5, MemorySane DEF Fit
  <1> HIDE DEF u, y
  <1>8. Fit(e, f) /\ e.s = x.s
    <2>1. e \in Contexts /\ e.g = y.g /\ e.s = y.s /\ e.m = y.m /\ e.err
      BY <1>3 DEF Sane, Contexts
    <2> HIDE DEF e
    <2>2. Sane(e)
      BY <1>3, <2>1 DEF Sane, Mine
    <2> QED BY <1>1, <1>3, <2>1, <2>2, FitFailed
  <1>9. ASSUME y.w # 0 PROVE Fit(Schedule(z), f) /\ Schedule(z).s = x.s
    <2>1. u.w > 0 /\ NewRun(x.s) \in Goal /\ NewRun(x.s).owner = u.s
      <3>1. x.s \in Sessions /\ u.w > 0
        BY <1>3, <1>7, <1>9 DEF Sane, Fit, Contexts
      <3> QED BY <1>7, <3>1, NewRunSound DEF NewRun
    <2>2. Sane(z) /\ SameRun(m, z.m) /\ z.s = x.s
      BY <1>7, <2>1, WroteSane, WroteRun DEF Sane
    <2> HIDE DEF z
    <2>3. ~Held(z)
      BY <1>4, <2>2 DEF Held, SameRun
    <2>4. z.m.inRun \/ z.m.denied => Fit(z, f)
      <3> SUFFICES ASSUME z.m.inRun \/ z.m.denied PROVE Fit(z, f)
        OBVIOUS
      <3>1. z.m.pc # "idle" /\ ~z.m.cont /\ ~z.m.held
        BY <1>4, <2>2 DEF Sane, MemoryOK, SameRun
      <3> QED BY <2>2, <3>1, FitBusy
    <2>5. Fit(Schedule(z), f)
      BY <2>2, <2>3, <2>4, ScheduleFits
    <2>6. Schedule(z).s = z.s
      BY <2>2, ScheduleKeeps DEF Sane, Keeps
    <2> QED BY <2>2, <2>5, <2>6
  <1> HIDE DEF z, e
  <1>10. ResumeGoal(x) = IF Limit = 0 THEN x ELSE IF y.w = 0 THEN e ELSE Schedule(z)
    BY <1>3, <1>6 DEF ResumeGoal, y, z, e, c
  <1> QED BY <1>8, <1>9, <1>10
-----------------------------------------------------------------------------
(* Steps.                                                                   *)

\* The step of a session that serves its intent.
FitBy(s) == \E y : y.s = s /\ Fit(y, failed[s]) /\ Become(y)

LEMMA FitStep ==
  ASSUME TypeOK, IntentInv, NEW s \in Sessions, FitBy(s)
  PROVE  IntentInv'
  <1>1. PICK y : y.s = s /\ Fit(y, failed[s]) /\ Become(y)
    BY DEF FitBy
  <1>2. Becomes(s, y)
    BY <1>1 DEF Becomes, Fit, Sane
  <1>3. /\ goal' = y.g /\ mem'[s] = y.m
        /\ \A r \in Sessions \ {s} : mem'[r] = mem[r]
    BY <1>2, BecomeTypes
  <1>4. /\ failed'[s] = Bad(y, failed[s])
        /\ \A r \in Sessions \ {s} : failed'[r] = failed[r]
    BY <1>1 DEF Become, Bad, TypeOK
  <1> SUFFICES ASSUME NEW r \in Sessions
               PROVE  /\ MemoryOK(mem'[r]) /\ Scheduled(r)'
                      /\ At(r, "idle")' /\ Intent(r)' /\ ~failed'[r] /\ ~mem'[r].held =>
                           \/ mem'[r].cont /\ mem'[r].armed = goal'.gen
                           \/ mem'[r].timer \/ mem'[r].retry \/ mem'[r].queue # None
    BY DEF IntentInv, NoStrandedIntent
  <1>5. CASE r = s
    <2>1. Intent(s)' => Intends(y)
      BY <1>1, <1>3 DEF Intent, Intends
    <2>2. At(s, "idle")' => y.m.up /\ y.m.pc = "idle"
      BY <1>3 DEF At
    <2> QED BY <1>1, <1>3, <1>4, <1>5, <2>1, <2>2 DEF Fit, Sane, Served, Scheduled, Awake
  <1>6. CASE r # s
    <2>1. mem'[r] = mem[r] /\ failed'[r] = failed[r]
      BY <1>3, <1>4, <1>6
    <2>2. CASE goal' = goal
      BY <2>1, <2>2 DEF IntentInv, NoStrandedIntent, Scheduled, Intent, At
    <2>3. CASE ~goal'.active \/ goal'.owner = s
      <3>1. ~Intent(r)'
        BY <1>6, <2>3 DEF Intent
      <3> QED BY <2>1, <3>1 DEF IntentInv, Scheduled
    <2> QED BY <1>1, <1>3, <2>2, <2>3 DEF Fit, Sane, Mine
  <1> QED BY <1>5, <1>6

\* Every handler starts from a context that is fit.
LEMMA ContextFit ==
  ASSUME TypeOK, IntentInv, NEW s \in Sessions, NEW w \in Nat
  PROVE  LET x == Context(s, w) IN
         /\ Fit(x, failed[s]) /\ Sane(x) /\ x \in Contexts
         /\ x.s = s /\ x.g = goal /\ x.m = mem[s] /\ ~x.err
  <1> DEFINE x == Context(s, w)
  <1>1. /\ x \in Contexts /\ x.s = s /\ x.g = goal /\ x.m = mem[s] /\ ~x.err
    BY DEF TypeOK, Context, Contexts
  <1> HIDE DEF x
  <1>2. Sane(x)
    BY <1>1 DEF Sane, Mine, IntentInv
  <1>3. Served(x, failed[s])
    <2> SUFFICES ASSUME Intends(x) PROVE
           /\ x.m.cont => x.m.armed = x.g.gen \/ x.m.timer
           /\ x.m.held => Bad(x, failed[s])
           /\ x.m.up /\ x.m.pc = "idle" /\ ~x.m.held => Bad(x, failed[s]) \/ Awake(x)
      BY DEF Served
    <2>1. Intent(s)
      BY <1>1 DEF Intent, Intends
    <2>2. x.m.cont => x.m.armed = x.g.gen \/ x.m.timer
      BY <1>1, <2>1 DEF IntentInv, Scheduled
    <2>3. x.m.held => Bad(x, failed[s])
      BY <1>1, <2>1 DEF IntentInv, Scheduled, MemoryOK, Bad
    <2>4. x.m.up /\ x.m.pc = "idle" /\ ~x.m.held => failed[s] \/ Awake(x)
      BY <1>1, <2>1 DEF IntentInv, NoStrandedIntent, At, Awake
    <2> QED BY <1>1, <2>2, <2>3, <2>4 DEF Bad, Awake
  <1> QED BY <1>1, <1>2, <1>3, Zenon DEF Fit, x

LEMMA PromptFits ==
  ASSUME SchedulerInv, IntentInv, NEW s \in Sessions,
         UserPrompt(s) \/ StartCheckpoint(s) \/ BeginRun(s) \/ CancelStart(s)
  PROVE  FitBy(s)
  <1> USE DEF SchedulerInv
  <1>1. Fresh \in Uuids
    BY FreshIsFree DEF TypeOK
  <1> DEFINE k(w) == Context(s, w)
  <1>2. \A w \in Writes \cup UnreadWrites :
           /\ Fit(k(w), failed[s]) /\ Sane(k(w)) /\ k(w) \in Contexts
           /\ k(w).s = s /\ k(w).m = mem[s]
    BY ContextFit, WritesNat
  <1> HIDE DEF k
  <1>3. CASE UserPrompt(s)
    <2>1. PICK w \in Writes : ActStep(PreparePrompt(k(w)))
      BY <1>3 DEF UserPrompt, k
    <2>2. k(w).m.pc = "idle"
      BY <1>2, <1>3 DEF UserPrompt, At
    <2>3. Fit(PreparePrompt(k(w)), failed[s]) /\ PreparePrompt(k(w)).s = s
      BY <1>1, <1>2, <2>2, PreparePromptFits, PreparePromptKeeps DEF Keeps
    <2> QED BY <2>1, <2>3 DEF FitBy, ActStep, UserStep
  <1>4. CASE StartCheckpoint(s)
    <2>1. PICK w \in Writes : Step(PrepareCheckpoint(k(w)))
      BY <1>4 DEF StartCheckpoint, k
    <2>2. k(w).m.pc = "idle"
      BY <1>2, <1>4 DEF StartCheckpoint, At
    <2>3. Fit(PrepareCheckpoint(k(w)), failed[s]) /\ PrepareCheckpoint(k(w)).s = s
      BY <1>2, <2>2, PrepareCheckpointFits, PrepareCheckpointKeeps DEF Keeps
    <2> QED BY <2>1, <2>3 DEF FitBy, Step
  <1>5. CASE BeginRun(s)
    <2> DEFINE x(w) == [k(w) EXCEPT !.m.pc = "turn", !.m.msg = None]
               y(w) == Message(Begin(x(w)), mem[s].msg)
    <2>1. PICK w \in Writes : Become(y(w))
      BY <1>5 DEF BeginRun, UserStep, Step, k
    <2>2. k(w).m.pc = "prep"
      BY <1>2, <1>5 DEF BeginRun, At
    <2>3. Fit(Begin(x(w)), failed[s]) /\ Begin(x(w)).m.pc = "turn"
      BY <1>2, <2>2, BeginFits
    <2>4. Fit(y(w), failed[s])
      BY <1>1, <2>3, MessageFits
    <2>5. x(w) \in Contexts /\ x(w).s = s
      <3> DEFINE m == [k(w).m EXCEPT !.pc = "turn", !.msg = None]
      <3>1. m \in Memory
        <4> DEFINE n == k(w).m
        <4>1. n \in Memory
          BY <1>2 DEF Contexts
        <4> HIDE DEF n
        <4>2. [n EXCEPT !.pc = "turn", !.msg = None] \in Memory
          BY ONLY <4>1 DEF Memory
        <4> QED BY <4>2 DEF n
      <3>2. x(w) = [k(w) EXCEPT !.m = m]
        BY <1>2 DEF Contexts
      <3> HIDE DEF m, x
      <3> QED BY <1>2, <3>1, <3>2 DEF Contexts
    <2> HIDE DEF x
    <2>6. Begin(x(w)) \in Contexts /\ Begin(x(w)).s = s
      BY <2>5, BeginKeeps DEF Keeps
    <2>7. y(w).s = s
      BY <1>1, <2>6, MessageMoves DEF Keeps, Admits
    <2> QED BY <2>1, <2>4, <2>7 DEF FitBy
  <1>6. CASE CancelStart(s)
    <2> DEFINE m(w) == [k(w).m EXCEPT !.msg = None]
               x(w) == [k(w) EXCEPT !.m = m(w)]
    <2>1. PICK w \in UnreadWrites : Step(CancelledStart(x(w)))
      BY <1>6 DEF CancelStart, k
    <2>2. /\ m(w) \in Memory /\ m(w).held = mem[s].held
          /\ \A c \in {"up", "pc", "inRun", "denied", "abort", "cont", "timer", "retry",
                         "armed", "queue"} : m(w)[c] = mem[s][c]
      <3>1. mem[s] \in Memory /\ k(w).m = mem[s]
        BY <1>2 DEF Contexts
      <3> QED BY ONLY <3>1 DEF Memory
    <2> HIDE DEF m
    <2>3. MemoryOK(m(w))
      BY <1>2, <2>2 DEF Sane, MemoryOK
    <2>4. Sane(x(w)) /\ x(w).g = k(w).g /\ x(w).s = s /\ x(w).m = m(w) /\ x(w).err = k(w).err
      BY <1>2, <2>2, <2>3, MemorySane
    <2> HIDE DEF x
    <2>5. Fit(x(w), failed[s])
      BY <1>2, <2>2, <2>4 DEF Fit, Served, Intends, Bad, Awake
    <2>6. Fit(CancelledStart(x(w)), failed[s]) /\ CancelledStart(x(w)).s = s
      BY <1>1, <2>4, <2>5, CancelledStartFits, CancelledStartKeeps DEF Keeps, Sane
    <2> QED BY <2>1, <2>6 DEF FitBy, Step
  <1> QED BY <1>3, <1>4, <1>5, <1>6

LEMMA TurnStepFits ==
  ASSUME SchedulerInv, IntentInv, NEW s \in Sessions,
         \/ Deliver(s) \/ Steer(s) \/ NextTurn(s) \/ DeclareReady(s) \/ DeclareWait(s)
         \/ StopGoal(s) \/ EndTurns(s) \/ ContinueRun(s) \/ Settled(s)
  PROVE  FitBy(s)
  <1> USE DEF SchedulerInv
  <1>1. Fresh \in Uuids
    BY FreshIsFree DEF TypeOK
  <1> DEFINE k(w) == Context(s, w)
  <1>2. \A w \in Writes :
           /\ Fit(k(w), failed[s]) /\ Sane(k(w)) /\ k(w) \in Contexts
           /\ k(w).s = s /\ k(w).m = mem[s] /\ k(w).g = goal
    BY ContextFit, WritesNat
  <1> HIDE DEF k
  <1>3. MemoryOK(mem[s])
    BY DEF IntentInv
  <1>4. \A w \in Writes : /\ Fit(Turn(k(w)), failed[s]) /\ Turn(k(w)).s = s
                           /\ Turn(k(w)) \in Contexts /\ Turn(k(w)).m.pc = mem[s].pc
    BY <1>1, <1>2, TurnFits, TurnKeeps DEF Keeps
  <1>5. CASE Deliver(s)
    <2> DEFINE m(w) == [k(w).m EXCEPT !.queue = None]
               x(w) == [k(w) EXCEPT !.m = m(w)]
    <2>1. PICK w \in Writes : Step(Admit(Turn(x(w)), mem[s].queue))
      BY <1>5 DEF Deliver, k
    <2>2. mem[s].pc = "turn" /\ ~mem[s].held /\ ~mem[s].cont
      BY <1>3, <1>5 DEF Deliver, InTurn, At, MemoryOK
    <2>3. m(w) \in Memory /\ SameRun(mem[s], m(w))
      <3>1. mem[s] \in Memory /\ k(w).m = mem[s]
        BY <1>2 DEF Contexts
      <3> QED BY ONLY <3>1 DEF Memory, SameRun
    <2> HIDE DEF m
    <2>4. Sane(x(w)) /\ x(w).s = s /\ x(w).m = m(w)
      BY <1>2, <1>3, <2>3, SameRunOK, MemorySane
    <2> HIDE DEF x
    <2>5. Fit(x(w), failed[s])
      BY <2>2, <2>3, <2>4, FitBusy DEF SameRun
    <2>6. Fit(Turn(x(w)), failed[s]) /\ Turn(x(w)).m.pc = "turn"
      BY <1>1, <2>2, <2>3, <2>4, <2>5, TurnFits DEF SameRun
    <2>7. Turn(x(w)) \in Contexts /\ Turn(x(w)).s = s
      BY <1>1, <2>4, TurnKeeps DEF Keeps, Sane
    <2>8. Fit(Admit(Turn(x(w)), mem[s].queue), failed[s])
      BY <2>6, AdmitFits
    <2>9. Admit(Turn(x(w)), mem[s].queue).s = s
      BY <2>7, AdmitMoves DEF Keeps, Admits
    <2> QED BY <2>1, <2>8, <2>9 DEF FitBy, Step
  <1>6. CASE Steer(s)
    <2>1. PICK w \in Writes : ActStep(Message(Turn(k(w)), None))
      BY <1>6 DEF Steer, k
    <2>2. Fit(Message(Turn(k(w)), None), failed[s])
      BY <1>1, <1>4, <1>6, MessageFits DEF Steer, InTurn, At
    <2>3. Message(Turn(k(w)), None).s = s
      BY <1>1, <1>4, MessageMoves DEF Keeps
    <2> QED BY <2>1, <2>2, <2>3 DEF FitBy, ActStep, UserStep
  <1>7. CASE NextTurn(s)
    BY <1>4, <1>7 DEF NextTurn, FitBy, Step, k
  <1>8. ASSUME NEW w \in Writes, NEW d \in {"ready", "wait"}, NEW wait \in Wait \cup {None},
               InTurn(s), d = "wait" => wait # None, Step(Declare(k(w), d, wait)),
               wait # None => (wait.due => wait.checks # None)
        PROVE  FitBy(s)
    <2>1. Fit(Declare(k(w), d, wait), failed[s])
      BY <1>1, <1>2, <1>8, DeclareFits DEF InTurn, At
    <2>2. Declare(k(w), d, wait).s = s
      BY <1>1, <1>2, <1>8, DeclareKeeps DEF Keeps, Waits
    <2> QED BY <1>8, <2>1, <2>2 DEF FitBy, Step
  <1>9. CASE DeclareReady(s)
    BY <1>8, <1>9 DEF DeclareReady, Calls, k
  <1>10. CASE DeclareWait(s)
    <2>1. PICK w \in Writes, wait \in IF goal.wait = None THEN NewWaits
                                       ELSE {Redeclared(goal.wait)} :
             Step(Declare(Context(s, w), "wait", wait))
      BY <1>10 DEF DeclareWait
    <2>2. wait \in Wait /\ ~wait.due
      <3>1. CASE goal.wait = None
        <4>1. PICK n \in 1 .. MaxChecks \cup {None} :
                 wait = [due |-> FALSE, expired |-> FALSE, signalled |-> FALSE, checks |-> n]
          BY <2>1, <3>1 DEF NewWaits
        <4>2. n \in 0 .. MaxChecks \cup {None}
          BY SchedulerAssumption
        <4> QED BY <4>1, <4>2 DEF Wait
      <3>2. CASE goal.wait # None
        BY <2>1, <3>2 DEF Redeclared, Wait, TypeOK, Goal
      <3> QED BY <3>1, <3>2
    <2> QED BY <1>8, <1>10, <2>1, <2>2, NoneAssumption DEF DeclareWait, Calls, k
  <1>11. CASE StopGoal(s)
    BY <1>2, <1>11, PauseActiveFits, PauseActiveKeeps DEF StopGoal, FitBy, Step, Keeps, k
  <1>12. CASE EndTurns(s)
    <2>1. PICK w \in Writes, o \in IF mem[s].abort THEN {"aborted"} ELSE Outcomes :
             Step(EndRun(k(w), o))
      BY <1>12 DEF EndTurns, k
    <2>2. Fit(EndRun(k(w), o), failed[s]) /\ EndRun(k(w), o).s = s
      BY <1>2, <1>12, EndRunFits, EndRunKeeps DEF EndTurns, At, Keeps
    <2> QED BY <2>1, <2>2 DEF FitBy, Step
  <1>13. CASE ContinueRun(s)
    <2> DEFINE m(w) == [k(w).m EXCEPT !.pc = "turn"]
               x(w) == [k(w) EXCEPT !.m = m(w)]
    <2>1. PICK w \in Writes : Step(Turn(x(w)))
      BY <1>13 DEF ContinueRun, k
    <2>2. /\ m(w) \in Memory /\ m(w).pc = "turn"
          /\ \A c \in {"up", "held", "inRun", "denied", "abort", "cont", "timer", "retry"} :
               m(w)[c] = mem[s][c]
      <3>1. mem[s] \in Memory /\ k(w).m = mem[s]
        BY <1>2 DEF Contexts
      <3> QED BY ONLY <3>1 DEF Memory
    <2> HIDE DEF m
    <2>3. MemoryOK(m(w)) /\ ~m(w).held /\ ~m(w).cont
      BY <1>3, <1>13, <2>2 DEF MemoryOK, ContinueRun, At
    <2>4. Sane(x(w)) /\ x(w).s = s /\ x(w).m = m(w)
      BY <1>2, <2>2, <2>3, MemorySane
    <2> HIDE DEF x
    <2>5. Fit(x(w), failed[s])
      BY <2>2, <2>3, <2>4, FitBusy
    <2>6. Fit(Turn(x(w)), failed[s]) /\ Turn(x(w)).s = s
      BY <1>1, <2>4, <2>5, TurnFits, TurnKeeps DEF Keeps, Sane
    <2> QED BY <2>1, <2>6 DEF FitBy, Step
  <1>14. CASE Settled(s)
    <2>1. PICK w \in Writes, worked \in BOOLEAN : Step(Finish(k(w), worked))
      BY <1>14 DEF Settled, k
    <2>2. Fit(Finish(k(w), worked), failed[s]) /\ Finish(k(w), worked).s = s
      BY <1>1, <1>2, FinishFits, FinishKeeps DEF Keeps
    <2> QED BY <2>1, <2>2 DEF FitBy, Step
  <1> QED BY <1>5, <1>6, <1>7, <1>9, <1>10, <1>11, <1>12, <1>13, <1>14

LEMMA TimerFits ==
  ASSUME SchedulerInv, IntentInv, NEW s \in Sessions,
         \/ SendContinuation(s) \/ TimerFires(s) \/ RetryFires(s) \/ Signal(s)
         \/ Reschedule(s) \/ Resume(s) \/ UserPause(s) \/ Interrupt(s) \/ StartSession(s)
  PROVE  FitBy(s)
  <1> USE DEF SchedulerInv
  <1>1. Fresh \in Uuids
    BY FreshIsFree DEF TypeOK
  <1> DEFINE k(w) == Context(s, w)
  <1>2. \A w \in Writes \cup UnreadWrites :
           /\ Fit(k(w), failed[s]) /\ Sane(k(w)) /\ k(w) \in Contexts
           /\ k(w).s = s /\ k(w).m = mem[s] /\ k(w).g = goal /\ ~k(w).err
    BY ContextFit, WritesNat
  <1> HIDE DEF k
  <1>3. MemoryOK(mem[s])
    BY DEF IntentInv
  <1>4. CASE SendContinuation(s)
    <2> DEFINE m(w) == [k(w).m EXCEPT !.cont = FALSE]
               x(w) == [k(w) EXCEPT !.m = m(w)]
    <2>1. PICK w \in Writes, sent \in BOOLEAN, stale \in BOOLEAN :
             Step(IF Actionable(x(w)) \/ (stale /\ ~goal.active) THEN Claim(x(w), sent) ELSE x(w))
      BY <1>4 DEF SendContinuation, k
    <2>2. mem[s].cont /\ ~mem[s].inRun /\ ~mem[s].denied /\ ~mem[s].held
      BY <1>3, <1>4 DEF SendContinuation, MemoryOK
    <2>3. /\ m(w) \in Memory /\ SameRun(mem[s], m(w)) /\ ~m(w).cont
          /\ m(w).armed = mem[s].armed /\ m(w).timer = mem[s].timer
      <3>1. mem[s] \in Memory /\ k(w).m = mem[s]
        BY <1>2 DEF Contexts
      <3> QED BY ONLY <3>1 DEF Memory, SameRun
    <2> HIDE DEF m
    <2>4. Sane(x(w)) /\ x(w).s = s /\ x(w).m = m(w) /\ x(w).g = goal
      BY <1>2, <1>3, <2>3, SameRunOK, MemorySane
    <2> HIDE DEF x
    <2>5. Intends(x(w)) => x(w).m.armed = x(w).g.gen \/ x(w).m.timer
      BY <2>2, <2>3, <2>4 DEF Intends, IntentInv, Scheduled, Intent
    <2>6. Fit(Claim(x(w), sent), failed[s])
      BY <1>1, <2>2, <2>3, <2>4, <2>5, ClaimFits DEF SameRun
    <2>7. Claim(x(w), sent).s = s
      BY <1>1, <2>4, ClaimMoves DEF Keeps, Claims, Sane
    <2>8. ~Actionable(x(w)) => Fit(x(w), failed[s])
      BY <2>2, <2>3, <2>4, FitAtRest DEF Actionable, Held, Intends, SameRun
    <2> QED BY <2>1, <2>4, <2>6, <2>7, <2>8 DEF FitBy, Step
  <1>5. CASE TimerFires(s)
    <2> DEFINE m(w) == [k(w).m EXCEPT !.timer = FALSE]
               x(w) == [k(w) EXCEPT !.m = m(w)]
    <2>1. PICK w \in Writes : Step(Schedule(x(w)))
      BY <1>5 DEF TimerFires, k
    <2>2. mem[s].timer /\ ~mem[s].inRun /\ ~mem[s].denied /\ ~mem[s].held
      BY <1>3, <1>5 DEF TimerFires, MemoryOK
    <2>3. m(w) \in Memory /\ SameRun(mem[s], m(w))
      <3>1. mem[s] \in Memory /\ k(w).m = mem[s]
        BY <1>2 DEF Contexts
      <3> QED BY ONLY <3>1 DEF Memory, SameRun
    <2> HIDE DEF m
    <2>4. Sane(x(w)) /\ x(w).s = s /\ x(w).m = m(w)
      BY <1>2, <1>3, <2>3, SameRunOK, MemorySane
    <2> HIDE DEF x
    <2>5. Fit(Schedule(x(w)), failed[s]) /\ Schedule(x(w)).s = s
      BY <1>1, <2>2, <2>3, <2>4, ScheduleFits, ScheduleKeeps DEF SameRun, Held, Keeps, Sane
    <2> QED BY <2>1, <2>5 DEF FitBy, Step
  <1>6. CASE RetryFires(s)
    <2> DEFINE m(w) == [k(w).m EXCEPT !.retry = FALSE]
               x(w) == [k(w) EXCEPT !.m = m(w)]
               h(w) == [x(w).g EXCEPT !.phase = "ready", !.dispatch = None, !.decision = "recovery"]
    <2>1. PICK w \in Writes :
             Step(IF ~Actionable(x(w)) THEN x(w) ELSE UpdateAndSchedule(x(w), h(w)))
      BY <1>6 DEF RetryFires, k
    <2>2. mem[s].retry /\ ~mem[s].held
      BY <1>3, <1>6 DEF RetryFires, MemoryOK
    <2>3. m(w) \in Memory /\ SameRun(mem[s], m(w))
      <3>1. mem[s] \in Memory /\ k(w).m = mem[s]
        BY <1>2 DEF Contexts
      <3> QED BY ONLY <3>1 DEF Memory, SameRun
    <2> HIDE DEF m
    <2>4. Sane(x(w)) /\ x(w).s = s /\ x(w).m = m(w) /\ x(w).g = goal
      BY <1>2, <1>3, <2>3, SameRunOK, MemorySane
    <2> HIDE DEF x
    <2>5. Saves(goal, h(w)) /\ h(w).owner = goal.owner
      BY <2>4 DEF Sane, Contexts, Saves, Goal, GoalSound, Purposes
    <2> HIDE DEF h
    <2>6. ~Actionable(x(w)) => Fit(x(w), failed[s])
      BY <2>2, <2>3, <2>4, FitAtRest DEF Actionable, Held, Intends, SameRun
    <2>7. Fit(UpdateAndSchedule(x(w), h(w)), failed[s])
      BY <1>1, <2>2, <2>3, <2>4, <2>5, UpdateFits DEF SameRun, Saves
    <2>8. UpdateAndSchedule(x(w), h(w)).s = s
      BY <1>1, <2>4, <2>5, UpdateKeeps DEF Keeps, Sane
    <2> QED BY <2>1, <2>4, <2>6, <2>7, <2>8 DEF FitBy, Step
  <1>7. CASE Signal(s)
    <2> DEFINE h == [goal EXCEPT !.wait.signalled = TRUE]
               x(w) == Update(k(w), h)
    <2>1. PICK w \in Writes : Step(IF x(w).err THEN x(w) ELSE Schedule(x(w)))
      BY <1>7 DEF Signal, k
    <2>2. /\ h \in Goal /\ h.gen = goal.gen /\ h.active /\ h.owner = s
          /\ h.phase = "waiting" /\ goal.active /\ goal.phase = "waiting" /\ goal.owner = s
      <3> DEFINE v == [goal.wait EXCEPT !.signalled = TRUE]
      <3>1. /\ goal.phase = "waiting" /\ goal.wait # None /\ goal.wait \in Wait
            /\ goal.active /\ goal.owner = s
        BY <1>7 DEF Signal, GoalSound, TypeOK, Goal
      <3>2. v \in Wait
        BY <3>1 DEF Wait
      <3>3. h = [goal EXCEPT !.wait = v]
        BY DEF TypeOK, Goal
      <3> HIDE DEF v, h
      <3> QED BY <3>1, <3>2, <3>3 DEF TypeOK, Goal
    <2> HIDE DEF h
    <2>3. Fit(x(w), failed[s]) /\ x(w).s = s
      <3>1. CASE Owned(k(w)) /\ k(w).w > 0
        <4> DEFINE y == Wrote(k(w), h)
        <4>1. /\ Sane(y) /\ y.m = mem[s] /\ y.g = h /\ y.s = s /\ y.err = k(w).err
          BY <1>2, <2>2, <3>1, WroteSane, WroteRun
        <4> HIDE DEF y
        <4>2. Fit(y, failed[s])
          BY <1>2, <2>2, <4>1 DEF Fit, Served, Intends, Bad, Awake
        <4> QED BY <3>1, <4>1, <4>2 DEF Update, y
      <3>2. CASE ~(Owned(k(w)) /\ k(w).w > 0)
        <4> DEFINE y == Reconcile(k(w))
        <4>1. Sane(y) /\ y.s = s
          BY <1>2, ReconcileSane
        <4> HIDE DEF y
        <4>2. Fit(Stopped(y), failed[s]) /\ Stopped(y).s = s
          BY <4>1, StoppedFits, StoppedKeeps DEF Sane, Keeps
        <4> QED BY <3>2, <4>2 DEF Update, y
      <3> QED BY <3>1, <3>2
    <2> HIDE DEF x
    <2>4. Fit(Schedule(x(w)), failed[s]) /\ Schedule(x(w)).s = s
      BY <1>1, <2>3, ScheduleFits, ScheduleKeeps DEF Keeps, Sane, Fit
    <2> QED BY <2>1, <2>3, <2>4 DEF FitBy, Step
  <1>8. CASE Reschedule(s)
    <2>1. PICK w \in Writes : Step(Schedule(k(w)))
      BY <1>8 DEF Reschedule, k
    <2>2. Fit(Schedule(k(w)), failed[s]) /\ Schedule(k(w)).s = s
      BY <1>1, <1>2, ScheduleFits, ScheduleKeeps DEF Keeps
    <2> QED BY <2>1, <2>2 DEF FitBy, Step
  <1>9. CASE Resume(s)
    BY <1>1, <1>2, <1>9, ResumeFits DEF Resume, FitBy, k
  <1>10. CASE UserPause(s)
    <2> DEFINE m(w) == [k(w).m EXCEPT !.held = FALSE, !.abort = mem[s].pc # "idle"]
               x(w) == [k(w) EXCEPT !.m.held = FALSE, !.m.abort = mem[s].pc # "idle"]
    <2>1. PICK w \in UnreadWrites : ActStep(PauseActive(x(w)))
      BY <1>10 DEF UserPause, k
    <2>2. x(w) = [k(w) EXCEPT !.m = m(w)]
      BY <1>2 DEF Contexts
    <2> HIDE DEF x
    <2>3. /\ m(w) \in Memory /\ ~m(w).held
          /\ \A c \in {"up", "pc", "inRun", "denied", "cont", "timer", "retry", "armed",
                         "queue"} : m(w)[c] = mem[s][c]
      <3> DEFINE a == mem[s].pc # "idle"
      <3>1. a \in BOOLEAN
        BY Zenon
      <3>2. m(w) = [mem[s] EXCEPT !.held = FALSE, !.abort = a] /\ mem[s] \in Memory
        BY <1>2 DEF Contexts
      <3> HIDE DEF a, m
      <3> QED BY <3>1, <3>2 DEF Memory
    <2> HIDE DEF m
    <2>4. MemoryOK(m(w))
      BY <1>3, <2>3 DEF MemoryOK
    <2>5. Sane(x(w)) /\ x(w).g = goal /\ x(w).s = s /\ x(w).m = m(w) /\ x(w).err = k(w).err
      BY <1>2, <2>2, <2>3, <2>4, MemorySane
    <2>6. Fit(x(w), failed[s])
      BY <1>2, <2>3, <2>5 DEF Fit, Served, Intends, Bad, Awake
    <2>7. Fit(PauseActive(x(w)), failed[s]) /\ PauseActive(x(w)).s = s
      BY <2>5, <2>6, PauseActiveFits, PauseActiveKeeps DEF Keeps, Sane
    <2> QED BY <2>1, <2>7 DEF FitBy, ActStep, UserStep
  <1>11. CASE Interrupt(s)
    <2> DEFINE c(w) == ClearContinuation(k(w).m, TRUE)
               m(w) == [c(w) EXCEPT !.held = TRUE, !.ignore = TRUE, !.abort = mem[s].pc # "idle"]
               x(w) == [k(w) EXCEPT !.m = m(w)]
               h == [goal EXCEPT !.phase = "interrupted", !.gen = Fresh, !.dispatch = None,
                                 !.decision = None, !.wait = None]
    <2>1. PICK w \in Writes : ActStep(Update(x(w), h))
      BY <1>11 DEF Interrupt, k
    <2>2. /\ c(w) \in Memory /\ SameRun(mem[s], c(w)) /\ ~c(w).cont /\ ~c(w).timer
          /\ ~c(w).retry
      <3>1. mem[s] \in Memory /\ k(w).m = mem[s]
        BY <1>2 DEF Contexts
      <3>2. c(w) \in Memory /\ SameRun(mem[s], c(w)) /\ ~c(w).cont /\ ~c(w).timer
        BY <3>1, ClearRun, CancelStays DEF Stays
      <3>3. ~c(w).retry
        BY <3>1 DEF ClearContinuation, CancelTimer, Memory
      <3> QED BY <3>2, <3>3
    <2> HIDE DEF c
    <2>3. /\ m(w) \in Memory /\ m(w).abort = (mem[s].pc # "idle")
          /\ \A d \in {"pc", "inRun", "denied", "cont", "timer", "retry"} : m(w)[d] = c(w)[d]
      <3>1. (mem[s].pc # "idle") \in BOOLEAN
        BY Zenon
      <3> QED BY <2>2, <3>1 DEF Memory
    <2> HIDE DEF m
    <2>4. MemoryOK(m(w))
      BY <1>3, <2>2, <2>3 DEF MemoryOK, SameRun
    <2>5. Sane(x(w)) /\ x(w).s = s /\ x(w).g = goal
      BY <1>2, <2>3, <2>4, MemorySane
    <2> HIDE DEF x
    <2>6. h \in Goal /\ h.owner = goal.owner /\ h.phase = "interrupted"
      BY <1>1 DEF TypeOK, Goal
    <2> HIDE DEF h
    <2>7. Fit(Update(x(w), h), failed[s]) /\ Update(x(w), h).s = s
      BY <2>5, <2>6, WithdrawFits
    <2> QED BY <2>1, <2>7 DEF FitBy, ActStep, UserStep
  <1>12. CASE StartSession(s)
    <2> DEFINE m(w) == [k(w).m EXCEPT !.up = TRUE]
               x(w) == [k(w) EXCEPT !.m = m(w)]
    <2>1. PICK w \in Writes : Step(Restore(x(w)))
      BY <1>12 DEF StartSession, k
    <2>2. /\ m(w) \in Memory /\ m(w).held = mem[s].held
          /\ \A c \in {"pc", "inRun", "denied", "abort", "cont", "timer", "retry",
                         "armed", "queue"} : m(w)[c] = mem[s][c]
      <3>1. mem[s] \in Memory /\ k(w).m = mem[s]
        BY <1>2 DEF Contexts
      <3> QED BY ONLY <3>1 DEF Memory
    <2> HIDE DEF m
    <2>3. MemoryOK(m(w))
      BY <1>3, <2>2 DEF MemoryOK
    <2>4. Sane(x(w)) /\ x(w).g = goal /\ x(w).s = s /\ x(w).m = m(w) /\ x(w).err = k(w).err
      BY <1>2, <2>2, <2>3, MemorySane
    <2> HIDE DEF x
    <2>5. x(w).m.inRun \/ x(w).m.denied \/ Held(x(w)) => Fit(x(w), failed[s])
      <3>1. x(w).m.inRun \/ x(w).m.denied \/ Held(x(w)) => x(w).m.pc # "idle" \/ x(w).m.held
        BY <2>3, <2>4 DEF MemoryOK, Held
      <3> QED BY <1>2, <2>2, <2>4, <3>1 DEF Fit, Served, Intends, Bad
    <2>6. Fit(Restore(x(w)), failed[s]) /\ Restore(x(w)).s = s
      BY <1>1, <2>4, <2>5, RestoreFits, RestoreKeeps DEF Keeps, Sane
    <2> QED BY <2>1, <2>6 DEF FitBy, Step
  <1> QED BY <1>4, <1>5, <1>6, <1>7, <1>8, <1>9, <1>10, <1>11, <1>12

\* The session is gone; time passes, and the setting is changed.
LEMMA RestFits ==
  ASSUME SchedulerInv, IntentInv,
         \/ \E s \in Sessions : Crash(s)
         \/ WaitDue \/ WaitExpires \/ IdlePasses \/ SetStrict
  PROVE  IntentInv'
  <1> USE DEF SchedulerInv
  <1>1. ASSUME NEW s \in Sessions, Crash(s) PROVE IntentInv'
    <2>1. /\ goal' = goal /\ mem' = [mem EXCEPT ![s] = Down]
          /\ failed' = [failed EXCEPT ![s] = FALSE]
      BY <1>1 DEF Crash
    <2>2. MemoryOK(Down) /\ ~Down.up /\ ~Down.cont /\ ~Down.held
      BY DEF Down, MemoryOK
    <2>3. /\ mem'[s] = Down
          /\ \A r \in Sessions \ {s} : mem'[r] = mem[r] /\ failed'[r] = failed[r]
      BY <2>1 DEF TypeOK
    <2> SUFFICES ASSUME NEW r \in Sessions
                 PROVE  /\ MemoryOK(mem'[r]) /\ Scheduled(r)'
                        /\ At(r, "idle")' /\ Intent(r)' /\ ~failed'[r] /\ ~mem'[r].held =>
                             \/ mem'[r].cont /\ mem'[r].armed = goal'.gen
                             \/ mem'[r].timer \/ mem'[r].retry \/ mem'[r].queue # None
      BY DEF IntentInv, NoStrandedIntent
    <2>4. CASE r = s
      BY <2>2, <2>3, <2>4 DEF Scheduled, At
    <2>5. CASE r # s
      BY <2>1, <2>3, <2>5 DEF IntentInv, NoStrandedIntent, Scheduled, Intent, At
    <2> QED BY <2>4, <2>5
  <1>2. ASSUME WaitDue \/ WaitExpires \/ IdlePasses \/ SetStrict PROVE IntentInv'
    <2>1. mem' = mem /\ failed' = failed
      BY <1>2 DEF WaitDue, WaitExpires, IdlePasses, SetStrict
    <2>2. /\ goal'.gen = goal.gen /\ goal'.active = goal.active /\ goal'.owner = goal.owner
          /\ goal'.phase = goal.phase
      BY <1>2 DEF WaitDue, WaitExpires, IdlePasses, SetStrict, TypeOK, Goal
    <2> QED BY <2>1, <2>2 DEF IntentInv, NoStrandedIntent, Scheduled, Intent, At
  <1> QED BY <1>1, <1>2

LEMMA IntentNext == SchedulerInv /\ IntentInv /\ [Next]_vars => IntentInv'
  <1> SUFFICES ASSUME SchedulerInv, IntentInv, [Next]_vars PROVE IntentInv'
    OBVIOUS
  <1>1. ASSUME NEW s \in Sessions, FitBy(s) PROVE IntentInv'
    BY <1>1, FitStep DEF SchedulerInv
  <1>2. ASSUME NEW s \in Sessions, Session(s) PROVE IntentInv'
    BY <1>1, <1>2, PromptFits, TurnStepFits, TimerFits, RestFits DEF Session
  <1>3. CASE UNCHANGED vars
    BY <1>3 DEF vars, IntentInv, NoStrandedIntent, Scheduled, Intent, At
  <1> QED BY <1>2, <1>3, RestFits DEF Next

LEMMA InitIntent == Init => IntentInv
  <1> SUFFICES ASSUME Init PROVE IntentInv
    OBVIOUS
  <1>1. PICK inRun \in BOOLEAN :
         LET kick == ~inRun /\ Limit > 0 IN
         /\ goal = [active |-> TRUE, owner |-> Creator, gen |-> 0, used |-> 0,
                    phase |-> IF kick THEN "ready" ELSE "idle",
                    decision |-> IF kick THEN "kickoff" ELSE None,
                    wait |-> None, dispatch |-> None, repairUsed |-> FALSE,
                    idle |-> "none"]
         /\ mem = [s \in Sessions |->
               IF s # Creator THEN Down
               ELSE [Down EXCEPT !.up = TRUE, !.inRun = inRun,
                       !.pc = IF inRun THEN "turn" ELSE "idle",
                       !.armed = IF kick THEN 0 ELSE None, !.cont = kick]]
    BY DEF Init
  <1> DEFINE kick == ~inRun /\ Limit > 0
  <1>2. /\ goal.owner = Creator /\ goal.gen = 0
        /\ goal.phase = IF kick THEN "ready" ELSE "idle"
    BY <1>1
  <1>3. \A s \in Sessions : s # Creator => mem[s] = Down
    BY <1>1
  <1>4. /\ mem[Creator].pc = IF inRun THEN "turn" ELSE "idle"
        /\ mem[Creator].inRun = inRun /\ ~mem[Creator].denied /\ ~mem[Creator].held
        /\ ~mem[Creator].timer /\ mem[Creator].cont = kick
        /\ mem[Creator].armed = IF kick THEN 0 ELSE None
    BY <1>1, SchedulerAssumption DEF Down
  <1> HIDE DEF kick
  <1>5. MemoryOK(Down) /\ ~Down.up /\ ~Down.cont /\ ~Down.held
    BY DEF Down, MemoryOK
  <1>6. inRun => ~kick
    BY DEF kick
  <1> SUFFICES ASSUME NEW s \in Sessions
               PROVE  /\ MemoryOK(mem[s]) /\ Scheduled(s)
                      /\ At(s, "idle") /\ Intent(s) =>
                            mem[s].cont /\ mem[s].armed = goal.gen
    BY DEF IntentInv, NoStrandedIntent
  <1>7. CASE s = Creator
    BY <1>2, <1>4, <1>6, <1>7 DEF MemoryOK, Scheduled, At, Intent
  <1>8. CASE s # Creator
    BY <1>3, <1>5, <1>8 DEF Scheduled, At
  <1> QED BY <1>7, <1>8

\* goal-scheduler.ts schedule(), goal-runtime.ts: while the owner's host is
\* idle a saved intent has a queued continuation, a timer, a retry or a
\* checkpoint that will act on it, unless a run or a write has failed.
THEOREM IntentIsKept == Spec => []NoStrandedIntent
  <1>1. IntentInv => NoStrandedIntent
    BY DEF IntentInv
  <1>2. Init /\ []SchedulerInv /\ [][Next]_vars => []IntentInv
    BY InitIntent, IntentNext, PTL
  <1> QED BY <1>1, <1>2, SchedulerHolds, PTL DEF Spec
=============================================================================
