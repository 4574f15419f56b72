--------------------------- MODULE CodexPoolProofs ---------------------------
(* Proofs about CodexPool. *)
EXTENDS CodexPool, FiniteSetTheorems, TLAPS

LEMMA IdsFinite ==
    IsFiniteSet(Ids) /\ Cardinality(Ids) \in Nat /\ MaxTok \in Nat
  BY PoolAssumption, FS_CardinalityType

LEMMA StoreTypes ==
    /\ NoStore \in Store
    /\ \A d \in Store : \A id \in Ids : Fence(d, id) \in Store
  <1>1. Absent \in Account
    BY IdsFinite DEF Absent, Account, Toks
  <1>2. NoStore \in Store
    BY <1>1 DEF NoStore, Store
  <1>3. ASSUME NEW d \in Store, NEW id \in Ids PROVE Fence(d, id) \in Store
    <2>1. d.acct[id] \in Account /\ d.acct \in [Ids -> Account]
      BY DEF Store
    <2>2. [d.acct[id] EXCEPT !.needsLogin = TRUE] \in Account
      BY <2>1 DEF Account
    <2> QED BY <2>1, <2>2 DEF Fence, Store
  <1> QED BY <1>2, <1>3

LEMMA LocalTypes == NoOp \in Op /\ NoLoop \in Loop
  BY IdsFinite DEF NoOp, Op, NoLoop, Loop, Jobs, Results, Toks

\* One field of a request's locals changed.
LEMMA LoopTypes ==
  ASSUME NEW l \in Loop
  PROVE  /\ \A b \in BOOLEAN : [l EXCEPT !.committed = b] \in Loop
         /\ \A S \in SUBSET Ids : [l EXCEPT !.buffered = S] \in Loop
         /\ \A S \in SUBSET Ids :
               [l EXCEPT !.committed = TRUE, !.buffered = S] \in Loop
  BY DEF Loop

\* One field of an account changed.
LEMMA AccountTypes ==
  ASSUME NEW d \in Store, NEW id \in Ids
  PROVE  /\ d.acct[id] \in Account
         /\ \A n \in Nat : [d EXCEPT !.acct[id].cooldown = n] \in Store
  <1>1. d.acct[id] \in Account /\ d.acct \in [Ids -> Account]
    BY DEF Store
  <1>2. \A n \in Nat : [d.acct[id] EXCEPT !.cooldown = n] \in Account
    BY <1>1 DEF Account
  <1> QED BY <1>1, <1>2 DEF Store

\* End leaves pc, op and req typed.
LEMMA EndTypes ==
  ASSUME NEW c \in Clients, TypeOK, End(c)
  PROVE  /\ pc' \in [Clients -> Points]
         /\ op' \in [Clients -> Op]
         /\ req' \in [Clients -> Loop]
  BY LocalTypes DEF TypeOK, End, Goto, Points

LEMMA TypeUpdate ==
  ASSUME NEW c \in Clients, TypeOK, Update(c)
  PROVE  TypeOK'
  <1> USE DEF TypeOK, At, Goto, Return, Points, worldVars, auditVars, storeVars
  <1>1. CASE Acquire(c)
    BY <1>1 DEF Acquire
  <1>2. CASE WaitFails(c)
    BY <1>2, EndTypes DEF WaitFails
  <1>3. CASE ReadFails(c)
    BY <1>3 DEF ReadFails, Op, Results
  <1>4. CASE Save(c)
    BY <1>4, StoreTypes DEF Save
  <1>5. CASE SaveFails(c)
    BY <1>5, StoreTypes DEF SaveFails, Op, Results
  <1>6. CASE UnlockThrown(c)
    BY <1>6, EndTypes DEF UnlockThrown
  <1> QED BY <1>1, <1>2, <1>3, <1>4, <1>5, <1>6 DEF Update

\* One pin of the sticky map changed.
Pins == [Processes -> [Sessions -> Ids \cup {None}]]

LEMMA PinTypes ==
  ASSUME NEW f \in Pins, NEW p \in Processes, NEW s \in Sessions,
         NEW v \in Ids \cup {None}
  PROVE  [f EXCEPT ![p][s] = v] \in Pins
  <1>1. [f[p] EXCEPT ![s] = v] \in [Sessions -> Ids \cup {None}]
    BY DEF Pins
  <1> QED BY <1>1 DEF Pins

LEMMA TypeSelect ==
  ASSUME NEW r \in Requests, TypeOK, HoldsAccount, RefreshOK, Select(r)
  PROVE  TypeOK'
  <1> USE DEF TypeOK, At, Goto, Return, Changed, Points, worldVars, auditVars,
              storeVars
  <1>0. r \in Clients
    BY DEF Clients
  <1>1. CASE SelectNone(r)
    BY <1>0, <1>1 DEF SelectNone, Selecting
  <1>2. CASE UnlockRetry(r)
    BY <1>0, <1>2, LocalTypes DEF UnlockRetry
  <1>3. CASE UnlockUnselected(r)
    BY <1>0, <1>3, EndTypes DEF UnlockUnselected
  <1>4. CASE StartStream(r)
    <2>1. op[r].id \in Ids
      BY <1>0, <1>4 DEF StartStream, HoldsAccount
    <2>2. sticky' \in [Processes -> [Sessions -> Ids \cup {None}]]
      <3> DEFINE p == ProcOf[r]
                 s == SessionOf[r]
      <3>1. p \in Processes /\ s \in Sessions
        BY <1>0, PoolAssumption
      <3>2. sticky' = [sticky EXCEPT ![p][s] = op[r].id]
            \/ \E x \in Sessions :
                  sticky' = [sticky EXCEPT ![p][s] = op[r].id, ![p][x] = None]
        BY <1>4 DEF StartStream, Remember
      <3>3. sticky \in Pins /\ [sticky EXCEPT ![p][s] = op[r].id] \in Pins
        BY <2>1, <3>1, PinTypes DEF Pins
      <3>4. \A x \in Sessions :
               [[sticky EXCEPT ![p][s] = op[r].id] EXCEPT ![p][x] = None] \in Pins
        BY <3>1, <3>3, PinTypes
      <3>5. \A x \in Sessions :
               [sticky EXCEPT ![p][s] = op[r].id, ![p][x] = None]
                  = [[sticky EXCEPT ![p][s] = op[r].id] EXCEPT ![p][x] = None]
        OBVIOUS
      <3>6. sticky' \in Pins
        BY <3>2, <3>3, <3>4, <3>5
      <3> QED BY <3>6 DEF Pins
    <2>3. sends' \in [Requests -> [Ids -> Nat]]
      BY <1>4, <2>1 DEF StartStream
    <2> QED BY <1>0, <1>4, <2>2, <2>3 DEF StartStream
  <1>5. CASE SendRefresh(r)
    <2>1. op[r].id \in Ids /\ op[r].tok \in Toks
      BY <1>0, <1>5 DEF SendRefresh, RefreshOK, Linked, Op
    <2>2. spends' \in [Ids -> [Toks -> Nat]]
      BY <1>5, <2>1 DEF SendRefresh
    <2> QED BY <1>0, <1>5, <2>2 DEF SendRefresh
  <1>6. CASE RefreshOk(r)
    <2> DEFINE a == op[r].id
               t == issued[a] + 1
    <2>1. a \in Ids /\ t \in Toks /\ mem[r] \in Store
      BY <1>0, <1>6, IdsFinite DEF RefreshOk, RefreshOK, Linked, Toks
    <2>2. Renewed(mem[r], a, t) \in Store
      <3>1. mem[r].acct[a] \in Account /\ mem[r].acct \in [Ids -> Account]
        BY <2>1 DEF Store
      <3>2. [mem[r].acct[a] EXCEPT !.tok = t, !.needsLogin = FALSE] \in Account
        BY <2>1, <3>1 DEF Account
      <3> QED BY <2>1, <3>1, <3>2 DEF Store, Renewed
    <2>3. op' \in [Clients -> Op]
      BY <1>0, <1>6, <2>1 DEF RefreshOk, Hold, Op, Jobs, Results
    <2>4. issued' \in [Ids -> Toks]
      BY <1>6, <2>1 DEF RefreshOk
    <2> QED BY <1>0, <1>6, <2>2, <2>3, <2>4 DEF RefreshOk
  <1>7. CASE RefreshFails(r)
    <2>1. op[r].id \in Ids
      BY <1>0, <1>7 DEF RefreshFails, RefreshOK, Linked
    <2>2. FailClosed(mem[r], op[r].id) \in Store
      BY <1>0, <2>1, StoreTypes DEF FailClosed
    <2> QED BY <1>0, <1>7, <2>2 DEF RefreshFails, Op, Results
  <1>8. ASSUME NEW a \in Ids, Take(r, a)
        PROVE  /\ req' \in [Clients -> Loop]
               /\ disk.acct[a].tok \in Toks
    <2>1. req[r] \in Loop /\ req[r].tried \cup {a} \in SUBSET Ids
      BY <1>0 DEF Loop
    <2>2. [req[r] EXCEPT !.tried = Tried(r, a)] \in Loop
      BY <2>1 DEF Loop, Tried
    <2> QED BY <1>0, <1>8, <2>2 DEF Take, Store, Account
  <1>9. ASSUME NEW a \in Ids, SelectReady(r, a) PROVE TypeOK'
    BY <1>0, <1>8, <1>9 DEF SelectReady, Hold, Op, Jobs, Results
  <1>10. ASSUME NEW a \in Ids, SelectExpired(r, a) PROVE TypeOK'
    <2>1. disk' \in Store
      BY <1>10, StoreTypes DEF SelectExpired
    <2>2. mem' \in [Clients -> Store] /\ pc' \in [Clients -> Points]
      BY <1>0, <1>10, <2>1 DEF SelectExpired
    <2>3. op' \in [Clients -> Op]
      BY <1>0, <1>8, <1>10 DEF SelectExpired, Hold, Op, Jobs, Results
    <2>4. blamed' \subseteq Ids \X Toks
      BY <1>8, <1>10 DEF SelectExpired
    <2> QED BY <1>8, <1>10, <2>1, <2>2, <2>3, <2>4 DEF SelectExpired
  <1>11. ASSUME NEW a \in Ids, FenceFails(r, a) PROVE TypeOK'
    BY <1>0, <1>8, <1>11 DEF FenceFails, Op, Results
  <1> QED BY <1>1, <1>2, <1>3, <1>4, <1>5, <1>6, <1>7, <1>9, <1>10, <1>11
          DEF Select

LEMMA TypeStream ==
  ASSUME NEW r \in Requests, TypeOK, HoldsAccount,
         \/ Begin(r) \/ NextAttempt(r) \/ GiveUp(r) \/ StreamEnd(r) \/ Mark(r)
         \/ UnlockMarked(r) \/ Event(r) \/ Output(r)
  PROVE  TypeOK'
  <1> USE DEF TypeOK, At, Goto, Changed, Points, worldVars, auditVars, storeVars
  <1>0. r \in Clients
    BY DEF Clients
  <1>1. CASE Begin(r)
    <2>1. CASE End(r)
      BY <1>0, <1>1, <2>1, EndTypes DEF Begin
    <2>2. CASE req' = [req EXCEPT ![r].allowed = Linked(disk)]
                 /\ Goto(r, "loop") /\ op' = op
      <3>1. /\ req[r] \in Loop
            /\ Linked(disk) \in SUBSET Ids
        BY <1>0 DEF Linked
      <3>2. [req[r] EXCEPT !.allowed = Linked(disk)] \in Loop
        BY <3>1 DEF Loop
      <3>3. req' \in [Clients -> Loop]
        BY <1>0, <2>2, <3>2
      <3> QED BY <1>0, <1>1, <2>2, <3>3 DEF Begin
    <2> QED BY <1>1, <2>1, <2>2 DEF Begin
  <1>2. CASE NextAttempt(r)
    BY <1>0, <1>2 DEF NextAttempt, Op, Jobs
  <1>3. CASE GiveUp(r)
    BY <1>0, <1>3, EndTypes DEF GiveUp
  <1>4. CASE Complete(r)
    <2>1. req[r].buffered \cup {op[r].id} \in SUBSET Ids
      BY <1>0, <1>4 DEF Complete, HoldsAccount, Loop
    <2> QED BY <1>0, <1>4, <2>1, EndTypes DEF Complete, Deliver
  <1>5. CASE StreamFails(r)
    BY <1>0, <1>5, EndTypes DEF StreamFails
  <1>6. ASSUME NEW kind \in {"quota", "auth"}, Refused(r, kind) PROVE TypeOK'
    <2>1. op[r].id \in Ids /\ op[r].tok \in Toks
      BY <1>0, <1>6 DEF Refused, HoldsAccount, Op
    <2>2. op' \in [Clients -> Op]
      BY <1>0, <1>6, <2>1 DEF Refused, Hold, Op, Jobs, Results
    <2>3. req' \in [Clients -> Loop]
      <3>1. PICK carries \in BOOLEAN :
               req' = [req EXCEPT ![r].committed = @ \/ carries]
        BY <1>6 DEF Refused
      <3>2. req[r] \in Loop /\ (req[r].committed \/ carries) \in BOOLEAN
        BY <1>0 DEF Loop
      <3> QED BY <1>0, <3>1, <3>2, LoopTypes
    <2>4. blamed' \subseteq Ids \X Toks
      BY <1>6, <2>1 DEF Refused
    <2> QED BY <1>0, <1>6, <2>2, <2>3, <2>4 DEF Refused
  <1>7. CASE Mark(r)
    <2> DEFINE a == op[r].id
    <2>0. a \in Ids
      BY <1>0, <1>7 DEF Mark, HoldsAccount
    <2>1. \E d \in Store : Changed(r, d)
      <3>1. CASE Stale(r)
        BY <1>7, <3>1 DEF Mark
      <3>2. CASE ~Stale(r) /\ op[r].job = "auth"
        BY <1>7, <2>0, <3>2, StoreTypes DEF Mark
      <3>3. CASE ~Stale(r) /\ op[r].job = "quota"
        <4>1. PICK hints \in SUBSET Hints :
                 \E u \in CooldownUntil(now, hints) :
                    Changed(r, [disk EXCEPT !.acct[a].cooldown =
                                   Longest(disk.acct[a].cooldown, u)])
          BY <1>7, <3>3 DEF Mark
        <4> PICK until \in CooldownUntil(now, hints) :
               Changed(r, [disk EXCEPT !.acct[a].cooldown =
                              Longest(disk.acct[a].cooldown, until)])
          BY <4>1
        <4>2. until \in Nat
          BY <4>1, PoolAssumption DEF CooldownUntil
        <4>3. [disk EXCEPT !.acct[a].cooldown =
                       Longest(disk.acct[a].cooldown, until)] \in Store
          <5>1. disk.acct[a].cooldown \in Nat
            BY <2>0, AccountTypes DEF Account
          <5>2. Longest(disk.acct[a].cooldown, until) \in Nat
            BY <4>2, <5>1 DEF Longest
          <5> QED BY <2>0, <5>2, AccountTypes
        <4> QED BY <4>1, <4>3
      <3> QED BY <1>7, <3>1, <3>2, <3>3 DEF Mark
    <2> QED BY <1>0, <1>7, <2>1 DEF Mark
  <1>8. CASE UnlockMarked(r)
    <2>1. CASE End(r)
      BY <1>0, <1>8, <2>1, EndTypes DEF UnlockMarked
    <2>2. CASE /\ req' = [req EXCEPT ![r].buffered = HeldForNext(r)]
               /\ op' = [op EXCEPT ![r] = NoOp] /\ Goto(r, "loop")
      BY <1>0, <1>8, <2>2, LocalTypes DEF UnlockMarked, HeldForNext, Loop
    <2> QED BY <1>8, <2>1, <2>2 DEF UnlockMarked
  <1>9. CASE Event(r)
    <2>1. op[r].id \in Ids
      BY <1>0, <1>9 DEF Event, HoldsAccount
    <2>2. delivered' \in [Requests -> SUBSET Ids]
      BY <1>9, <2>1 DEF Event, Deliver
    <2>3. req' \in [Clients -> Loop]
      <3>1. req[r] \in Loop /\ req[r].buffered \cup {op[r].id} \in SUBSET Ids
        BY <1>0, <2>1 DEF Loop
      <3>2. [req[r] EXCEPT !.buffered = req[r].buffered \cup {op[r].id}] \in Loop
        BY <3>1, LoopTypes
      <3> QED BY <1>0, <1>9, <3>2 DEF Event
    <2> QED BY <1>9, <2>2, <2>3 DEF Event
  <1>10. CASE Output(r)
    <2>1. op[r].id \in Ids /\ req[r].buffered \subseteq Ids
      BY <1>0, <1>10 DEF Output, HoldsAccount, Loop
    <2>2. delivered' \in [Requests -> SUBSET Ids]
      BY <1>10, <2>1 DEF Output, Deliver
    <2>3. req' \in [Clients -> Loop]
      <3>1. [req[r] EXCEPT !.committed = TRUE, !.buffered = {}] \in Loop
        BY <1>0, LoopTypes
      <3> QED BY <1>0, <1>10, <3>1 DEF Output
    <2> QED BY <1>10, <2>2, <2>3 DEF Output
  <1> QED BY <1>1, <1>2, <1>3, <1>4, <1>5, <1>6, <1>7, <1>8, <1>9, <1>10
          DEF StreamEnd

LEMMA TypeCommand ==
  ASSUME NEW a \in Commands, TypeOK, PendingOK,
         \/ Command(a)
         \/ \E id \in Ids : Login(a, id)
         \/ \E id \in Ids, action \in {"switch", "remove"} : Manage(a, id, action)
  PROVE  TypeOK'
  <1> USE DEF TypeOK, At, Goto, Return, Changed, Points, worldVars, auditVars,
              storeVars
  <1>0. a \in Clients
    BY DEF Clients
  <1>1. CASE Update(a)
    BY <1>0, <1>1, TypeUpdate
  <1>2. ASSUME NEW id \in Ids, Login(a, id) PROVE TypeOK'
    <2>1. issued[id] + 1 \in Toks
      BY <1>2, IdsFinite DEF Login, Toks
    <2>2. op' \in [Clients -> Op]
      BY <1>0, <1>2, <2>1 DEF Login, Hold, Op, Jobs, Results
    <2> QED BY <1>0, <1>2, <2>1, <2>2 DEF Login
  <1>3. ASSUME NEW id \in Ids, NEW action \in {"switch", "remove"},
               Manage(a, id, action)
        PROVE  TypeOK'
    <2>1. op' \in [Clients -> Op]
      BY <1>0, <1>3, IdsFinite DEF Manage, Hold, Op, Jobs, Results, Toks
    <2> QED BY <1>0, <1>3, <2>1 DEF Manage
  <1>4. CASE Add(a)
    <2> DEFINE id == op[a].id
               entry == [tok |-> op[a].tok, rank |-> Position(id),
                         cooldown |-> 0, needsLogin |-> FALSE]
               d == [acct |-> [disk.acct EXCEPT ![id] = entry],
                     preferred |-> IF disk.preferred = None THEN id
                                   ELSE disk.preferred]
    <2>1. id \in Ids /\ op[a].tok \in Toks
      BY <1>0, <1>4 DEF Add, PendingOK, Pending, Op
    <2>2. Position(id) \in 0 .. Cardinality(Ids)
      <3>1. CASE id \in Linked(disk)
        BY <2>1, <3>1 DEF Position, Store, Account
      <3>2. CASE id \notin Linked(disk)
        <4>1. Linked(disk) \subseteq Ids \ {id}
          BY <3>2 DEF Linked
        <4>2. /\ IsFiniteSet(Ids \ {id})
              /\ Cardinality(Ids \ {id}) = Cardinality(Ids) - 1
          <5> HIDE DEF id
          <5> QED BY <2>1, IdsFinite, FS_RemoveElement
        <4>3. /\ Cardinality(Linked(disk)) \in Nat
              /\ Cardinality(Linked(disk)) <= Cardinality(Ids) - 1
          BY <4>1, <4>2, FS_Subset, FS_CardinalityType
        <4> QED BY <3>2, <4>3, IdsFinite DEF Position
      <3> QED BY <3>1, <3>2
    <2>3. entry \in Account
      BY <2>1, <2>2 DEF Account
    <2>4. d \in Store
      BY <2>1, <2>3 DEF Store
    <2>5. mem' = [mem EXCEPT ![a] = d]
      BY <1>4 DEF Add
    <2> QED BY <1>0, <1>4, <2>4, <2>5 DEF Add
  <1>5. CASE Switch(a)
    <2>1. [disk EXCEPT !.preferred = op[a].id] \in Store
      BY <1>5 DEF Switch, Linked, Store
    <2> QED BY <1>0, <1>5, <2>1 DEF Switch
  <1>6. CASE Remove(a)
    <2>1. Without(disk.acct, op[a].id) \in [Ids -> Account]
      <3>1. Absent \in Account
        BY IdsFinite DEF Absent, Account, Toks
      <3>2. op[a].id \in Ids
        BY <1>6 DEF Remove, Linked
      <3>3. ASSUME NEW x \in Ids, disk.acct[x].rank > disk.acct[op[a].id].rank
            PROVE  [disk.acct[x] EXCEPT !.rank = @ - 1] \in Account
        <4>1. /\ disk.acct[x] \in Account
              /\ disk.acct[op[a].id] \in Account
          BY <3>2, AccountTypes
        <4>2. disk.acct[x].rank - 1 \in 0 .. Cardinality(Ids)
          BY <3>3, <4>1, IdsFinite DEF Account
        <4> QED BY <4>1, <4>2 DEF Account
      <3> QED BY <3>1, <3>3 DEF Without, Store
    <2>2. PICK heir \in Ids \cup {None} :
             Changed(a, [[disk EXCEPT !.acct = Without(disk.acct, op[a].id)]
                            EXCEPT !.preferred = heir])
      BY <1>6 DEF Remove
    <2>3. [[disk EXCEPT !.acct = Without(disk.acct, op[a].id)]
              EXCEPT !.preferred = heir] \in Store
      BY <2>1 DEF Store
    <2> QED BY <1>0, <1>6, <2>2, <2>3 DEF Remove
  <1>7. CASE NoMatch(a)
    BY <1>0, <1>7 DEF NoMatch, Op, Results
  <1>8. CASE UnlockManaged(a)
    <2>1. sticky' \in [Processes -> [Sessions -> Ids \cup {None}]]
      BY <1>8 DEF UnlockManaged
    <2> QED BY <1>0, <1>8, <2>1, EndTypes DEF UnlockManaged
  <1> QED BY <1>1, <1>2, <1>3, <1>4, <1>5, <1>6, <1>7, <1>8 DEF Command

LEMMA TypeEnvironment ==
  ASSUME TypeOK, Environment \/ UNCHANGED vars
  PROVE  TypeOK'
  <1> USE DEF TypeOK, worldVars, auditVars, storeVars
  <1>1. CASE Tick
    BY <1>1 DEF Tick
  <1>2. ASSUME NEW p \in Processes, Crash(p) PROVE TypeOK'
    <2>1. pc' \in [Clients -> Points]
      BY <1>2 DEF Crash, Points
    <2>2. op' \in [Clients -> Op]
      BY <1>2, LocalTypes DEF Crash
    <2>3. req' \in [Clients -> Loop]
      BY <1>2, LocalTypes DEF Crash
    <2>4. mem' \in [Clients -> Store]
      BY <1>2, StoreTypes DEF Crash
    <2>5. sticky' \in [Processes -> [Sessions -> Ids \cup {None}]]
      BY <1>2 DEF Crash
    <2> QED BY <1>2, <2>1, <2>2, <2>3, <2>4, <2>5 DEF Crash
  <1>3. ASSUME NEW p \in Processes, Restart(p) PROVE TypeOK'
    BY <1>3 DEF Restart
  <1>4. CASE RemoveAbandonedLock
    BY <1>4 DEF RemoveAbandonedLock
  <1>5. CASE UNCHANGED vars
    BY <1>5 DEF vars
  <1> QED BY <1>1, <1>2, <1>3, <1>4, <1>5 DEF Environment

-----------------------------------------------------------------------------
(* What a step does to the credentials.  Most steps either leave the file,  *)
(* the copies, the issued and the spent tokens alone, or give their client a *)
(* copy whose accounts are those of the file, at most fenced or removed.     *)

OthersKeep(c) ==
    \A b \in Clients \ {c} :
        pc'[b] = pc[b] /\ op'[b] = op[b] /\ mem'[b] = mem[b]

HoldsIssued(c) ==
    op'[c].id \in Ids => op'[c].tok <= issued'[op'[c].id]

Quiet(c) ==
    /\ UNCHANGED <<disk, spends, issued>>
    /\ OthersKeep(c) /\ HoldsIssued(c)
    /\ mem'[c] \in {mem[c], NoStore}
    /\ pc'[c] \notin {"refreshing", "awaiting", "saving"}
    /\ Pending(c)' => Pending(c) /\ op'[c] = op[c]

Derived(d) ==
    \A id \in Ids :
        \/ d.acct[id].tok = 0
        \/ /\ d.acct[id].tok = disk.acct[id].tok
           /\ disk.acct[id].needsLogin => d.acct[id].needsLogin

Derives(c) ==
    /\ UNCHANGED <<disk, spends, issued>>
    /\ OthersKeep(c) /\ HoldsIssued(c)
    /\ Derived(mem'[c])
    /\ pc[c] \in Critical /\ pc'[c] = "saving"

Kinds(c) ==
    \/ Quiet(c) \/ Derives(c) \/ Save(c) \/ Add(c) \/ SendRefresh(c)
    \/ RefreshOk(c)
    \/ \E a \in Ids : SelectExpired(c, a) \/ Login(c, a)

\* The lock is taken when free, released by its owner, and otherwise kept.
LockMove(c) ==
    /\ ProcOf[c] \in alive /\ alive' = alive
    /\ \/ lock' = lock /\ (pc'[c] \in Critical => pc[c] \in Critical)
       \/ lock = None /\ lock' = c
       \/ lock' = None /\ pc[c] \in Critical /\ pc'[c] \notin Critical

HoldsMove(c) ==
    \/ pc'[c] = "streaming"
    \/ op'[c].res = "account"
    \/ op'[c].job \in {"quota", "auth"}
    => op'[c].id \in Ids

Moves(c) == Kinds(c) /\ OthersKeep(c) /\ LockMove(c) /\ HoldsMove(c)

LEMMA NoOpHolds == NoOp.id \notin Ids
  BY PoolAssumption DEF NoOp

LEMMA EndMoves ==
  ASSUME NEW c \in Clients, TypeOK, End(c)
  PROVE  /\ HoldsIssued(c) /\ HoldsMove(c) /\ pc'[c] = "done"
         /\ op'[c] = NoOp
         /\ \A b \in Clients \ {c} : pc'[b] = pc[b] /\ op'[b] = op[b]
  BY NoOpHolds DEF TypeOK, End, Goto, HoldsIssued, HoldsMove, NoOp

LEMMA UpdateMoves ==
  ASSUME NEW c \in Clients, IInv, Update(c)
  PROVE  Moves(c)
  <1> USE DEF IInv, TypeOK, At, Goto, Return, worldVars, auditVars, storeVars,
              Moves, Kinds, Quiet, OthersKeep, LockMove, Critical, Pending
  <1>1. CASE Acquire(c)
    BY <1>1 DEF Acquire, MkdirSucceeds, HoldsIssued, HoldsMove, HoldsAccount,
                IssuedOK
  <1>2. CASE WaitFails(c)
    BY <1>2, EndMoves DEF WaitFails
  <1>3. CASE ReadFails(c)
    BY <1>3 DEF ReadFails, HoldsIssued, HoldsMove, HoldsAccount, IssuedOK, Op
  <1>4. CASE Save(c)
    BY <1>4 DEF Save, HoldsMove, HoldsAccount
  <1>5. CASE SaveFails(c)
    BY <1>5 DEF SaveFails, HoldsIssued, HoldsMove, HoldsAccount, IssuedOK, Op
  <1>6. CASE UnlockThrown(c)
    BY <1>6, EndMoves DEF UnlockThrown
  <1> QED BY <1>1, <1>2, <1>3, <1>4, <1>5, <1>6 DEF Update

\* The file itself, fenced or not, is derived from the file.
LEMMA FenceDerived ==
  ASSUME TypeOK, NEW a \in Ids
  PROVE  Derived(disk) /\ Derived(Fence(disk, a))
  BY DEF TypeOK, Derived, Fence, Store, Account

LEMMA SelectMoves ==
  ASSUME NEW r \in Requests, IInv, Select(r)
  PROVE  r \in Clients /\ Moves(r)
  <1> USE DEF IInv, TypeOK, At, Goto, Return, Changed, worldVars, auditVars,
              storeVars, Moves, Kinds, OthersKeep, LockMove, Critical
  <1>0. r \in Clients
    BY DEF Clients
  <1>a. \A a \in Ids : disk.acct[a].tok <= issued[a]
    BY DEF IssuedOK
  <1>1. CASE SelectNone(r)
    <2>1. Derives(r)
      BY <1>0, <1>1, FenceDerived DEF SelectNone, Selecting, Derives, Derived,
         HoldsIssued, IssuedOK
    <2> QED BY <1>0, <1>1, <2>1 DEF SelectNone, Selecting, HoldsMove, HoldsAccount
  <1>2. CASE UnlockRetry(r)
    BY <1>0, <1>2, NoOpHolds
       DEF UnlockRetry, Quiet, HoldsIssued, HoldsMove, Pending, NoOp
  <1>3. CASE UnlockUnselected(r)
    BY <1>0, <1>3, EndMoves DEF UnlockUnselected, Quiet, Pending
  <1>4. CASE StartStream(r)
    <2>1. op[r].id \in Ids
      BY <1>0, <1>4 DEF StartStream, HoldsAccount
    <2> QED BY <1>0, <1>4, <2>1
            DEF StartStream, Quiet, HoldsIssued, HoldsMove, IssuedOK, Pending
  <1>5. CASE SendRefresh(r)
    BY <1>0, <1>5 DEF SendRefresh, HoldsMove, HoldsAccount
  <1>6. CASE RefreshOk(r)
    <2>1. op[r].id \in Ids
      BY <1>0, <1>6 DEF RefreshOk, RefreshOK, Linked
    <2> QED BY <1>0, <1>6, <2>1 DEF RefreshOk, Hold, HoldsMove
  <1>7. CASE RefreshFails(r)
    <2>1. op[r].id \in Ids /\ mem[r] = disk
      BY <1>0, <1>7 DEF RefreshFails, RefreshOK, Linked
    <2>2. Derived(Fence(disk, op[r].id))
      BY <2>1, FenceDerived
    <2>3. Derives(r)
      BY <1>0, <1>7, <2>1, <2>2
         DEF RefreshFails, FailClosed, Derives, HoldsIssued, IssuedOK, Op
    <2>4. HoldsMove(r)
      BY <1>0, <1>7, <2>1 DEF RefreshFails, HoldsMove, Op
    <2> QED BY <1>0, <1>7, <2>3, <2>4 DEF RefreshFails
  <1>8. ASSUME NEW a \in Ids, SelectReady(r, a) PROVE Moves(r)
    <2>1. op'[r] = [job |-> "select", res |-> "account", id |-> a,
                    tok |-> disk.acct[a].tok]
      BY <1>0, <1>8 DEF SelectReady, Hold
    <2>2. Derives(r)
      BY <1>0, <1>a, <1>8, <2>1, FenceDerived
         DEF SelectReady, Take, Selecting, Hold, Derives, HoldsIssued
    <2> QED BY <1>0, <1>8, <2>1, <2>2
            DEF SelectReady, Take, Selecting, Hold, HoldsMove
  <1>9. ASSUME NEW a \in Ids, SelectExpired(r, a) PROVE Moves(r)
    <2>1. op'[r].id = a
      BY <1>0, <1>9 DEF SelectExpired, Hold
    <2> QED BY <1>0, <1>9, <2>1
            DEF SelectExpired, Take, Selecting, Hold, HoldsMove
  <1>10. ASSUME NEW a \in Ids, FenceFails(r, a) PROVE Moves(r)
    BY <1>0, <1>10
       DEF FenceFails, Take, Selecting, Quiet, HoldsIssued, HoldsMove,
           HoldsAccount, IssuedOK, Pending, Op
  <1> QED BY <1>0, <1>1, <1>2, <1>3, <1>4, <1>5, <1>6, <1>7, <1>8, <1>9, <1>10
          DEF Select

LEMMA StreamMoves ==
  ASSUME NEW r \in Requests, IInv,
         \/ Begin(r) \/ NextAttempt(r) \/ GiveUp(r) \/ StreamEnd(r) \/ Mark(r)
         \/ UnlockMarked(r) \/ Event(r) \/ Output(r)
  PROVE  r \in Clients /\ Moves(r)
  <1> USE DEF IInv, TypeOK, At, Goto, Changed, worldVars, auditVars,
              storeVars, Moves, Kinds, OthersKeep, LockMove, Critical
  <1>0. r \in Clients
    BY DEF Clients
  <1>1. CASE Begin(r)
    <2>1. CASE End(r)
      BY <1>0, <1>1, <2>1, EndMoves DEF Begin, Quiet, Pending
    <2>2. CASE Goto(r, "loop") /\ op' = op
      BY <1>0, <1>1, <2>2
         DEF Begin, Quiet, HoldsIssued, HoldsMove, HoldsAccount, IssuedOK, Pending
    <2> QED BY <1>1, <2>1, <2>2 DEF Begin
  <1>2. CASE NextAttempt(r)
    <2>1. op'[r].job = "select" /\ op'[r].id = op[r].id
          /\ op'[r].tok = op[r].tok /\ op'[r].res = op[r].res
      BY <1>0, <1>2 DEF NextAttempt, Op
    <2> QED BY <1>0, <1>2, <2>1
       DEF NextAttempt, Quiet, HoldsIssued, HoldsMove, HoldsAccount, IssuedOK,
           Pending
  <1>3. CASE GiveUp(r)
    BY <1>0, <1>3, EndMoves DEF GiveUp, Quiet, Pending
  <1>4. CASE Complete(r)
    BY <1>0, <1>4, EndMoves DEF Complete, Quiet, Pending
  <1>5. CASE StreamFails(r)
    BY <1>0, <1>5, EndMoves DEF StreamFails, Quiet, Pending
  <1>6. ASSUME NEW kind \in {"quota", "auth"}, Refused(r, kind) PROVE Moves(r)
    <2>1. op'[r] = [job |-> kind, res |-> "none", id |-> op[r].id,
                    tok |-> op[r].tok]
      BY <1>0, <1>6 DEF Refused, Hold
    <2>2. op[r].id \in Ids
      BY <1>0, <1>6 DEF Refused, HoldsAccount
    <2> QED BY <1>0, <1>6, <2>1, <2>2
            DEF Refused, Hold, Quiet, HoldsIssued, HoldsMove, IssuedOK, Pending
  <1>7. CASE Mark(r)
    <2> DEFINE a == op[r].id
    <2>0. a \in Ids
      BY <1>0, <1>7 DEF Mark, HoldsAccount
    <2>1. \E d : Derived(d) /\ Changed(r, d)
      <3>1. CASE Stale(r)
        BY <1>7, <2>0, <3>1, FenceDerived DEF Mark
      <3>2. CASE ~Stale(r) /\ op[r].job = "auth"
        BY <1>7, <2>0, <3>2, FenceDerived DEF Mark
      <3>3. CASE ~Stale(r) /\ op[r].job = "quota"
        <4>1. PICK until :
                 Changed(r, [disk EXCEPT !.acct[a].cooldown = until])
          BY <1>7, <3>3 DEF Mark
        <4>2. Derived([disk EXCEPT !.acct[a].cooldown = until])
          BY <2>0 DEF Derived, Store, Account
        <4> QED BY <4>1, <4>2
      <3> QED BY <1>7, <3>1, <3>2, <3>3 DEF Mark
    <2>2. Derives(r)
      BY <1>0, <1>7, <2>0, <2>1 DEF Mark, Derives, HoldsIssued, IssuedOK
    <2> QED BY <1>0, <1>7, <2>0, <2>2 DEF Mark, HoldsMove, HoldsAccount
  <1>8. CASE UnlockMarked(r)
    <2>1. CASE End(r)
      BY <1>0, <1>8, <2>1, EndMoves DEF UnlockMarked, Quiet, Pending
    <2>2. CASE op' = [op EXCEPT ![r] = NoOp] /\ Goto(r, "loop")
      BY <1>0, <1>8, <2>2, NoOpHolds
         DEF UnlockMarked, Quiet, HoldsIssued, HoldsMove, Pending, NoOp
    <2> QED BY <1>8, <2>1, <2>2 DEF UnlockMarked
  <1>9. CASE Event(r)
    BY <1>0, <1>9
       DEF Event, Quiet, HoldsIssued, HoldsMove, HoldsAccount, IssuedOK, Pending
  <1>10. CASE Output(r)
    BY <1>0, <1>10
       DEF Output, Quiet, HoldsIssued, HoldsMove, HoldsAccount, IssuedOK, Pending
  <1> QED BY <1>0, <1>1, <1>2, <1>3, <1>4, <1>5, <1>6, <1>7, <1>8, <1>9, <1>10
          DEF StreamEnd

LEMMA CommandMoves ==
  ASSUME NEW a \in Commands, IInv,
         \/ Command(a)
         \/ \E id \in Ids : Login(a, id)
         \/ \E id \in Ids, action \in {"switch", "remove"} : Manage(a, id, action)
  PROVE  a \in Clients /\ Moves(a)
  <1> USE DEF IInv, TypeOK, At, Goto, Return, Changed, worldVars, auditVars,
              storeVars, Moves, Kinds, OthersKeep, LockMove, Critical
  <1>0. a \in Clients
    BY DEF Clients
  <1>1. CASE Update(a)
    BY <1>0, <1>1, UpdateMoves
  <1>2. ASSUME NEW id \in Ids, Login(a, id) PROVE Moves(a)
    BY <1>0, <1>2 DEF Login, Hold, HoldsMove
  <1>3. ASSUME NEW id \in Ids, NEW action \in {"switch", "remove"},
               Manage(a, id, action)
        PROVE  Moves(a)
    <2>1. op'[a] = [job |-> action, res |-> "none", id |-> id, tok |-> 0]
      BY <1>0, <1>3 DEF Manage, Hold
    <2>2. 0 <= issued[id]
      BY DEF Toks
    <2>3. HoldsIssued(a)
      BY <1>3, <2>1, <2>2 DEF HoldsIssued, Manage
    <2> QED BY <1>0, <1>3, <2>1, <2>3 DEF Manage, Hold, Quiet, HoldsMove, Pending
  <1>4. CASE Add(a)
    BY <1>0, <1>4 DEF Add, HoldsMove, HoldsAccount
  <1>5. CASE Switch(a)
    <2>1. Derived([disk EXCEPT !.preferred = op[a].id])
      BY DEF Derived, Store
    <2>2. Derives(a)
      BY <1>0, <1>5, <2>1 DEF Switch, Derives, HoldsIssued, IssuedOK
    <2> QED BY <1>0, <1>5, <2>2 DEF Switch, HoldsMove, HoldsAccount
  <1>6. CASE Remove(a)
    <2>1. PICK heir \in Ids \cup {None} :
             Changed(a, [[disk EXCEPT !.acct = Without(disk.acct, op[a].id)]
                            EXCEPT !.preferred = heir])
      BY <1>6 DEF Remove
    <2>2. Derived([[disk EXCEPT !.acct = Without(disk.acct, op[a].id)]
                      EXCEPT !.preferred = heir])
      BY DEF Derived, Without, Absent, Store, Account
    <2>3. Derives(a)
      BY <1>0, <1>6, <2>1, <2>2 DEF Remove, Derives, HoldsIssued, IssuedOK
    <2> QED BY <1>0, <1>6, <2>1, <2>3 DEF Remove, HoldsMove, HoldsAccount
  <1>7. CASE NoMatch(a)
    BY <1>0, <1>7
       DEF NoMatch, Quiet, HoldsIssued, HoldsMove, HoldsAccount, IssuedOK,
           Pending, Op
  <1>8. CASE UnlockManaged(a)
    BY <1>0, <1>8, EndMoves DEF UnlockManaged, Quiet, Pending
  <1> QED BY <1>0, <1>1, <1>2, <1>3, <1>4, <1>5, <1>6, <1>7, <1>8 DEF Command

-----------------------------------------------------------------------------
(* Each part of the invariant survives a move of one client.                *)

LEMMA LockKept ==
  ASSUME NEW c \in Clients, IInv, Moves(c)
  PROVE  LockExclusion' /\ RunsAlive' /\ HoldsAccount'
  <1>1. None \notin Clients
    BY PoolAssumption DEF Clients
  <1>2. LockExclusion'
    BY <1>1 DEF IInv, LockExclusion, Moves, LockMove, OthersKeep
  <1>3. RunsAlive'
    BY DEF IInv, RunsAlive, Moves, LockMove, OthersKeep
  <1>4. HoldsAccount'
    BY DEF IInv, HoldsAccount, Moves, HoldsMove, OthersKeep
  <1> QED BY <1>2, <1>3, <1>4

\* Two clients are never both inside the lock.
LEMMA Alone ==
  ASSUME IInv, NEW b \in Clients, NEW c \in Clients,
         pc[b] \in Critical, pc[c] \in Critical
  PROVE  b = c
  BY DEF IInv, LockExclusion

\* A token that a refresh is about to send is an issued one.
LEMMA Refreshing ==
  ASSUME IInv, NEW c \in Clients, pc[c] \in {"refreshing", "awaiting"}
  PROVE  /\ op[c].id \in Ids /\ op[c].tok \in Toks \ {0}
         /\ op[c].tok <= issued[op[c].id]
         /\ mem[c] = disk /\ disk.acct[op[c].id].tok = op[c].tok
         /\ disk.acct[op[c].id].needsLogin
         /\ op[c].id \in Linked(disk)
  BY DEF IInv, TypeOK, RefreshOK, IssuedOK, Linked, Op

\* What RefreshOk does, spelled out.
LEMMA RefreshedFacts ==
  ASSUME IInv, NEW c \in Clients, RefreshOk(c)
  PROVE  LET a == op[c].id
             t == issued[a] + 1
         IN  /\ a \in Ids /\ t \in Toks
             /\ issued' = [issued EXCEPT ![a] = t]
             /\ op'[c].job = "select" /\ op'[c].id = a /\ op'[c].tok = t
             /\ mem'[c].acct[a].tok = t
             /\ \A id \in Ids \ {a} : mem'[c].acct[id] = disk.acct[id]
             /\ spends[a][t] = 0
             /\ pc[c] = "awaiting" /\ pc'[c] = "saving"
             /\ UNCHANGED <<disk, spends>>
             /\ OthersKeep(c)
  <1> DEFINE a == op[c].id
             t == issued[a] + 1
  <1> USE DEF RefreshOk, At, Goto, Changed, Hold, IInv, TypeOK, auditVars
  <1>1. a \in Ids /\ mem[c] = disk
    BY Refreshing
  <1>2. t \in Toks /\ issued[a] \in Nat
    BY <1>1, IdsFinite DEF Toks
  <1>3. spends[a][t] = 0
    BY <1>1, <1>2 DEF IssuedOK
  <1>4. /\ mem'[c] = Renewed(disk, a, t)
        /\ op'[c] = [job |-> "select", res |-> "account", id |-> a, tok |-> t]
        /\ OthersKeep(c)
    BY <1>1 DEF OthersKeep
  <1>6. op'[c].job = "select" /\ op'[c].id = a /\ op'[c].tok = t
    BY <1>4
  <1>5. /\ mem'[c].acct[a].tok = t
        /\ \A id \in Ids \ {a} : mem'[c].acct[id] = disk.acct[id]
    BY <1>1, <1>4 DEF Renewed, Store, Account
  <1> QED BY <1>1, <1>2, <1>3, <1>4, <1>5, <1>6

\* What Add does, spelled out.
LEMMA AddFacts ==
  ASSUME IInv, NEW c \in Clients, Add(c)
  PROVE  LET a == op[c].id
         IN  /\ a \in Ids /\ Pending(c)
             /\ mem'[c].acct[a].tok = op[c].tok
             /\ \A id \in Ids \ {a} : mem'[c].acct[id] = disk.acct[id]
             /\ pc[c] \in Critical /\ pc'[c] = "saving"
             /\ UNCHANGED <<disk, spends, issued, op>>
             /\ OthersKeep(c)
  BY DEF IInv, TypeOK, Add, At, Changed, Goto, Pending, PendingOK, OthersKeep,
         auditVars, worldVars, Critical, Store

\* What SelectExpired does, spelled out.
LEMMA ExpiredFacts ==
  ASSUME IInv, NEW c \in Clients, NEW a \in Ids, SelectExpired(c, a)
  PROVE  /\ disk' = Fence(disk, a) /\ mem'[c] = disk'
         /\ a \in Linked(disk)
         /\ op'[c].id = a /\ op'[c].tok = disk.acct[a].tok /\ op'[c].job = "select"
         /\ spends[a][disk.acct[a].tok] = 0
         /\ pc[c] \in Critical /\ pc'[c] = "refreshing"
         /\ UNCHANGED <<spends, issued>>
         /\ OthersKeep(c)
  <1>1. a \in Linked(disk) /\ ~disk.acct[a].needsLogin
    BY DEF SelectExpired, Take, Choice, Available
  <1>2. disk.acct[a].tok \in Toks
    BY DEF IInv, TypeOK, Store, Account
  <1>3. spends[a][disk.acct[a].tok] = 0
    BY <1>1, <1>2 DEF IInv, TypeOK, SpentNeverUsable
  <1>4. op'[c] = [job |-> "select", res |-> "none", id |-> a,
                  tok |-> disk.acct[a].tok]
    BY DEF IInv, TypeOK, SelectExpired, Hold
  <1> QED BY <1>1, <1>3, <1>4
          DEF IInv, TypeOK, SelectExpired, Take, Selecting, At, Hold, Goto,
              OthersKeep, worldVars, Critical

\* What Login does, spelled out.
LEMMA LoginFacts ==
  ASSUME IInv, NEW c \in Clients, NEW a \in Ids, Login(c, a)
  PROVE  LET t == issued[a] + 1
         IN  /\ t \in Toks /\ issued' = [issued EXCEPT ![a] = t]
             /\ op'[c].job = "add" /\ op'[c].id = a /\ op'[c].tok = t
             /\ spends[a][t] = 0
             /\ pc[c] = "idle" /\ pc'[c] = "want"
             /\ UNCHANGED <<disk, mem, spends>>
             /\ OthersKeep(c)
  <1>1. issued[a] + 1 \in Toks /\ issued[a] \in Nat
    BY IdsFinite DEF IInv, TypeOK, Login, Toks
  <1>2. spends[a][issued[a] + 1] = 0
    BY <1>1 DEF IInv, IssuedOK
  <1> QED BY <1>1, <1>2
          DEF IInv, TypeOK, Login, At, Hold, Goto, OthersKeep, storeVars, auditVars

\* The fenced copy of the file has the tokens of the file.
LEMMA FenceFacts ==
  ASSUME TypeOK, NEW a \in Ids
  PROVE  /\ \A id \in Ids : Fence(disk, a).acct[id].tok = disk.acct[id].tok
         /\ \A id \in Ids : disk.acct[id].needsLogin
                               => Fence(disk, a).acct[id].needsLogin
         /\ Fence(disk, a).acct[a].needsLogin
         /\ Linked(Fence(disk, a)) = Linked(disk)
  BY DEF TypeOK, Fence, Store, Account, Linked

\* What Save and SendRefresh do, spelled out.
LEMMA SaveFacts ==
  ASSUME IInv, NEW c \in Clients, Save(c)
  PROVE  /\ disk' = mem[c] /\ mem'[c] = NoStore
         /\ pc[c] = "saving" /\ pc'[c] = "unlocking"
         /\ UNCHANGED <<op, spends, issued>>
         /\ OthersKeep(c)
  BY DEF IInv, TypeOK, Save, At, Goto, OthersKeep, worldVars, auditVars

LEMMA SendFacts ==
  ASSUME IInv, NEW c \in Clients, SendRefresh(c)
  PROVE  /\ spends' = [spends EXCEPT ![op[c].id][op[c].tok] = 1]
         /\ spends[op[c].id][op[c].tok] = 0
         /\ op[c].id \in Ids /\ op[c].tok \in Toks
         /\ pc[c] = "refreshing" /\ pc'[c] = "awaiting"
         /\ UNCHANGED <<disk, mem, op, issued>>
         /\ OthersKeep(c)
  <1>1. pc[c] = "refreshing" /\ op[c].id \in Ids /\ op[c].tok \in Toks
    BY Refreshing DEF SendRefresh, At
  <1>2. spends[op[c].id][op[c].tok] = 0
    BY <1>1 DEF IInv, RefreshOK
  <1> QED BY <1>1, <1>2
          DEF IInv, TypeOK, SendRefresh, Goto, OthersKeep, storeVars, worldVars

\* NoStore holds no credential.
LEMMA NoStoreEmpty ==
    /\ \A id \in Ids : NoStore.acct[id].tok = 0
    /\ Linked(NoStore) = {}
  BY DEF NoStore, Absent, Linked

\* The types of the token arithmetic, and nothing else.
LEMMA Tokens ==
  ASSUME TypeOK
  PROVE  /\ Toks \subseteq Nat /\ 0 \in Toks
         /\ issued \in [Ids -> Toks]
         /\ spends \in [Ids -> [Toks -> Nat]]
         /\ \A id \in Ids : disk.acct[id].tok \in Toks
         /\ \A c \in Clients : op[c].tok \in Toks
         /\ \A id \in Ids, c \in Clients : mem[c].acct[id].tok \in Toks
  <1>1. Toks \subseteq Nat /\ 0 \in Toks
    BY IdsFinite DEF Toks
  <1>2. \A id \in Ids : disk.acct[id].tok \in Toks
    BY DEF TypeOK, Store, Account
  <1>3. \A id \in Ids, c \in Clients : mem[c].acct[id].tok \in Toks
    BY DEF TypeOK, Store, Account
  <1>4. \A c \in Clients : op[c].tok \in Toks
    BY DEF TypeOK, Op
  <1> QED BY <1>1, <1>2, <1>3, <1>4 DEF TypeOK

LEMMA SpentKept ==
  ASSUME NEW c \in Clients, IInv, Moves(c)
  PROVE  SpentNeverUsable' /\ NoDoubleSpend'
  <1>0. TypeOK /\ SpentNeverUsable /\ NoDoubleSpend
    BY DEF IInv
  <1>1. CASE UNCHANGED <<disk, spends>>
    BY <1>0, <1>1 DEF Linked, SpentNeverUsable, NoDoubleSpend
  <1>2. CASE Save(c)
    BY <1>0, <1>2, SaveFacts
       DEF IInv, SavingOK, Linked, SpentNeverUsable, NoDoubleSpend
  <1>3. CASE SendRefresh(c)
    <2> DEFINE a == op[c].id
               u == op[c].tok
    <2>1. /\ a \in Ids /\ u \in Toks /\ spends[a][u] = 0
          /\ spends' = [spends EXCEPT ![a][u] = 1]
          /\ disk' = disk /\ disk.acct[a].needsLogin
      BY <1>3, SendFacts, Refreshing
    <2>2. \A id \in Ids, t \in Toks :
             spends'[id][t] = IF id = a /\ t = u THEN 1 ELSE spends[id][t]
      BY <1>0, <2>1, Tokens
    <2>3. NoDoubleSpend'
      BY <1>0, <2>2 DEF NoDoubleSpend
    <2>4. SpentNeverUsable'
      BY <1>0, <2>1, <2>2, Tokens DEF SpentNeverUsable, Linked
    <2> QED BY <2>3, <2>4
  <1>4. ASSUME NEW a \in Ids, SelectExpired(c, a)
        PROVE  SpentNeverUsable' /\ NoDoubleSpend'
    BY <1>0, <1>4, ExpiredFacts, FenceFacts
       DEF Linked, SpentNeverUsable, NoDoubleSpend
  <1>5. CASE RefreshOk(c)
    BY <1>1, <1>5, RefreshedFacts
  <1>6. CASE Add(c)
    BY <1>1, <1>6, AddFacts
  <1>7. ASSUME NEW a \in Ids, Login(c, a)
        PROVE  SpentNeverUsable' /\ NoDoubleSpend'
    BY <1>1, <1>7, LoginFacts
  <1> QED BY <1>1, <1>2, <1>3, <1>4, <1>5, <1>6, <1>7
          DEF Moves, Kinds, Quiet, Derives

LEMMA IssuedKept ==
  ASSUME NEW c \in Clients, IInv, Moves(c)
  PROVE  IssuedOK'
  <1>0. TypeOK /\ IssuedOK
    BY DEF IInv
  \* Tokens are only ever added: what grows is one entry of issued.
  <1>a. ASSUME NEW a \in Ids, issued' = [issued EXCEPT ![a] = issued[a] + 1]
        PROVE  /\ \A id \in Ids : issued[id] \in Nat /\ issued'[id] \in Nat
               /\ \A id \in Ids : issued[id] <= issued'[id]
               /\ issued'[a] = issued[a] + 1
               /\ \A id \in Ids, t \in Toks :
                     t > issued'[id] => t > issued[id]
    BY <1>0, <1>a, Tokens
  <1>b. ASSUME NEW a \in Ids, issued' = [issued EXCEPT ![a] = issued[a] + 1],
               UNCHANGED <<disk, spends>>, OthersKeep(c),
               op'[c].id = a, op'[c].tok = issued[a] + 1,
               \A id \in Ids : mem'[c].acct[id].tok <= issued'[id]
        PROVE  IssuedOK'
    <2>0. issued' = [issued EXCEPT ![a] = issued[a] + 1]
      BY <1>b
    <2>a. /\ \A id \in Ids : issued[id] \in Nat /\ issued'[id] \in Nat
          /\ \A id \in Ids : issued[id] <= issued'[id]
          /\ issued'[a] = issued[a] + 1
      BY <1>a, <2>0
    <2>1. \A id \in Ids, n \in Nat : n <= issued[id] => n <= issued'[id]
      BY <2>a
    <2>2. \A id \in Ids : disk'.acct[id].tok <= issued'[id]
      BY <1>0, <1>b, <2>1, Tokens DEF IssuedOK
    <2>3. \A id \in Ids, b \in Clients : mem'[b].acct[id].tok <= issued'[id]
      BY <1>0, <1>b, <2>1, Tokens DEF OthersKeep, IssuedOK
    <2>4. \A id \in Ids, t \in Toks : t > issued'[id] => spends'[id][t] = 0
      BY <1>0, <1>a, <1>b DEF IssuedOK
    <2>5. \A b \in Clients \ {c} : op'[b].id \in Ids =>
             op'[b].tok <= issued'[op'[b].id]
      BY <1>0, <1>b, <2>1, Tokens DEF OthersKeep, IssuedOK
    <2>6. op'[c].tok <= issued'[op'[c].id]
      BY <1>b, <2>a
    <2> QED BY <2>2, <2>3, <2>4, <2>5, <2>6 DEF IssuedOK
  <1>1. CASE Quiet(c)
    <2>1. /\ UNCHANGED <<disk, spends, issued>>
          /\ OthersKeep(c) /\ HoldsIssued(c) /\ mem'[c] \in {mem[c], NoStore}
      BY <1>1 DEF Quiet
    <2>2. \A id \in Ids, b \in Clients : mem'[b].acct[id].tok <= issued'[id]
      <3>1. \A id \in Ids : 0 <= issued[id]
        BY <1>0, Tokens
      <3> QED BY <1>0, <2>1, <3>1, NoStoreEmpty DEF OthersKeep, IssuedOK
    <2>3. \A b \in Clients : op'[b].id \in Ids =>
             op'[b].tok <= issued'[op'[b].id]
      BY <1>0, <2>1 DEF OthersKeep, HoldsIssued, IssuedOK
    <2> QED BY <1>0, <2>1, <2>2, <2>3 DEF IssuedOK
  <1>2. CASE Derives(c)
    BY <1>0, <1>2, Tokens
       DEF Derives, Derived, OthersKeep, HoldsIssued, IssuedOK
  <1>3. CASE Save(c)
    BY <1>0, <1>3, SaveFacts, NoStoreEmpty, Tokens DEF OthersKeep, IssuedOK
  <1>4. CASE Add(c)
    BY <1>0, <1>4, AddFacts DEF OthersKeep, IssuedOK
  <1>5. CASE SendRefresh(c)
    <2> DEFINE a == op[c].id
               u == op[c].tok
    <2>1. /\ a \in Ids /\ u \in Toks /\ u <= issued[a]
          /\ spends' = [spends EXCEPT ![a][u] = 1]
          /\ UNCHANGED <<disk, mem, op, issued>>
      BY <1>5, SendFacts, Refreshing
    <2>2. \A id \in Ids, t \in Toks :
             spends'[id][t] = IF id = a /\ t = u THEN 1 ELSE spends[id][t]
      BY <1>0, <2>1, Tokens
    <2>3. \A t \in Toks : t > issued[a] => t # u
      BY <1>0, <2>1, Tokens
    <2> QED BY <1>0, <2>1, <2>2, <2>3 DEF IssuedOK
  <1>6. CASE RefreshOk(c)
    <2> DEFINE a == op[c].id
    <2>1. /\ a \in Ids /\ issued' = [issued EXCEPT ![a] = issued[a] + 1]
          /\ op'[c].id = a /\ op'[c].tok = issued[a] + 1
          /\ mem'[c].acct[a].tok = issued[a] + 1
          /\ \A id \in Ids \ {a} : mem'[c].acct[id] = disk.acct[id]
          /\ UNCHANGED <<disk, spends>>
          /\ OthersKeep(c)
      <3> USE <1>6, RefreshedFacts
      <3>1. a \in Ids /\ issued' = [issued EXCEPT ![a] = issued[a] + 1]
        OBVIOUS
      <3>2. op'[c].id = a /\ op'[c].tok = issued[a] + 1
        OBVIOUS
      <3>3. /\ mem'[c].acct[a].tok = issued[a] + 1
            /\ \A id \in Ids \ {a} : mem'[c].acct[id] = disk.acct[id]
        OBVIOUS
      <3>4. UNCHANGED <<disk, spends>> /\ OthersKeep(c)
        OBVIOUS
      <3> QED BY <3>1, <3>2, <3>3, <3>4
    <2> HIDE DEF a
    <2>2. \A id \in Ids : mem'[c].acct[id].tok <= issued'[id]
      BY <1>0, <1>a, <2>1, Tokens DEF IssuedOK
    <2> QED BY <1>b, <2>1, <2>2
  <1>7. ASSUME NEW a \in Ids, SelectExpired(c, a) PROVE IssuedOK'
    BY <1>0, <1>7, ExpiredFacts, FenceFacts DEF OthersKeep, IssuedOK
  <1>8. ASSUME NEW a \in Ids, Login(c, a) PROVE IssuedOK'
    <2>1. /\ issued' = [issued EXCEPT ![a] = issued[a] + 1]
          /\ op'[c].id = a /\ op'[c].tok = issued[a] + 1
          /\ UNCHANGED <<disk, mem, spends>>
          /\ OthersKeep(c)
      BY <1>8, LoginFacts
    <2>2. \A id \in Ids : mem'[c].acct[id].tok <= issued'[id]
      BY <1>0, <1>a, <2>1, Tokens DEF IssuedOK
    <2> QED BY <1>b, <2>1, <2>2
  <1> QED BY <1>1, <1>2, <1>3, <1>4, <1>5, <1>6, <1>7, <1>8 DEF Moves, Kinds

LEMMA RefreshKept ==
  ASSUME NEW c \in Clients, IInv, Moves(c)
  PROVE  RefreshOK'
  <1> SUFFICES ASSUME NEW b \in Clients, pc'[b] \in {"refreshing", "awaiting"}
               PROVE  /\ mem'[b] = disk'
                      /\ op'[b].id \in Linked(disk')
                      /\ disk'.acct[op'[b].id].tok = op'[b].tok
                      /\ disk'.acct[op'[b].id].needsLogin
                      /\ pc'[b] = "refreshing" =>
                            spends'[op'[b].id][op'[b].tok] = 0
    BY DEF RefreshOK, Linked
  <1>1. CASE b # c
    <2>1. /\ pc[b] = pc'[b] /\ op[b] = op'[b] /\ mem[b] = mem'[b]
          /\ pc[b] \in Critical
      BY <1>1 DEF Moves, OthersKeep, Critical
    <2>2. pc[c] \notin Critical
      BY <1>1, <2>1, Alone
    <2>3. disk' = disk /\ spends' = spends
      <3>1. CASE Quiet(c) \/ Derives(c)
        BY <3>1 DEF Quiet, Derives
      <3>2. ~Save(c) /\ ~SendRefresh(c) /\ ~RefreshOk(c) /\ ~Add(c)
        BY <2>2, SaveFacts, SendFacts, RefreshedFacts, AddFacts DEF Critical
      <3>3. \A a \in Ids : ~SelectExpired(c, a)
        BY <2>2, ExpiredFacts
      <3>4. ASSUME NEW a \in Ids, Login(c, a) PROVE disk' = disk /\ spends' = spends
        BY <3>4, LoginFacts
      <3> QED BY <3>1, <3>2, <3>3, <3>4 DEF Moves, Kinds
    <2> QED BY <2>1, <2>3 DEF IInv, RefreshOK, Linked
  <1>2. CASE b = c
    <2>1. ~Quiet(c) /\ ~Derives(c)
      BY <1>2 DEF Quiet, Derives
    <2>2. ~Save(c) /\ ~RefreshOk(c) /\ ~Add(c)
      BY <1>2, SaveFacts, RefreshedFacts, AddFacts
    <2>3. \A a \in Ids : ~Login(c, a)
      BY <1>2, LoginFacts
    <2>4. CASE SendRefresh(c)
      BY <1>2, <2>4, SendFacts, Refreshing
    <2>5. ASSUME NEW a \in Ids, SelectExpired(c, a)
          PROVE  /\ mem'[c] = disk'
                 /\ op'[c].id \in Linked(disk')
                 /\ disk'.acct[op'[c].id].tok = op'[c].tok
                 /\ disk'.acct[op'[c].id].needsLogin
                 /\ spends'[op'[c].id][op'[c].tok] = 0
      BY <2>5, ExpiredFacts, FenceFacts DEF IInv
    <2> QED BY <1>2, <2>1, <2>2, <2>3, <2>4, <2>5 DEF Moves, Kinds
  <1> QED BY <1>1, <1>2

LEMMA SavingKept ==
  ASSUME NEW c \in Clients, IInv, Moves(c)
  PROVE  SavingOK'
  <1> SUFFICES ASSUME NEW b \in Clients, NEW id \in Linked(mem'[b]),
                      pc'[b] = "saving",
                      spends'[id][mem'[b].acct[id].tok] > 0
               PROVE  mem'[b].acct[id].needsLogin
    BY DEF SavingOK, Linked
  <1>0. id \in Ids /\ mem'[b].acct[id].tok # 0
    BY DEF Linked
  <1>1. CASE b # c
    <2>1. pc[b] = pc'[b] /\ mem[b] = mem'[b] /\ pc[b] \in Critical
      BY <1>1 DEF Moves, OthersKeep, Critical
    <2>2. pc[c] \notin Critical
      BY <1>1, <2>1, Alone
    <2>3. spends' = spends
      <3>1. ~SendRefresh(c)
        BY <2>2, SendFacts DEF Critical
      <3> QED BY <3>1, SaveFacts, RefreshedFacts, AddFacts, ExpiredFacts,
                 LoginFacts
              DEF Moves, Kinds, Quiet, Derives
    <2> QED BY <1>0, <2>1, <2>3 DEF IInv, SavingOK, Linked
  <1>2. CASE b = c
    <2>1. ~Quiet(c)
      BY <1>2 DEF Quiet
    <2>2. ~Save(c) /\ ~SendRefresh(c)
      BY <1>2, SaveFacts, SendFacts
    <2>3. \A a \in Ids : ~Login(c, a) /\ ~SelectExpired(c, a)
      BY <1>2, LoginFacts, ExpiredFacts
    <2>4. CASE Derives(c)
      BY <1>0, <1>2, <2>4 DEF Derives, Derived, IInv, SpentNeverUsable, Linked
    <2>5. CASE RefreshOk(c)
      <3> DEFINE a == op[c].id
      <3>1. /\ a \in Ids /\ mem'[c].acct[a].tok = issued[a] + 1
            /\ spends[a][issued[a] + 1] = 0 /\ spends' = spends
            /\ \A x \in Ids \ {a} : mem'[c].acct[x] = disk.acct[x]
        BY <2>5, RefreshedFacts
      <3>2. id # a
        BY <1>2, <3>1
      <3> QED BY <1>0, <1>2, <3>1, <3>2 DEF IInv, SpentNeverUsable, Linked
    <2>6. CASE Add(c)
      <3>1. spends[op[c].id][op[c].tok] = 0
        BY <2>6, AddFacts DEF IInv, PendingOK
      <3> QED BY <1>0, <1>2, <2>6, <3>1, AddFacts
              DEF IInv, SpentNeverUsable, Linked
    <2> QED BY <1>2, <2>1, <2>2, <2>3, <2>4, <2>5, <2>6 DEF Moves, Kinds
  <1> QED BY <1>1, <1>2

LEMMA PendingKept ==
  ASSUME NEW c \in Clients, IInv, Moves(c)
  PROVE  PendingOK'
  <1>0. TypeOK /\ PendingOK /\ IssuedOK
    BY DEF IInv
  <1> SUFFICES ASSUME NEW a \in Clients, Pending(a)'
               PROVE  /\ op'[a].id \in Ids /\ op'[a].tok # 0
                      /\ spends'[op'[a].id][op'[a].tok] = 0
                      /\ disk'.acct[op'[a].id].tok # op'[a].tok
                      /\ \A b \in Clients :
                            mem'[b].acct[op'[a].id].tok # op'[a].tok
                      /\ \A b \in Clients \ {a} :
                            Pending(b)' /\ op'[b].id = op'[a].id
                               => op'[b].tok # op'[a].tok
    BY DEF PendingOK, Pending
  \* Which logins are pending changes by Login only.
  <1>1. CASE \E i \in Ids : Login(c, i)
    <2> PICK i \in Ids : Login(c, i)
      BY <1>1
    <2>1. /\ op'[c].id = i /\ op'[c].tok = issued[i] + 1
          /\ spends[i][issued[i] + 1] = 0
          /\ UNCHANGED <<disk, mem, spends>> /\ OthersKeep(c)
      BY LoginFacts
    <2>2. /\ \A id \in Ids : issued[id] \in Nat
          /\ \A id \in Ids : disk.acct[id].tok \in Nat
          /\ \A b \in Clients : op[b].tok \in Nat
          /\ \A id \in Ids, b \in Clients : mem[b].acct[id].tok \in Nat
      BY <1>0, Tokens
    <2>3. \A b \in Clients \ {c} : op'[b] = op[b] /\ (Pending(b)' => Pending(b))
      BY <2>1 DEF OthersKeep, Pending
    <2>4. CASE a = c
      <3>1. \A b \in Clients : mem[b].acct[i].tok # issued[i] + 1
        BY <1>0, <2>2 DEF IssuedOK
      <3>2. disk.acct[i].tok # issued[i] + 1
        BY <1>0, <2>2 DEF IssuedOK
      <3>3. \A b \in Clients \ {c} : op[b].id = i => op[b].tok # issued[i] + 1
        BY <1>0, <2>2 DEF IssuedOK
      <3> QED BY <2>1, <2>2, <2>3, <2>4, <3>1, <3>2, <3>3
    <2>5. CASE a # c
      <3>1. Pending(a) /\ op'[a] = op[a]
        BY <2>3, <2>5
      <3>2. op[a].id = i => op[a].tok # issued[i] + 1
        BY <1>0, <2>2, <3>1 DEF IssuedOK
      <3> QED BY <1>0, <2>1, <2>3, <2>5, <3>1, <3>2 DEF PendingOK
    <2> QED BY <2>4, <2>5
  <1>2. CASE \A i \in Ids : ~Login(c, i)
    <2>1. \A b \in Clients : Pending(b)' => Pending(b) /\ op'[b] = op[b]
      <3>1. \A b \in Clients \ {c} : Pending(b)' => Pending(b) /\ op'[b] = op[b]
        BY DEF Moves, OthersKeep, Pending
      <3>2. Pending(c)' => Pending(c) /\ op'[c] = op[c]
        BY <1>2, SaveFacts, SendFacts, RefreshedFacts, AddFacts, ExpiredFacts
           DEF Moves, Kinds, Quiet, Derives, Pending
      <3> QED BY <3>1, <3>2
    <2> DEFINE id == op[a].id
               t == op[a].tok
    <2>2. /\ Pending(a) /\ op'[a] = op[a] /\ id \in Ids /\ t # 0
          /\ spends[id][t] = 0
          /\ disk.acct[id].tok # t
          /\ \A b \in Clients : mem[b].acct[id].tok # t
          /\ \A b \in Clients \ {a} :
                Pending(b) /\ op[b].id = id => op[b].tok # t
      BY <1>0, <2>1 DEF PendingOK
    <2>3. spends'[id][t] = 0 /\ disk'.acct[id].tok # t
          /\ \A b \in Clients : mem'[b].acct[id].tok # t
      <3> HIDE DEF id, t
      <3>1. CASE Quiet(c)
        BY <2>2, <3>1, NoStoreEmpty DEF Quiet, OthersKeep
      <3>2. CASE Derives(c)
        BY <2>2, <3>2 DEF Derives, Derived, OthersKeep
      <3>3. CASE Save(c)
        BY <2>2, <3>3, SaveFacts, NoStoreEmpty DEF OthersKeep
      <3>4. CASE Add(c)
        <4>1. /\ op[c].id \in Ids /\ Pending(c)
              /\ mem'[c].acct[op[c].id].tok = op[c].tok
              /\ \A x \in Ids \ {op[c].id} : mem'[c].acct[x] = disk.acct[x]
              /\ pc'[c] = "saving"
              /\ UNCHANGED <<disk, spends>> /\ OthersKeep(c)
          BY <3>4, AddFacts
        <4>2. a # c
          BY <4>1 DEF Pending
        <4>3. op[c].id = id => op[c].tok # t
          BY <2>2, <4>1, <4>2
        <4> QED BY <2>2, <4>1, <4>2, <4>3 DEF OthersKeep
      <3>5. CASE SendRefresh(c)
        <4>1. /\ disk.acct[op[c].id].tok = op[c].tok
              /\ spends' = [spends EXCEPT ![op[c].id][op[c].tok] = 1]
              /\ op[c].id \in Ids /\ op[c].tok \in Toks
              /\ UNCHANGED <<disk, mem>>
          BY <3>5, SendFacts, Refreshing
        <4>2. ~(op[c].id = id /\ op[c].tok = t)
          BY <2>2, <4>1
        <4>3. t \in Toks
          BY <1>0, Tokens DEF t
        <4> QED BY <1>0, <2>2, <4>1, <4>2, <4>3, Tokens
      <3>6. CASE RefreshOk(c)
        <4>1. /\ op[c].id \in Ids
              /\ mem'[c].acct[op[c].id].tok = issued[op[c].id] + 1
              /\ \A x \in Ids \ {op[c].id} : mem'[c].acct[x] = disk.acct[x]
              /\ UNCHANGED <<disk, spends>> /\ OthersKeep(c)
          BY <3>6, RefreshedFacts
        <4>2. t \in Nat /\ issued[id] \in Nat /\ t <= issued[id]
          BY <1>0, <2>2, Tokens DEF IssuedOK, id, t
        <4>3. op[c].id = id => issued[op[c].id] + 1 # t
          BY <4>2
        <4> QED BY <2>2, <4>1, <4>3 DEF OthersKeep
      <3>7. ASSUME NEW i \in Ids, SelectExpired(c, i)
            PROVE  spends'[id][t] = 0 /\ disk'.acct[id].tok # t
                   /\ \A b \in Clients : mem'[b].acct[id].tok # t
        BY <1>0, <2>2, <3>7, ExpiredFacts, FenceFacts DEF OthersKeep
      <3> QED BY <1>2, <3>1, <3>2, <3>3, <3>4, <3>5, <3>6, <3>7 DEF Moves, Kinds
    <2> QED BY <2>1, <2>2, <2>3
  <1> QED BY <1>1, <1>2

-----------------------------------------------------------------------------
(* The theorems.                                                            *)

LEMMA InitInvariant == Init => IInv
  <1> SUFFICES ASSUME Init PROVE IInv
    OBVIOUS
  <1> USE DEF Init
  <1>1. \A c \in Clients : pc[c] = "idle" /\ op[c] = NoOp /\ mem[c] = NoStore
    OBVIOUS
  <1>2. TypeOK
    BY InitStoreAssumption, PoolAssumption, StoreTypes, LocalTypes
       DEF TypeOK, Points, Store, Account, Locked, Linked
  <1>3. LockExclusion /\ RunsAlive /\ RefreshOK /\ SavingOK /\ PendingOK
    BY <1>1 DEF LockExclusion, RunsAlive, RefreshOK, SavingOK, PendingOK,
                Pending, Critical, NoOp
  <1>4. SpentNeverUsable /\ NoDoubleSpend
    BY <1>2, Tokens DEF SpentNeverUsable, NoDoubleSpend, Linked
  <1>5. IssuedOK
    <2>1. \A id \in Ids : disk.acct[id].tok <= issued[id] /\ 0 <= issued[id]
      BY <1>2, Tokens
    <2> QED BY <1>1, <2>1, NoStoreEmpty, NoOpHolds DEF IssuedOK
  <1>6. HoldsAccount
    BY <1>1 DEF HoldsAccount, NoOp
  <1> QED BY <1>2, <1>3, <1>4, <1>5, <1>6 DEF IInv

\* The clock, crashes, restarts and the manual recovery keep the invariant.
LEMMA EnvironmentKeeps ==
  ASSUME IInv, Environment \/ UNCHANGED vars
  PROVE  IInv'
  <1>0. TypeOK'
    BY TypeEnvironment DEF IInv
  <1>1. CASE UNCHANGED <<disk, lock, mem, alive, pc, op, issued, spends>>
    BY <1>0, <1>1
       DEF IInv, LockExclusion, RunsAlive, RefreshOK, SavingOK, PendingOK,
           Pending, SpentNeverUsable, NoDoubleSpend, IssuedOK, HoldsAccount, Linked
  <1>2. ASSUME NEW p \in Processes, Crash(p) PROVE IInv'
    <2>1. \A c \in Clients :
             \/ pc'[c] = pc[c] /\ op'[c] = op[c] /\ mem'[c] = mem[c]
             \/ pc'[c] = "dead" /\ op'[c] = NoOp /\ mem'[c] = NoStore
      BY <1>2 DEF Crash, IInv, TypeOK
    <2>2. UNCHANGED <<disk, lock, issued, spends>>
      BY <1>2 DEF Crash, worldVars, auditVars
    <2>3. RunsAlive'
      BY <1>2 DEF Crash, IInv, RunsAlive, TypeOK
    <2>4. LockExclusion' /\ HoldsAccount'
      BY <2>1, <2>2 DEF IInv, LockExclusion, HoldsAccount, Critical, NoOp
    <2>5. SpentNeverUsable' /\ NoDoubleSpend'
      BY <2>2 DEF IInv, SpentNeverUsable, NoDoubleSpend, Linked
    <2>6. IssuedOK'
      BY <2>1, <2>2, NoStoreEmpty, NoOpHolds, Tokens DEF IInv, IssuedOK
    <2>7. RefreshOK'
      BY <2>1, <2>2 DEF IInv, RefreshOK, Linked
    <2>8. SavingOK'
      BY <2>1, <2>2 DEF IInv, SavingOK, Linked
    <2>9. PendingOK'
      BY <2>1, <2>2, NoStoreEmpty DEF IInv, PendingOK, Pending
    <2> QED BY <1>0, <2>3, <2>4, <2>5, <2>6, <2>7, <2>8, <2>9 DEF IInv
  <1>3. ASSUME NEW p \in Processes, Restart(p) PROVE IInv'
    BY <1>0, <1>3
       DEF Restart, storeVars, worldVars, auditVars,
           IInv, LockExclusion, RunsAlive, RefreshOK, SavingOK, PendingOK,
           Pending, SpentNeverUsable, NoDoubleSpend, IssuedOK, HoldsAccount, Linked
  <1>4. CASE RemoveAbandonedLock
    <2>1. \A c \in Clients : pc[c] \notin Critical
      BY <1>4 DEF RemoveAbandonedLock, IInv, RunsAlive, Critical
    <2> QED BY <1>0, <1>4, <2>1
       DEF RemoveAbandonedLock, worldVars, auditVars,
           IInv, LockExclusion, RunsAlive, RefreshOK, SavingOK, PendingOK,
           Pending, SpentNeverUsable, NoDoubleSpend, IssuedOK, HoldsAccount, Linked
  <1>5. CASE Tick
    BY <1>1, <1>5 DEF Tick, storeVars, auditVars
  <1>6. CASE UNCHANGED vars
    BY <1>1, <1>6 DEF vars, storeVars, worldVars, auditVars
  <1> QED BY <1>2, <1>3, <1>4, <1>5, <1>6 DEF Environment

LEMMA StepInvariant == IInv /\ [Next]_vars => IInv'
  <1> SUFFICES ASSUME IInv, [Next]_vars PROVE IInv'
    OBVIOUS
  <1>0. TypeOK /\ HoldsAccount /\ RefreshOK /\ PendingOK
    BY DEF IInv
  <1>1. ASSUME NEW c \in Clients, Moves(c), TypeOK' PROVE IInv'
    BY <1>1, LockKept, SpentKept, IssuedKept, RefreshKept, SavingKept,
       PendingKept
       DEF IInv
  <1>2. ASSUME NEW r \in Requests,
               Begin(r) \/ Request(r) \/ Event(r) \/ Output(r)
        PROVE  IInv'
    <2>1. r \in Clients
      BY DEF Clients
    <2>2. CASE Update(r)
      BY <1>0, <1>1, <2>1, <2>2, TypeUpdate, UpdateMoves
    <2>3. CASE Select(r)
      BY <1>0, <1>1, <2>1, <2>3, TypeSelect, SelectMoves
    <2>4. CASE \/ Begin(r) \/ NextAttempt(r) \/ GiveUp(r) \/ StreamEnd(r)
               \/ Mark(r) \/ UnlockMarked(r) \/ Event(r) \/ Output(r)
      BY <1>0, <1>1, <2>1, <2>4, TypeStream, StreamMoves
    <2> QED BY <1>2, <2>2, <2>3, <2>4 DEF Request
  <1>3. ASSUME NEW a \in Commands,
               \/ Command(a)
               \/ \E id \in Ids : Login(a, id)
               \/ \E id \in Ids, action \in {"switch", "remove"} :
                     Manage(a, id, action)
        PROVE  IInv'
    BY <1>0, <1>1, <1>3, TypeCommand, CommandMoves
  <1>4. CASE Environment \/ UNCHANGED vars
    BY <1>4, EnvironmentKeeps
  <1> QED BY <1>2, <1>3, <1>4 DEF Next, Start

\* The inductive invariant holds in every reachable state.
THEOREM Inductive == Spec => []IInv
  BY InitInvariant, StepInvariant, PTL DEF Spec

\* Every variable keeps its type, for every pool and every set of clients.
THEOREM TypesHold == Spec => []TypeOK
  <1>1. IInv => TypeOK
    BY DEF IInv
  <1> QED BY <1>1, Inductive, PTL

\* store.ts update(): a client inside the lock owns the lock directory.
THEOREM LockExcludes == Spec => []LockExclusion
  <1>1. IInv => LockExclusion
    BY DEF IInv
  <1> QED BY <1>1, Inductive, PTL

\* provider.ts select(): a refresh token that was handed out is never usable
\* again from the file, whatever crashes, fails or interleaves.
THEOREM SpentIsFenced == Spec => []SpentNeverUsable
  <1>1. IInv => SpentNeverUsable
    BY DEF IInv
  <1> QED BY <1>1, Inductive, PTL

\* No refresh token is handed to the authorisation server twice.
THEOREM SpentOnce == Spec => []NoDoubleSpend
  <1>1. IInv => NoDoubleSpend
    BY DEF IInv
  <1> QED BY <1>1, Inductive, PTL

-----------------------------------------------------------------------------
(* What a step does to the file and to the copies that are about to be      *)
(* saved.                                                                   *)

\* A refused credential is remembered with its client.
Blames(c) ==
    /\ blamed \subseteq blamed'
    /\ op'[c].job = "auth" => <<op'[c].id, op'[c].tok>> \in blamed'

FileKinds(c) ==
    \/ disk' = disk /\ pc'[c] # "saving"
    \/ /\ UNCHANGED <<disk, blamed>>
       /\ pc'[c] = "saving" /\ Faithful(mem'[c], op'[c].id)
    \/ Save(c)
    \/ \E a \in Ids : SelectExpired(c, a)

FileMoves(c) == FileKinds(c) /\ Blames(c)

LEMMA EndForgets ==
  ASSUME NEW c \in Clients, TypeOK, End(c)
  PROVE  pc'[c] = "done" /\ op'[c].job = "none"
  BY EndMoves DEF NoOp

LEMMA FileUpdate ==
  ASSUME NEW c \in Clients, IInv, FileInv, Update(c)
  PROVE  FileMoves(c)
  <1> USE DEF IInv, TypeOK, At, Goto, Return, worldVars, auditVars, storeVars,
              FileMoves, FileKinds, Blames
  <1>1. CASE Acquire(c)
    BY <1>1 DEF Acquire, FileInv
  <1>2. CASE WaitFails(c)
    BY <1>2, EndForgets DEF WaitFails
  <1>3. CASE ReadFails(c)
    BY <1>3 DEF ReadFails, FileInv, Op
  <1>4. CASE Save(c)
    BY <1>4 DEF Save, FileInv
  <1>5. CASE SaveFails(c)
    BY <1>5 DEF SaveFails, FileInv, Op
  <1>6. CASE UnlockThrown(c)
    BY <1>6, EndForgets DEF UnlockThrown
  <1> QED BY <1>1, <1>2, <1>3, <1>4, <1>5, <1>6 DEF Update

\* The file itself is a faithful copy, and stays one when an account is fenced
\* whose credential was refused.
LEMMA FileFaithful ==
  ASSUME TypeOK, Valid(disk), NeedsLoginJustified, NEW a \in Ids
  PROVE  /\ \A id : Faithful(disk, id)
         /\ <<a, disk.acct[a].tok>> \in blamed => Faithful(Fence(disk, a), a)
  <1>1. \A x \in Ids : disk.acct[x].cooldown \in Nat
    BY AccountTypes DEF TypeOK, Account
  <1>2. \A id : Faithful(disk, id)
    BY <1>1 DEF Faithful, NeedsLoginJustified, Linked
  <1>3. ASSUME <<a, disk.acct[a].tok>> \in blamed PROVE Faithful(Fence(disk, a), a)
    <2> DEFINE d == Fence(disk, a)
    <2>1. /\ d.preferred = disk.preferred
          /\ \A x \in Ids : d.acct[x].tok = disk.acct[x].tok
          /\ \A x \in Ids : d.acct[x].cooldown = disk.acct[x].cooldown
          /\ \A x \in Ids \ {a} : d.acct[x].needsLogin = disk.acct[x].needsLogin
      BY DEF TypeOK, Store, Account, Fence
    <2> HIDE DEF d
    <2>2. Linked(d) = Linked(disk)
      BY <2>1 DEF Linked
    <2>3. Locked(d) \subseteq blamed
      BY <1>3, <2>1, <2>2 DEF Locked, NeedsLoginJustified, Linked
    <2>4. Valid(d)
      BY <2>1, <2>2 DEF Valid
    <2>5. Faithful(d, a)
      BY <1>1, <2>1, <2>3, <2>4 DEF Faithful, Linked
    <2> QED BY <2>5 DEF d
  <1> QED BY <1>2, <1>3

LEMMA FileSelect ==
  ASSUME NEW r \in Requests, IInv, FileInv, Select(r)
  PROVE  FileMoves(r)
  <1> USE DEF IInv, TypeOK, At, Goto, Return, Changed, worldVars, auditVars,
              storeVars, FileMoves, FileKinds, Blames
  <1>0. r \in Clients /\ Valid(disk) /\ NeedsLoginJustified
    BY DEF Clients, FileInv
  <1>a. \A id \in Ids : Faithful(disk, op'[r].id)
    BY <1>0, FileFaithful
  <1>1. CASE SelectNone(r)
    <2>1. /\ UNCHANGED <<disk, blamed, op>> /\ mem'[r] = disk /\ pc'[r] = "saving"
          /\ op[r].job = "select"
      BY <1>0, <1>1 DEF SelectNone, Selecting
    <2>2. Faithful(disk, op'[r].id)
      <3>1. CASE Ids = {}
        BY <1>0, <3>1 DEF Faithful, NeedsLoginJustified, Linked
      <3> QED BY <1>a, <3>1
    <2> QED BY <2>1, <2>2
  <1>2. CASE UnlockRetry(r)
    BY <1>0, <1>2 DEF UnlockRetry, NoOp
  <1>3. CASE UnlockUnselected(r)
    BY <1>0, <1>3, EndForgets DEF UnlockUnselected
  <1>4. CASE StartStream(r)
    BY <1>0, <1>4 DEF StartStream
  <1>5. CASE SendRefresh(r)
    BY <1>0, <1>5 DEF SendRefresh, FileInv
  <1>6. CASE RefreshOk(r)
    <2> DEFINE a == op[r].id
               t == issued[a] + 1
               d == Renewed(disk, a, t)
    <2>1. a \in Ids /\ mem[r] = disk /\ a \in Linked(disk)
      BY <1>0, <1>6, Refreshing DEF RefreshOk
    <2>2. t # 0 /\ t # disk.acct[a].tok
      BY <1>0, <1>6, <2>1, Tokens DEF IssuedOK
    <2>3. /\ d.preferred = disk.preferred
          /\ d.acct[a].tok = t /\ d.acct[a].needsLogin = FALSE
          /\ \A x \in Ids \ {a} : d.acct[x] = disk.acct[x]
      BY <2>1 DEF Renewed, Store, Account
    <2>4. /\ mem'[r] = d /\ pc'[r] = "saving" /\ op'[r].id = a
          /\ op'[r].job = "select" /\ UNCHANGED <<disk, blamed>>
      BY <1>0, <1>6, <2>1 DEF RefreshOk, Hold
    <2>5. \A x \in Ids : disk.acct[x].cooldown \in Nat
      BY AccountTypes DEF Account
    <2> HIDE DEF d, t
    <2>6. Valid(d) /\ Locked(d) \subseteq blamed
      <3>1. Linked(d) = Linked(disk)
        BY <2>1, <2>2, <2>3 DEF Linked
      <3>2. Valid(d)
        BY <1>0, <2>3, <3>1 DEF Valid
      <3>3. \A x \in Linked(d) : d.acct[x].needsLogin =>
               x \in Linked(disk) /\ d.acct[x] = disk.acct[x]
        BY <2>3, <3>1 DEF Linked
      <3>4. Locked(d) \subseteq Locked(disk)
        BY <3>3 DEF Locked
      <3> QED BY <1>0, <3>2, <3>4 DEF NeedsLoginJustified
    <2>7. Faithful(d, a)
      BY <2>2, <2>3, <2>5, <2>6 DEF Faithful, Linked
    <2> QED BY <2>4, <2>7
  <1>7. CASE RefreshFails(r)
    <2> DEFINE a == op[r].id
    <2>1. /\ a \in Ids /\ mem[r] = disk /\ a \in Linked(disk)
          /\ disk.acct[a].needsLogin
      BY <1>0, <1>7, Refreshing DEF RefreshFails
    <2>2. <<a, disk.acct[a].tok>> \in blamed
      BY <1>0, <2>1 DEF NeedsLoginJustified, Locked
    <2>3. /\ mem'[r] = Fence(disk, a) /\ pc'[r] = "saving" /\ op'[r].id = a
          /\ op'[r].tok = op[r].tok /\ op'[r].job = op[r].job
          /\ UNCHANGED <<disk, blamed>>
      BY <1>0, <1>7, <2>1 DEF RefreshFails, FailClosed, Op
    <2> QED BY <1>0, <2>1, <2>2, <2>3, FileFaithful DEF FileInv
  <1>8. ASSUME NEW a \in Ids, SelectReady(r, a) PROVE FileMoves(r)
    <2>1. op'[r] = [job |-> "select", res |-> "account", id |-> a,
                    tok |-> disk.acct[a].tok]
      BY <1>0, <1>8 DEF SelectReady, Hold
    <2>2. mem'[r] = disk /\ pc'[r] = "saving" /\ UNCHANGED <<disk, blamed>>
      BY <1>0, <1>8 DEF SelectReady
    <2> QED BY <1>a, <2>1, <2>2
  <1>9. ASSUME NEW a \in Ids, SelectExpired(r, a) PROVE FileMoves(r)
    <2>1. op'[r].job = "select" /\ blamed \subseteq blamed'
      BY <1>0, <1>9, ExpiredFacts DEF SelectExpired
    <2> QED BY <1>9, <2>1
  <1>10. ASSUME NEW a \in Ids, FenceFails(r, a) PROVE FileMoves(r)
    BY <1>0, <1>10 DEF FenceFails, Take, Selecting, Op
  <1> QED BY <1>0, <1>1, <1>2, <1>3, <1>4, <1>5, <1>6, <1>7, <1>8, <1>9, <1>10
          DEF Select

LEMMA FileStream ==
  ASSUME NEW r \in Requests, IInv, FileInv,
         \/ Begin(r) \/ NextAttempt(r) \/ GiveUp(r) \/ StreamEnd(r) \/ Mark(r)
         \/ UnlockMarked(r) \/ Event(r) \/ Output(r)
  PROVE  FileMoves(r)
  <1> USE DEF IInv, TypeOK, At, Goto, Changed, worldVars, auditVars,
              storeVars, FileMoves, FileKinds, Blames
  <1>0. r \in Clients /\ Valid(disk) /\ NeedsLoginJustified
    BY DEF Clients, FileInv
  <1>1. CASE Begin(r)
    <2>1. CASE End(r)
      BY <1>0, <1>1, <2>1, EndForgets DEF Begin
    <2>2. CASE Goto(r, "loop") /\ op' = op
      BY <1>0, <1>1, <2>2 DEF Begin, FileInv
    <2> QED BY <1>1, <2>1, <2>2 DEF Begin
  <1>2. CASE NextAttempt(r)
    BY <1>0, <1>2 DEF NextAttempt, Op
  <1>3. CASE GiveUp(r)
    BY <1>0, <1>3, EndForgets DEF GiveUp
  <1>4. CASE Complete(r)
    BY <1>0, <1>4, EndForgets DEF Complete
  <1>5. CASE StreamFails(r)
    BY <1>0, <1>5, EndForgets DEF StreamFails
  <1>6. ASSUME NEW kind \in {"quota", "auth"}, Refused(r, kind) PROVE FileMoves(r)
    <2>1. op'[r] = [job |-> kind, res |-> "none", id |-> op[r].id,
                    tok |-> op[r].tok]
      BY <1>0, <1>6 DEF Refused, Hold
    <2>2. disk' = disk /\ pc'[r] = "want" /\ blamed \subseteq blamed'
          /\ (kind = "auth" => <<op[r].id, op[r].tok>> \in blamed')
      BY <1>0, <1>6 DEF Refused
    <2> QED BY <2>1, <2>2
  <1>7. CASE Mark(r)
    <2> DEFINE a == op[r].id
    <2>0. /\ a \in Ids /\ pc'[r] = "saving" /\ UNCHANGED <<disk, op, blamed>>
      BY <1>0, <1>7 DEF Mark, HoldsAccount
    <2>1. Faithful(mem'[r], a)
      <3>1. CASE Stale(r) /\ Changed(r, disk)
        BY <1>0, <2>0, <3>1, FileFaithful
      <3>2. CASE ~Stale(r) /\ op[r].job = "auth" /\ Changed(r, Fence(disk, a))
        <4>1. <<a, disk.acct[a].tok>> \in blamed
          BY <1>0, <3>2 DEF Stale, FileInv
        <4> QED BY <1>0, <2>0, <3>2, <4>1, FileFaithful
      <3>3. CASE \E until :
                    Changed(r, [disk EXCEPT !.acct[a].cooldown =
                                   Longest(disk.acct[a].cooldown, until)])
                    /\ until \in Nat
        <4> PICK until \in Nat :
               Changed(r, [disk EXCEPT !.acct[a].cooldown =
                              Longest(disk.acct[a].cooldown, until)])
          BY <3>3
        <4> DEFINE u == Longest(disk.acct[a].cooldown, until)
                   d == [disk EXCEPT !.acct[a].cooldown = u]
        <4>1. \A x \in Ids : disk.acct[x].cooldown \in Nat
          BY AccountTypes DEF Account
        <4>2. u >= disk.acct[a].cooldown
          BY <2>0, <4>1 DEF Longest
        <4>3. mem'[r] = d
          BY <1>0
        <4> HIDE DEF u
        <4>4. /\ d.preferred = disk.preferred
              /\ d.acct[a].cooldown = u
              /\ \A x \in Ids : d.acct[x].tok = disk.acct[x].tok
              /\ \A x \in Ids : d.acct[x].needsLogin = disk.acct[x].needsLogin
              /\ \A x \in Ids \ {a} : d.acct[x] = disk.acct[x]
          BY <2>0 DEF Store, Account
        <4> HIDE DEF d
        <4>5. Linked(d) = Linked(disk)
          BY <4>4 DEF Linked
        <4>6. Valid(d)
          BY <1>0, <4>4, <4>5 DEF Valid
        <4>7. Locked(d) \subseteq blamed
          <5>1. Locked(d) = Locked(disk)
            BY <4>4, <4>5 DEF Locked, Linked
          <5> QED BY <1>0, <5>1 DEF NeedsLoginJustified
        <4>8. \A x \in Ids : d.acct[x].cooldown >= disk.acct[x].cooldown
          BY <4>1, <4>2, <4>4
        <4>9. Faithful(d, a)
          BY <4>4, <4>6, <4>7, <4>8 DEF Faithful, Linked
        <4> QED BY <4>3, <4>9
      <3>4. ASSUME ~Stale(r), op[r].job = "quota"
            PROVE  \E until : Changed(r, [disk EXCEPT !.acct[a].cooldown =
                                   Longest(disk.acct[a].cooldown, until)])
                              /\ until \in Nat
        <4>1. PICK hints \in SUBSET Hints :
                 \E u \in CooldownUntil(now, hints) :
                    Changed(r, [disk EXCEPT !.acct[a].cooldown =
                                   Longest(disk.acct[a].cooldown, u)])
          BY <1>7, <3>4 DEF Mark
        <4> PICK until \in CooldownUntil(now, hints) :
               Changed(r, [disk EXCEPT !.acct[a].cooldown =
                              Longest(disk.acct[a].cooldown, until)])
          BY <4>1
        <4>2. until \in Nat
          BY <4>1, PoolAssumption DEF CooldownUntil
        <4> QED BY <4>2
      <3> QED BY <1>7, <3>1, <3>2, <3>3, <3>4 DEF Mark
    <2> QED BY <1>0, <2>0, <2>1 DEF FileInv
  <1>8. CASE UnlockMarked(r)
    <2>1. CASE End(r)
      BY <1>0, <1>8, <2>1, EndForgets DEF UnlockMarked
    <2>2. CASE op' = [op EXCEPT ![r] = NoOp] /\ Goto(r, "loop")
      BY <1>0, <1>8, <2>2 DEF UnlockMarked, NoOp
    <2> QED BY <1>8, <2>1, <2>2 DEF UnlockMarked
  <1>9. CASE Event(r)
    BY <1>0, <1>9 DEF Event, FileInv
  <1>10. CASE Output(r)
    BY <1>0, <1>10 DEF Output, FileInv
  <1> QED BY <1>0, <1>1, <1>2, <1>3, <1>4, <1>5, <1>6, <1>7, <1>8, <1>9, <1>10
          DEF StreamEnd

LEMMA FileCommand ==
  ASSUME NEW a \in Commands, IInv, FileInv,
         \/ Command(a)
         \/ \E id \in Ids : Login(a, id)
         \/ \E id \in Ids, action \in {"switch", "remove"} : Manage(a, id, action)
  PROVE  FileMoves(a)
  <1> USE DEF IInv, TypeOK, At, Goto, Return, Changed, worldVars, auditVars,
              storeVars, FileMoves, FileKinds, Blames
  <1>0. a \in Clients /\ Valid(disk) /\ NeedsLoginJustified
    BY DEF Clients, FileInv
  <1>c. \A x \in Ids : disk.acct[x].cooldown \in Nat
    BY AccountTypes DEF Account
  <1>1. CASE Update(a)
    BY <1>0, <1>1, FileUpdate
  <1>2. ASSUME NEW id \in Ids, Login(a, id) PROVE FileMoves(a)
    <2>1. op'[a].job = "add"
      BY <1>0, <1>2, LoginFacts
    <2> QED BY <1>0, <1>2, <2>1 DEF Login
  <1>3. ASSUME NEW id \in Ids, NEW action \in {"switch", "remove"},
               Manage(a, id, action)
        PROVE  FileMoves(a)
    <2>1. op'[a].job = action
      BY <1>0, <1>3 DEF Manage, Hold
    <2> QED BY <1>0, <1>3, <2>1 DEF Manage
  <1>4. CASE Add(a)
    <2> DEFINE id == op[a].id
               d == mem'[a]
    <2>1. /\ id \in Ids /\ op[a].tok # 0 /\ disk.acct[id].tok # op[a].tok
          /\ d.acct[id].tok = op[a].tok
          /\ \A x \in Ids \ {id} : d.acct[x] = disk.acct[x]
          /\ pc'[a] = "saving" /\ UNCHANGED <<disk, op, blamed>>
          /\ op[a].job = "add"
      BY <1>0, <1>4, AddFacts DEF Add, PendingOK
    <2>2. d.acct[id].needsLogin = FALSE
      BY <1>0, <1>4, <2>1 DEF Add, Store
    <2>3. d.preferred = IF disk.preferred = None THEN id ELSE disk.preferred
      BY <1>0, <1>4 DEF Add
    <2> HIDE DEF d
    <2>4. Linked(d) = Linked(disk) \cup {id}
      BY <2>1 DEF Linked
    <2>5. Valid(d)
      BY <1>0, <2>3, <2>4 DEF Valid
    <2>6. \A x \in Linked(d) : d.acct[x].needsLogin =>
             x \in Linked(disk) /\ d.acct[x] = disk.acct[x]
      BY <2>1, <2>2, <2>4 DEF Linked
    <2>7. Locked(d) \subseteq Locked(disk)
      BY <2>6 DEF Locked
    <2>8. Faithful(d, id)
      BY <1>0, <1>c, <2>1, <2>5, <2>7 DEF Faithful, NeedsLoginJustified, Linked
    <2> QED BY <1>0, <2>1, <2>8 DEF d
  <1>5. CASE Switch(a)
    <2> DEFINE d == [disk EXCEPT !.preferred = op[a].id]
    <2>1. /\ mem'[a] = d /\ op[a].id \in Linked(disk) /\ op[a].job = "switch"
          /\ pc'[a] = "saving" /\ UNCHANGED <<disk, op, blamed>>
      BY <1>0, <1>5 DEF Switch
    <2>2. d.acct = disk.acct /\ d.preferred = op[a].id
      BY DEF Store
    <2> HIDE DEF d
    <2>3. Linked(d) = Linked(disk) /\ Locked(d) = Locked(disk)
      BY <2>2 DEF Linked, Locked
    <2>4. Faithful(d, op[a].id)
      BY <1>0, <1>c, <2>1, <2>2, <2>3
         DEF Faithful, NeedsLoginJustified, Valid, Linked
    <2> QED BY <2>1, <2>4
  <1>6. CASE Remove(a)
    <2> DEFINE id == op[a].id
               left == [disk EXCEPT !.acct = Without(disk.acct, id)]
    <2>0. PICK heir \in Ids \cup {None} :
             Inherits(heir, id, left) /\ Changed(a, [left EXCEPT !.preferred = heir])
      BY <1>6 DEF Remove
    <2> DEFINE d == [left EXCEPT !.preferred = heir]
    <2>1. /\ mem'[a] = d /\ id \in Linked(disk) /\ op[a].job = "remove"
          /\ pc'[a] = "saving" /\ UNCHANGED <<disk, op, blamed>>
      BY <1>0, <1>6, <2>0 DEF Remove
    <2>2. /\ left.acct[id].tok = 0
          /\ \A x \in Ids \ {id} :
                /\ left.acct[x].tok = disk.acct[x].tok
                /\ left.acct[x].cooldown = disk.acct[x].cooldown
                /\ left.acct[x].needsLogin = disk.acct[x].needsLogin
      <3>1. left.acct = Without(disk.acct, id)
        BY DEF Store
      <3>2. id \in Ids /\ \A x \in Ids : disk.acct[x] \in Account
        BY <2>1, AccountTypes DEF Linked
      <3>3. left.acct[id].tok = 0
        BY <3>1, <3>2 DEF Without, Absent
      <3>4. ASSUME NEW x \in Ids \ {id}
            PROVE  /\ left.acct[x].tok = disk.acct[x].tok
                   /\ left.acct[x].cooldown = disk.acct[x].cooldown
                   /\ left.acct[x].needsLogin = disk.acct[x].needsLogin
        <4>1. \/ left.acct[x] = disk.acct[x]
              \/ left.acct[x] = [disk.acct[x] EXCEPT !.rank = @ - 1]
          BY <3>1 DEF Without
        <4>2. disk.acct[x] \in Account
          BY <3>2
        <4> HIDE DEF left
        <4> QED BY <4>1, <4>2 DEF Account
      <3> QED BY <3>3, <3>4
    <2>3. d.acct = left.acct /\ d.preferred = heir
      BY DEF Store
    <2>4. Linked(left) = Linked(disk) \ {id} /\ Linked(d) = Linked(left)
      BY <2>2, <2>3 DEF Linked
    <2>5. Valid(d)
      <3>1. CASE disk.preferred = id
        <4>1. IsFirst(heir, left)
          BY <2>0, <3>1 DEF Inherits
        <4>2. heir = None \/ heir \in Linked(left)
          <5> HIDE DEF left
          <5> QED BY <4>1 DEF IsFirst
        <4> QED BY <2>3, <2>4, <4>2 DEF Valid
      <3>2. CASE disk.preferred # id
        <4>1. heir = disk.preferred
          BY <2>0, <3>2 DEF Inherits
        <4> HIDE DEF left, d
        <4> QED BY <1>0, <2>3, <2>4, <3>2, <4>1 DEF Valid
      <3> QED BY <3>1, <3>2
    <2> HIDE DEF left, d
    <2>6. \A x \in Linked(d) : x \in Linked(disk) /\ x \in Ids \ {id}
      BY <2>4 DEF Linked
    <2>7. Locked(d) \subseteq Locked(disk)
      BY <2>2, <2>3, <2>6 DEF Locked
    <2>8. Faithful(d, id)
      BY <1>0, <1>c, <2>1, <2>2, <2>3, <2>5, <2>7
         DEF Faithful, NeedsLoginJustified, Linked
    <2> QED BY <1>0, <2>1, <2>8
  <1>7. CASE NoMatch(a)
    BY <1>0, <1>7 DEF NoMatch, FileInv, Op
  <1>8. CASE UnlockManaged(a)
    BY <1>0, <1>8, EndForgets DEF UnlockManaged
  <1> QED BY <1>0, <1>1, <1>2, <1>3, <1>4, <1>5, <1>6, <1>7, <1>8 DEF Command

\* Who saves or fences is alone in the lock: nobody else's copy is overtaken.
LEMMA FileKept ==
  ASSUME NEW c \in Clients, IInv, FileInv, Moves(c), FileMoves(c)
  PROVE  FileInv'
  <1>1. OthersKeep(c) /\ Blames(c)
    BY DEF Moves, FileMoves
  <1>2. \A b \in Clients :
           op'[b].job = "auth" => <<op'[b].id, op'[b].tok>> \in blamed'
    BY <1>1 DEF OthersKeep, Blames, FileInv
  <1>3. CASE disk' = disk /\ pc'[c] # "saving"
    <2>1. Valid(disk)' /\ NeedsLoginJustified'
      BY <1>1, <1>3 DEF FileInv, Blames, Valid, NeedsLoginJustified, Locked, Linked
    <2>2. ASSUME NEW b \in Clients, pc'[b] = "saving"
          PROVE  Faithful(mem[b], op[b].id)'
      <3>1. Faithful(mem'[b], op'[b].id)
        BY <1>1, <1>3, <2>2 DEF FileInv, OthersKeep
      <3>2. disk' = disk /\ blamed \subseteq blamed'
        BY <1>1, <1>3 DEF Blames
      <3> QED BY <3>1, <3>2 DEF Faithful, Linked
    <2> QED BY <1>2, <2>1, <2>2 DEF FileInv
  <1>4. CASE /\ UNCHANGED <<disk, blamed>>
             /\ pc'[c] = "saving" /\ Faithful(mem'[c], op'[c].id)
    <2>1. Valid(disk)' /\ NeedsLoginJustified'
      BY <1>4 DEF FileInv, Valid, NeedsLoginJustified, Locked, Linked
    <2>2. ASSUME NEW b \in Clients, pc'[b] = "saving"
          PROVE  Faithful(mem[b], op[b].id)'
      <3>1. Faithful(mem'[b], op'[b].id)
        BY <1>1, <1>4, <2>2 DEF FileInv, OthersKeep
      <3> QED BY <1>4, <3>1 DEF Faithful, Linked
    <2> QED BY <1>2, <2>1, <2>2 DEF FileInv
  <1>5. ASSUME pc[c] \in Critical, pc'[c] # "saving"
        PROVE  \A b \in Clients : pc'[b] # "saving"
    BY <1>1, <1>5, Alone DEF OthersKeep, Critical
  <1>6. CASE Save(c)
    <2>1. /\ disk' = mem[c] /\ pc[c] = "saving" /\ pc'[c] = "unlocking"
          /\ blamed' = blamed
      BY <1>6, SaveFacts DEF Save, auditVars
    <2>2. \A b \in Clients : pc'[b] # "saving"
      BY <1>5, <2>1 DEF Critical
    <2>3. Valid(mem[c]) /\ Locked(mem[c]) \subseteq blamed
      BY <2>1 DEF FileInv, Faithful
    <2>4. Valid(disk)' /\ NeedsLoginJustified'
      BY <2>1, <2>3 DEF Valid, NeedsLoginJustified, Locked, Linked
    <2> QED BY <1>2, <2>2, <2>4 DEF FileInv
  <1>7. ASSUME NEW a \in Ids, SelectExpired(c, a) PROVE FileInv'
    <2>1. /\ disk' = Fence(disk, a) /\ pc[c] \in Critical
          /\ pc'[c] = "refreshing" /\ blamed' = blamed \cup {<<a, disk.acct[a].tok>>}
      BY <1>7, ExpiredFacts DEF SelectExpired
    <2>2. \A b \in Clients : pc'[b] # "saving"
      BY <1>5, <2>1
    <2>3. /\ \A id \in Ids : disk'.acct[id].tok = disk.acct[id].tok
          /\ \A id \in Ids \ {a} : disk'.acct[id].needsLogin = disk.acct[id].needsLogin
          /\ disk'.preferred = disk.preferred
      BY <2>1 DEF IInv, TypeOK, Store, Account, Fence
    <2>4. Linked(disk)' = Linked(disk)
      BY <2>3 DEF Linked
    <2>5. Valid(disk)'
      BY <2>3, <2>4 DEF FileInv, Valid
    <2>6. NeedsLoginJustified'
      BY <2>1, <2>3, <2>4 DEF FileInv, NeedsLoginJustified, Locked, Linked
    <2> QED BY <1>2, <2>2, <2>5, <2>6 DEF FileInv
  <1> QED BY <1>3, <1>4, <1>6, <1>7 DEF FileMoves, FileKinds

LEMMA FileEnvironment ==
  ASSUME IInv, FileInv, Environment \/ UNCHANGED vars
  PROVE  FileInv'
  <1>1. UNCHANGED <<disk, blamed>>
    BY DEF Environment, Tick, Crash, Restart, RemoveAbandonedLock, vars,
           storeVars, auditVars
  <1>2. \A c \in Clients :
           \/ pc'[c] = pc[c] /\ op'[c] = op[c] /\ mem'[c] = mem[c]
           \/ pc'[c] = "dead" /\ op'[c] = NoOp
    <2>1. ASSUME NEW p \in Processes, Crash(p)
          PROVE  \A c \in Clients :
                    \/ pc'[c] = pc[c] /\ op'[c] = op[c] /\ mem'[c] = mem[c]
                    \/ pc'[c] = "dead" /\ op'[c] = NoOp
      BY <2>1 DEF Crash, IInv, TypeOK
    <2>2. UNCHANGED <<pc, op, mem>> \/ \E p \in Processes : Crash(p)
      BY DEF Environment, Tick, Restart, RemoveAbandonedLock, vars, storeVars
    <2> QED BY <2>1, <2>2
  <1>3. \A c \in Clients :
           /\ pc'[c] = "saving" => Faithful(mem'[c], op'[c].id)
           /\ op'[c].job = "auth" => <<op'[c].id, op'[c].tok>> \in blamed
    BY <1>2 DEF FileInv, NoOp
  <1> QED BY <1>1, <1>3
          DEF FileInv, Faithful, Valid, NeedsLoginJustified, Locked, Linked

\* Every step of a client falls under both classifications.
LEMMA ClientMoves ==
  ASSUME IInv, FileInv, [Next]_vars
  PROVE  \/ Environment \/ UNCHANGED vars
         \/ \E c \in Clients : Moves(c) /\ FileMoves(c)
  <1>1. ASSUME NEW r \in Requests,
               Begin(r) \/ Request(r) \/ Event(r) \/ Output(r)
        PROVE  \E c \in Clients : Moves(c) /\ FileMoves(c)
    <2>1. r \in Clients
      BY DEF Clients
    <2> QED BY <1>1, <2>1, UpdateMoves, FileUpdate, SelectMoves, FileSelect,
               StreamMoves, FileStream
            DEF Request
  <1>2. ASSUME NEW a \in Commands,
               \/ Command(a)
               \/ \E id \in Ids : Login(a, id)
               \/ \E id \in Ids, action \in {"switch", "remove"} :
                     Manage(a, id, action)
        PROVE  \E c \in Clients : Moves(c) /\ FileMoves(c)
    BY <1>2, CommandMoves, FileCommand
  <1> QED BY <1>1, <1>2 DEF Next, Start

LEMMA FileStep == IInv /\ FileInv /\ [Next]_vars => FileInv'
  BY ClientMoves, FileKept, FileEnvironment

LEMMA FileInit == Init => FileInv
  <1> SUFFICES ASSUME Init PROVE FileInv
    OBVIOUS
  <1>1. Valid(disk) /\ NeedsLoginJustified
    BY InitStoreAssumption DEF Init, NeedsLoginJustified
  <1>2. \A c \in Clients : pc[c] = "idle" /\ op[c].job = "none"
    BY DEF Init, NoOp
  <1> QED BY <1>1, <1>2 DEF FileInv

\* What is in the file and what is about to be: the invariant of updates.
THEOREM FilesHold == Spec => [](IInv /\ FileInv)
  <1>1. Init => IInv /\ FileInv
    BY InitInvariant, FileInit
  <1>2. IInv /\ FileInv /\ [Next]_vars => (IInv /\ FileInv)'
    BY StepInvariant, FileStep
  <1> QED BY <1>1, <1>2, PTL DEF Spec

\* provider.ts: only a credential that was refused, or whose refresh was
\* started, is made to ask for login; a late answer leaves a newer one alone.
THEOREM LoginIsJustified == Spec => []NeedsLoginJustified
  <1>1. IInv /\ FileInv => NeedsLoginJustified
    BY DEF FileInv
  <1> QED BY <1>1, FilesHold, PTL

\* Two accounts that differ in rank only.
LEMMA UnrankedEqual ==
  ASSUME NEW x \in Account, NEW y \in Account,
         x.tok = y.tok, x.cooldown = y.cooldown, x.needsLogin = y.needsLogin
  PROVE  [x EXCEPT !.rank = 0] = [y EXCEPT !.rank = 0]
  BY DEF Account

\* store.ts update(): a save changes the account its update worked on, and of
\* the others at most the place.
THEOREM SavesKeepOthers == Spec => NoLostUpdate
  <1>1. ASSUME IInv, FileInv, [Next]_vars PROVE SavesOneAccount
    <2> SUFFICES ASSUME NEW c \in Clients, pc[c] = "saving", disk' # disk,
                        NEW id \in Ids \ {op[c].id}
                 PROVE  [disk'.acct[id] EXCEPT !.rank = 0]
                           = [disk.acct[id] EXCEPT !.rank = 0]
      BY DEF SavesOneAccount
    <2>1. PICK b \in Clients : FileMoves(b)
      <3>1. ~Environment /\ ~UNCHANGED vars
        BY DEF Environment, Tick, Crash, Restart, RemoveAbandonedLock, vars,
               storeVars
      <3> QED BY <1>1, <3>1, ClientMoves
    <2>2. pc[b] \in Critical
      BY <1>1, <2>1, SaveFacts, ExpiredFacts DEF FileMoves, FileKinds, Critical
    <2>3. b = c
      BY <1>1, <2>2, Alone DEF Critical
    <2>4. \A a \in Ids : ~SelectExpired(c, a)
      BY DEF SelectExpired, Take, Selecting, At
    <2>5. disk' = mem[c]
      BY <1>1, <2>1, <2>3, <2>4, SaveFacts DEF FileMoves, FileKinds
    <2>6. Faithful(mem[c], op[c].id)
      BY <1>1 DEF FileInv
    <2>7. disk.acct[id] \in Account /\ mem[c].acct[id] \in Account
      BY <1>1, AccountTypes DEF IInv, TypeOK
    <2> QED BY <2>5, <2>6, <2>7, UnrankedEqual DEF Faithful
  <1>2. IInv /\ FileInv /\ [Next]_vars => [SavesOneAccount]_vars
    BY <1>1
  <1> QED BY <1>2, FilesHold, PTL DEF NoLostUpdate, Spec

\* provider.ts: while an account keeps its credential its cooldown never
\* shrinks, in whatever order answers are recorded.
THEOREM CooldownsHold == Spec => CooldownMonotone
  <1>1. ASSUME IInv, FileInv, [Next]_vars PROVE CooldownKept
    <2>0. \A id \in Ids : disk.acct[id].cooldown \in Nat
      BY <1>1, AccountTypes DEF IInv, TypeOK, Account
    <2>1. CASE disk' = disk
      BY <2>0, <2>1 DEF CooldownKept, Linked
    <2>2. CASE disk' # disk
      <3>1. PICK b \in Clients : FileMoves(b)
        <4>1. ~Environment /\ ~UNCHANGED vars
          BY <2>2 DEF Environment, Tick, Crash, Restart, RemoveAbandonedLock, vars,
                      storeVars
        <4> QED BY <1>1, <4>1, ClientMoves
      <3>2. CASE Save(b)
        <4>1. disk' = mem[b] /\ pc[b] = "saving"
          BY <1>1, <3>2, SaveFacts
        <4>2. Faithful(mem[b], op[b].id)
          BY <1>1, <4>1 DEF FileInv
        <4> QED BY <4>1, <4>2 DEF CooldownKept, Faithful
      <3>3. ASSUME NEW a \in Ids, SelectExpired(b, a) PROVE CooldownKept
        <4>1. disk' = Fence(disk, a) /\ disk \in Store
          BY <1>1, <3>3, ExpiredFacts DEF IInv, TypeOK
        <4>2. \A id \in Ids : disk'.acct[id].cooldown = disk.acct[id].cooldown
          BY <4>1 DEF Fence, Store, Account
        <4> QED BY <2>0, <4>2 DEF CooldownKept, Linked
      <3> QED BY <2>2, <3>1, <3>2, <3>3 DEF FileMoves, FileKinds
    <2> QED BY <2>1, <2>2
  <1>2. IInv /\ FileInv /\ [Next]_vars => [CooldownKept]_vars
    BY <1>1
  <1> QED BY <1>2, FilesHold, PTL DEF CooldownMonotone, Spec

-----------------------------------------------------------------------------
(* The failover loop of a request.                                          *)

\* What the loop of a request is about.
LoopKept(r) ==
    /\ pc'[r] = pc[r] /\ op'[r] = op[r] /\ req'[r] = req[r]
    /\ delivered'[r] = delivered[r] /\ sends'[r] = sends[r]

LEMMA LoopFrame ==
  ASSUME NEW r \in Requests, LoopOK(r), LoopKept(r)
  PROVE  LoopOK(r)'
  BY DEF LoopOK, LoopKept, Refusal, Chosen

\* A request that has returned.
LEMMA LoopEnds ==
  ASSUME NEW r \in Requests, TypeOK, LoopOK(r), End(r), sends'[r] = sends[r],
         \A x, y \in delivered'[r] : x = y
  PROVE  LoopOK(r)'
  <1>1. r \in Clients
    BY DEF Clients
  <1>2. pc'[r] = "done" /\ op'[r] = NoOp /\ req'[r] = NoLoop
    BY <1>1 DEF TypeOK, End, Goto
  <1> QED BY <1>2 DEF LoopOK, Refusal, Chosen, NoOp, NoLoop

\* A step of a request inside its update that changes at most op's outcome.
LEMMA LoopInside ==
  ASSUME NEW r \in Requests, LoopOK(r),
         op'[r].job = op[r].job, op'[r].id = op[r].id,
         op'[r].res = op[r].res \/ op'[r].res \in {"retry", "thrown"},
         pc[r] \in {"want", "locked", "saving", "refreshing", "awaiting"},
         \/ pc'[r] = "locked" /\ pc[r] = "want" /\ op'[r].res = op[r].res
         \/ pc'[r] = "unlocking" /\ pc[r] \in {"locked", "saving"}
         \/ pc'[r] = "saving" /\ pc[r] = "locked" /\ op'[r].res = op[r].res
         \/ pc'[r] = "saving" /\ op'[r].res = "retry"
         \/ pc'[r] = "awaiting" /\ pc[r] = "refreshing",
         req'[r] = req[r], delivered'[r] = delivered[r], sends'[r] = sends[r]
  PROVE  LoopOK(r)'
  BY DEF LoopOK, Refusal, Chosen

LEMMA LoopUpdate ==
  ASSUME NEW r \in Requests, TypeOK, LoopOK(r), Update(r)
  PROVE  LoopOK(r)'
  <1> USE DEF TypeOK, At, Goto, Return, worldVars, auditVars, storeVars
  <1>0. r \in Clients
    BY DEF Clients
  <1>1. CASE Acquire(r)
    BY <1>0, <1>1, LoopInside DEF Acquire
  <1>2. CASE WaitFails(r)
    BY <1>2, LoopEnds DEF WaitFails, LoopOK
  <1>3. CASE ReadFails(r)
    BY <1>0, <1>3, LoopInside DEF ReadFails, Op
  <1>4. CASE Save(r)
    BY <1>0, <1>4, LoopInside DEF Save
  <1>5. CASE SaveFails(r)
    BY <1>0, <1>5, LoopInside DEF SaveFails, Op
  <1>6. CASE UnlockThrown(r)
    BY <1>6, LoopEnds DEF UnlockThrown, LoopOK
  <1> QED BY <1>1, <1>2, <1>3, <1>4, <1>5, <1>6 DEF Update

\* The account taken is one that this request has not been sent with.
LEMMA LoopTakes ==
  ASSUME NEW r \in Requests, TypeOK, LoopOK(r), NEW a \in Ids, Take(r, a)
  PROVE  /\ sends[r][a] = 0
         /\ pc[r] = "locked" /\ op[r].job = "select"
         /\ req'[r].tried = req[r].tried \cup {a}
         /\ req'[r].committed = req[r].committed
         /\ req'[r].buffered = req[r].buffered
  <1>1. r \in Clients /\ req[r] \in Loop
    BY DEF Clients, TypeOK
  <1>2. pc[r] = "locked" /\ op[r].job = "select" /\ a \in Ids \ req[r].tried
    BY DEF Take, Selecting, At, Choice, Available
  <1>3. sends[r][a] = 0
    BY <1>2 DEF LoopOK
  <1>4. req'[r] = [req[r] EXCEPT !.tried = Tried(r, a)]
    BY <1>1 DEF Take, TypeOK
  <1>5. /\ req'[r].tried = req[r].tried \cup {a}
        /\ req'[r].committed = req[r].committed
        /\ req'[r].buffered = req[r].buffered
    BY <1>1, <1>4 DEF Loop, Tried
  <1> QED BY <1>2, <1>3, <1>5

LEMMA LoopSelect ==
  ASSUME NEW r \in Requests, IInv, LoopOK(r), Select(r)
  PROVE  LoopOK(r)'
  <1> USE DEF TypeOK, At, Goto, Return, Changed, worldVars, auditVars, storeVars
  <1>0. r \in Clients /\ TypeOK
    BY DEF Clients, IInv
  <1>1. CASE SelectNone(r)
    BY <1>0, <1>1, LoopInside DEF SelectNone, Selecting
  <1>2. CASE UnlockRetry(r)
    <2>1. /\ pc[r] = "unlocking" /\ op[r].job = "select"
          /\ pc'[r] = "loop" /\ op'[r] = NoOp /\ req'[r] = req[r]
          /\ delivered'[r] = delivered[r] /\ sends'[r] = sends[r]
      BY <1>0, <1>2 DEF UnlockRetry
    <2> QED BY <2>1 DEF LoopOK, Refusal, Chosen, NoOp
  <1>3. CASE UnlockUnselected(r)
    BY <1>0, <1>3, LoopEnds DEF UnlockUnselected, LoopOK
  <1>4. CASE StartStream(r)
    <2> DEFINE a == op[r].id
    <2>1. /\ pc[r] = "unlocking" /\ op[r].job = "select" /\ op[r].res = "account"
          /\ pc'[r] = "streaming" /\ op'[r] = op[r] /\ req'[r] = req[r]
          /\ delivered'[r] = delivered[r] /\ a \in Ids
          /\ sends' = [sends EXCEPT ![r][a] = @ + 1]
      BY <1>0, <1>4 DEF StartStream, IInv, HoldsAccount
    <2>2. sends'[r] = [sends[r] EXCEPT ![a] = @ + 1] /\ sends[r] \in [Ids -> Nat]
      BY <1>0, <2>1
    <2>3. sends[r][a] = 0
      BY <2>1 DEF LoopOK, Chosen
    <2>4. \A id \in Ids : sends'[r][id] = IF id = a THEN 1 ELSE sends[r][id]
      BY <2>1, <2>2, <2>3
    <2> QED BY <2>1, <2>4 DEF LoopOK, Refusal, Chosen
  <1>5. CASE SendRefresh(r)
    BY <1>0, <1>5, LoopInside DEF SendRefresh
  <1>6. CASE RefreshOk(r)
    <2>1. /\ pc[r] = "awaiting" /\ pc'[r] = "saving"
          /\ op'[r] = [job |-> "select", res |-> "account", id |-> op[r].id,
                       tok |-> issued[op[r].id] + 1]
          /\ req'[r] = req[r] /\ delivered'[r] = delivered[r]
          /\ sends'[r] = sends[r]
      BY <1>0, <1>6 DEF RefreshOk, Hold
    <2>2. op[r].job = "select"
      BY <1>0, <2>1 DEF LoopOK
    <2> QED BY <2>1, <2>2 DEF LoopOK, Refusal, Chosen
  <1>7. CASE RefreshFails(r)
    BY <1>0, <1>7, LoopInside DEF RefreshFails, Op
  <1>8. ASSUME NEW a \in Ids, Take(r, a), op'[r].id = a, op'[r].job = "select",
               pc'[r] \in {"saving", "refreshing"},
               delivered'[r] = delivered[r], sends'[r] = sends[r]
        PROVE  LoopOK(r)'
    <2>1. /\ sends[r][a] = 0 /\ pc[r] = "locked" /\ op[r].job = "select"
          /\ req'[r].tried = req[r].tried \cup {a}
          /\ req'[r].committed = req[r].committed
          /\ req'[r].buffered = req[r].buffered
      BY <1>0, <1>8, LoopTakes
    <2>2. ~req'[r].committed /\ req'[r].buffered = {} /\ delivered[r] = {}
      BY <2>1 DEF LoopOK, Refusal
    <2>3. \A id \in Ids \ req'[r].tried : sends'[r][id] = 0
      BY <1>8, <2>1 DEF LoopOK
    <2>4. \A id \in Ids : sends'[r][id] <= 1
      BY <1>8 DEF LoopOK
    <2> QED BY <1>8, <2>1, <2>2, <2>3, <2>4 DEF LoopOK, Refusal, Chosen
  <1>9. ASSUME NEW a \in Ids, SelectReady(r, a) PROVE LoopOK(r)'
    <2>1. op'[r] = [job |-> "select", res |-> "account", id |-> a,
                    tok |-> disk.acct[a].tok]
      BY <1>0, <1>9 DEF SelectReady, Hold
    <2> QED BY <1>0, <1>8, <1>9, <2>1 DEF SelectReady
  <1>10. ASSUME NEW a \in Ids, SelectExpired(r, a) PROVE LoopOK(r)'
    <2>1. op'[r] = [job |-> "select", res |-> "none", id |-> a,
                    tok |-> disk.acct[a].tok]
      BY <1>0, <1>10 DEF SelectExpired, Hold
    <2> QED BY <1>0, <1>8, <1>10, <2>1 DEF SelectExpired
  <1>11. ASSUME NEW a \in Ids, FenceFails(r, a) PROVE LoopOK(r)'
    <2>1. /\ op'[r].id = op[r].id /\ op'[r].job = op[r].job /\ op'[r].res = "thrown"
          /\ pc'[r] = "unlocking" /\ delivered'[r] = delivered[r]
          /\ sends'[r] = sends[r] /\ Take(r, a)
      BY <1>0, <1>11 DEF FenceFails, Op
    <2>2. /\ pc[r] = "locked" /\ op[r].job = "select"
          /\ req'[r].tried = req[r].tried \cup {a}
          /\ req'[r].committed = req[r].committed
          /\ req'[r].buffered = req[r].buffered
      BY <1>0, <2>1, LoopTakes
    <2>3. \A id \in Ids \ req'[r].tried : sends'[r][id] = 0
      BY <2>1, <2>2 DEF LoopOK
    <2> QED BY <2>1, <2>2, <2>3 DEF LoopOK, Refusal, Chosen
  <1> QED BY <1>1, <1>2, <1>3, <1>4, <1>5, <1>6, <1>7, <1>9, <1>10, <1>11
          DEF Select

LEMMA LoopStream ==
  ASSUME NEW r \in Requests, IInv, LoopOK(r),
         \/ Begin(r) \/ NextAttempt(r) \/ GiveUp(r) \/ StreamEnd(r) \/ Mark(r)
         \/ UnlockMarked(r) \/ Event(r) \/ Output(r)
  PROVE  LoopOK(r)'
  <1> USE DEF TypeOK, At, Goto, Return, Changed, worldVars, auditVars, storeVars
  <1>0. r \in Clients /\ TypeOK /\ req[r] \in Loop
    BY DEF Clients, IInv
  <1>1. CASE Begin(r)
    <2>1. CASE End(r)
      BY <1>0, <1>1, <2>1, LoopEnds DEF Begin, LoopOK
    <2>2. CASE req' = [req EXCEPT ![r].allowed = Linked(disk)]
                 /\ Goto(r, "loop") /\ op' = op
      <3>1. /\ req'[r].tried = req[r].tried /\ req'[r].committed = req[r].committed
            /\ req'[r].buffered = req[r].buffered
        BY <1>0, <2>2 DEF Loop
      <3>2. /\ pc[r] = "idle" /\ pc'[r] = "loop" /\ op'[r] = op[r]
            /\ delivered'[r] = delivered[r] /\ sends'[r] = sends[r]
        BY <1>0, <1>1, <2>2 DEF Begin
      <3> QED BY <3>1, <3>2 DEF LoopOK, Refusal, Chosen
    <2> QED BY <1>1, <2>1, <2>2 DEF Begin
  <1>2. CASE NextAttempt(r)
    <2>1. /\ op'[r].job = "select" /\ op'[r].id = op[r].id /\ op'[r].res = op[r].res
          /\ pc[r] = "loop" /\ pc'[r] = "want" /\ req'[r] = req[r]
          /\ delivered'[r] = delivered[r] /\ sends'[r] = sends[r]
      BY <1>0, <1>2 DEF NextAttempt, Op
    <2> QED BY <2>1 DEF LoopOK, Refusal, Chosen, NoOp
  <1>3. CASE GiveUp(r)
    BY <1>0, <1>3, LoopEnds DEF GiveUp, LoopOK
  <1>4. CASE Complete(r)
    <2>1. pc[r] = "streaming" /\ End(r) /\ sends'[r] = sends[r]
          /\ delivered'[r] = delivered[r] \cup (req[r].buffered \cup {op[r].id})
      BY <1>0, <1>4 DEF Complete, Deliver
    <2>2. \A x \in delivered'[r] : x = op[r].id
      BY <2>1 DEF LoopOK
    <2> QED BY <1>0, <2>1, <2>2, LoopEnds
  <1>5. CASE StreamFails(r)
    BY <1>0, <1>5, LoopEnds DEF StreamFails, LoopOK
  <1>6. ASSUME NEW kind \in {"quota", "auth"}, Refused(r, kind) PROVE LoopOK(r)'
    <2>1. op'[r] = [job |-> kind, res |-> "none", id |-> op[r].id,
                    tok |-> op[r].tok]
      BY <1>0, <1>6 DEF Refused, Hold
    <2>2. PICK carries \in BOOLEAN :
             req' = [req EXCEPT ![r].committed = @ \/ carries]
      BY <1>6 DEF Refused
    <2>3. /\ req'[r].tried = req[r].tried /\ req'[r].buffered = req[r].buffered
          /\ req[r].committed => req'[r].committed
      BY <1>0, <2>2 DEF Loop
    <2>4. /\ pc[r] = "streaming" /\ pc'[r] = "want"
          /\ delivered'[r] = delivered[r] /\ sends'[r] = sends[r]
      BY <1>0, <1>6 DEF Refused
    <2> QED BY <2>1, <2>3, <2>4 DEF LoopOK, Refusal, Chosen
  <1>7. CASE Mark(r)
    <2>1. /\ pc[r] = "locked" /\ pc'[r] = "saving" /\ op'[r] = op[r]
          /\ req'[r] = req[r] /\ delivered'[r] = delivered[r]
          /\ sends'[r] = sends[r]
      BY <1>0, <1>7 DEF Mark
    <2> QED BY <2>1, LoopInside
  <1>8. CASE UnlockMarked(r)
    <2>0. /\ pc[r] = "unlocking" /\ op[r].job \in {"quota", "auth"}
          /\ delivered'[r] = delivered[r] /\ sends'[r] = sends[r]
      BY <1>8 DEF UnlockMarked
    <2>1. CASE End(r)
      <3>1. \A x, y \in delivered'[r] : x = y
        BY <2>0 DEF LoopOK
      <3> QED BY <1>0, <2>0, <2>1, <3>1, LoopEnds
    <2>2. CASE /\ Replayable(r)
               /\ req' = [req EXCEPT ![r].buffered = HeldForNext(r)]
               /\ op' = [op EXCEPT ![r] = NoOp] /\ Goto(r, "loop")
      <3>1. /\ req'[r].tried = req[r].tried /\ req'[r].committed = req[r].committed
            /\ req'[r].buffered = {} /\ ~req[r].committed
        BY <1>0, <2>2 DEF Loop, HeldForNext, Replayable
      <3>2. pc'[r] = "loop" /\ op'[r] = NoOp
        BY <1>0, <2>2
      <3> QED BY <2>0, <3>1, <3>2 DEF LoopOK, Refusal, Chosen, NoOp
    <2> QED BY <1>8, <2>1, <2>2 DEF UnlockMarked
  <1>9. CASE Event(r)
    <2>0. /\ pc[r] = "streaming" /\ pc'[r] = pc[r] /\ op'[r] = op[r]
          /\ sends'[r] = sends[r]
      BY <1>9 DEF Event
    <2>1. CASE req[r].committed
      <3>1. delivered'[r] = delivered[r] \cup {op[r].id} /\ req'[r] = req[r]
        BY <1>0, <1>9, <2>1 DEF Event, Deliver
      <3> QED BY <2>0, <2>1, <3>1 DEF LoopOK, Refusal, Chosen
    <2>2. CASE ~req[r].committed
      <3>1. req'[r] = [req[r] EXCEPT !.buffered = @ \cup {op[r].id}]
        BY <1>0, <1>9, <2>2 DEF Event
      <3>2. /\ req'[r].tried = req[r].tried /\ req'[r].committed = req[r].committed
            /\ req'[r].buffered = req[r].buffered \cup {op[r].id}
        BY <1>0, <3>1 DEF Loop
      <3>3. delivered'[r] = delivered[r]
        BY <1>9, <2>2 DEF Event
      <3> QED BY <2>0, <2>2, <3>2, <3>3 DEF LoopOK, Refusal, Chosen
    <2> QED BY <2>1, <2>2
  <1>10. CASE Output(r)
    <2>0. /\ pc[r] = "streaming" /\ pc'[r] = pc[r] /\ op'[r] = op[r]
          /\ sends'[r] = sends[r]
          /\ delivered'[r] = delivered[r] \cup (req[r].buffered \cup {op[r].id})
      BY <1>0, <1>10 DEF Output, Deliver
    <2>1. req'[r] = [req[r] EXCEPT !.committed = TRUE, !.buffered = {}]
      BY <1>0, <1>10 DEF Output
    <2>2. /\ req'[r].tried = req[r].tried /\ req'[r].committed
          /\ req'[r].buffered = {}
      BY <1>0, <2>1 DEF Loop
    <2> QED BY <2>0, <2>2 DEF LoopOK, Refusal, Chosen
  <1> QED BY <1>1, <1>2, <1>3, <1>4, <1>5, <1>6, <1>7, <1>8, <1>9, <1>10
          DEF StreamEnd

\* A step of another client, or of the environment short of a crash.
LEMMA LoopOthers ==
  ASSUME NEW r \in Requests, NEW c \in Clients \ {r}, TypeOK,
         \/ c \in Requests /\ (Begin(c) \/ Request(c) \/ Event(c) \/ Output(c))
         \/ c \in Commands /\ (Command(c) \/ \E id \in Ids :
               Login(c, id) \/ \E action \in {"switch", "remove"} : Manage(c, id, action))
  PROVE  LoopKept(r)
  <1> USE DEF TypeOK, At, Goto, Return, Hold, Changed, worldVars, auditVars,
              storeVars, LoopKept
  <1>1. CASE Update(c)
    BY <1>1 DEF Update, Acquire, WaitFails, ReadFails, Save, SaveFails,
                UnlockThrown, End, Clients
  <1>2. CASE c \in Requests /\ Select(c)
    BY <1>2 DEF Select, SelectNone, Selecting, UnlockRetry, UnlockUnselected,
                StartStream, SendRefresh, RefreshOk, RefreshFails, SelectReady,
                SelectExpired, FenceFails, Take, End, Clients
  <1>3. CASE /\ c \in Requests
             /\ \/ Begin(c) \/ NextAttempt(c) \/ GiveUp(c) \/ StreamEnd(c) \/ Mark(c)
                \/ UnlockMarked(c) \/ Event(c) \/ Output(c)
    BY <1>3 DEF Begin, NextAttempt, GiveUp, StreamEnd, Mark, UnlockMarked, Event,
                Output, Complete, StreamFails, Refused, Deliver, End, Clients
  <1>4. CASE /\ c \in Commands
             /\ \/ Add(c) \/ Switch(c) \/ Remove(c) \/ NoMatch(c) \/ UnlockManaged(c)
                \/ \E id \in Ids : \/ Login(c, id)
                                   \/ \E action \in {"switch", "remove"} :
                                         Manage(c, id, action)
    BY <1>4 DEF Add, Switch, Remove, NoMatch, UnlockManaged, Login, Manage, End,
                Clients
  <1> QED BY <1>1, <1>2, <1>3, <1>4 DEF Request, Command

LEMMA LoopEnvironment ==
  ASSUME NEW r \in Requests, TypeOK, LoopOK(r), Environment \/ UNCHANGED vars
  PROVE  LoopOK(r)'
  <1>0. r \in Clients
    BY DEF Clients
  <1>1. ASSUME NEW p \in Processes, Crash(p) PROVE LoopOK(r)'
    <2>1. delivered'[r] = delivered[r] /\ sends'[r] = sends[r]
      BY <1>1 DEF Crash, auditVars
    <2>2. \/ pc'[r] = pc[r] /\ op'[r] = op[r] /\ req'[r] = req[r]
          \/ pc'[r] = "dead" /\ op'[r] = NoOp /\ req'[r] = NoLoop
      BY <1>0, <1>1 DEF Crash
    <2>3. CASE pc'[r] = "dead" /\ op'[r] = NoOp /\ req'[r] = NoLoop
      BY <2>1, <2>3 DEF LoopOK, Refusal, Chosen, NoOp, NoLoop
    <2> QED BY <2>1, <2>2, <2>3, LoopFrame DEF LoopKept
  <1>2. CASE LoopKept(r)
    BY <1>2, LoopFrame
  <1> QED BY <1>1, <1>2
      DEF Environment, Tick, Restart, RemoveAbandonedLock, vars, storeVars,
          worldVars, auditVars, LoopKept

LEMMA LoopStep == IInv /\ RequestInv /\ [Next]_vars => RequestInv'
  <1> SUFFICES ASSUME IInv, RequestInv, [Next]_vars, NEW r \in Requests
               PROVE  LoopOK(r)'
    BY DEF RequestInv
  <1>0. TypeOK /\ LoopOK(r) /\ r \in Clients
    BY DEF IInv, RequestInv, Clients
  <1>1. CASE Begin(r) \/ Request(r) \/ Event(r) \/ Output(r)
    BY <1>0, <1>1, LoopUpdate, LoopSelect, LoopStream DEF Request
  <1>2. CASE Environment \/ UNCHANGED vars
    BY <1>0, <1>2, LoopEnvironment
  <1>3. ASSUME NEW c \in Clients \ {r},
               \/ c \in Requests /\ (Begin(c) \/ Request(c) \/ Event(c) \/ Output(c))
               \/ c \in Commands /\ (Command(c) \/ \E id \in Ids :
                     Login(c, id)
                     \/ \E action \in {"switch", "remove"} : Manage(c, id, action))
        PROVE  LoopOK(r)'
    BY <1>0, <1>3, LoopOthers, LoopFrame
  <1>4. r \notin Commands
    BY PoolAssumption
  <1> QED BY <1>1, <1>2, <1>3, <1>4 DEF Next, Start, Clients

LEMMA LoopInit == Init => RequestInv
  BY DEF Init, RequestInv, LoopOK, Refusal, Chosen, NoOp, NoLoop, Clients

\* Where every request stands in its loop.
THEOREM LoopsHold == Spec => []RequestInv
  <1>1. Init => IInv /\ RequestInv
    BY InitInvariant, LoopInit
  <1>2. IInv /\ RequestInv /\ [Next]_vars => (IInv /\ RequestInv)'
    BY StepInvariant, LoopStep
  <1> QED BY <1>1, <1>2, PTL DEF Spec

LEMMA OneOfAKind ==
  ASSUME NEW S, \A x, y \in S : x = y
  PROVE  Cardinality(S) <= 1
  <1>1. CASE S = {}
    BY <1>1, FS_EmptySet
  <1>2. CASE S # {}
    <2>1. PICK x \in S : TRUE
      BY <1>2
    <2>2. S = {x}
      BY <2>1
    <2> QED BY <2>2, FS_Singleton
  <1> QED BY <1>1, <1>2

\* stream.ts: a failover never fails on a file it built itself, never sends a
\* request twice with one account, and passes on the events of one attempt.
THEOREM FailoverIsSound == Spec => []FailoverSound
  <1>1. FileInv /\ RequestInv => FailoverSound
    <2> SUFFICES ASSUME FileInv, RequestInv PROVE FailoverSound
      OBVIOUS
    <2>1. SavesAreValid
      BY DEF FileInv, Faithful, SavesAreValid
    <2>2. AtMostOneAttempt
      BY DEF RequestInv, LoopOK, AtMostOneAttempt
    <2>3. \A r \in Requests : \A x, y \in delivered[r] : x = y
      BY DEF RequestInv, LoopOK
    <2>4. OneSource
      BY <2>3, OneOfAKind DEF OneSource
    <2> QED BY <2>1, <2>2, <2>4 DEF FailoverSound
  <1> QED BY <1>1, FilesHold, LoopsHold, PTL

\* stream.ts: once the consumer has seen anything of an attempt, the request is
\* not sent again.
THEOREM NothingIsReplayed == Spec => NoReplayAfterOutput
  <1> DEFINE Quiets == \A r \in Requests : delivered[r] # {} => sends'[r] = sends[r]
  <1>1. ASSUME IInv, RequestInv, [Next]_vars PROVE Quiets
    <2> SUFFICES ASSUME NEW r \in Requests, sends'[r] # sends[r]
                 PROVE  delivered[r] = {}
      OBVIOUS
    <2>0. TypeOK /\ LoopOK(r) /\ r \in Clients
      BY <1>1 DEF IInv, RequestInv, Clients
    <2>1. StartStream(r)
      <3>1. ASSUME NEW c \in Requests, StartStream(c) PROVE c = r
        BY <2>0, <3>1 DEF StartStream, TypeOK
      <3>2. sends' = sends \/ \E c \in Requests : StartStream(c)
        BY <1>1
           DEF Next, Start, Begin, Login, Manage, Request, Command, Update, Select,
               StreamEnd, Event, Output, Environment, Tick, Crash, Restart,
               RemoveAbandonedLock, Acquire, WaitFails, ReadFails, Save, SaveFails,
               UnlockThrown, NextAttempt, GiveUp, SelectNone, UnlockRetry,
               UnlockUnselected, SendRefresh, RefreshOk, RefreshFails, SelectReady,
               SelectExpired, FenceFails, Complete, StreamFails, Refused, Mark,
               UnlockMarked, Add, Switch, Remove, NoMatch, UnlockManaged, vars,
               auditVars
      <3> QED BY <3>1, <3>2
    <2>2. pc[r] = "unlocking" /\ op[r].job = "select"
      BY <2>1 DEF StartStream, At
    <2> QED BY <2>0, <2>2 DEF LoopOK, Refusal
  <1>2. IInv /\ RequestInv /\ [Next]_vars => [Quiets]_vars
    BY <1>1
  <1> QED BY <1>2, Inductive, LoopsHold, PTL DEF NoReplayAfterOutput, Spec
=============================================================================
