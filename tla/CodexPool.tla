------------------------------ MODULE CodexPool ------------------------------
(***************************************************************************)
(* The Codex account pool: the private account file shared by every Pi     *)
(* process, its lock directory, the failover loop of a request, and the    *)
(* account commands (extensions/codex-pool/store.ts, provider.ts,          *)
(* index.ts).                                                              *)
(*                                                                         *)
(* A client is one request stream or one account command.  Every await of  *)
(* a client is a step boundary; what runs between two awaits is one        *)
(* action.  The account file is replaced by an atomic rename, so a save is *)
(* one step, and a process may crash between any two steps.                *)
(***************************************************************************)
EXTENDS Naturals, FiniteSets

CONSTANTS
    Ids,        \* account identities
    Processes,      \* Pi processes that share the account file
    Sessions,   \* session ids (the stickiness key)
    Requests,   \* request streams
    Commands,   \* invocations of /codex-pool.accounts add|switch|remove
    ProcOf,     \* the process a client runs in
    SessionOf,  \* the session a request belongs to
    InitStore,  \* the account file when the processes start
    StickyCap,  \* bound of the sticky map (256 in the code)
    MinCooldown, DefaultCooldown,   \* 1 s and COOLDOWN_MS
    Hints,      \* reset instants the upstream may name
    MaxTok,     \* bound: credentials ever issued to one account
    MaxNow,     \* bound: the clock
    None        \* no account, no lock owner

Clients == Requests \cup Commands
Toks    == 0 .. MaxTok        \* 0 stands for "no credential"

\* An account record.  tok stands for its OAuth credential (each login or
\* refresh yields a new one), rank for its position in the accounts array.
Account == [tok: Toks, rank: 0 .. Cardinality(Ids), cooldown: Nat,
            needsLogin: BOOLEAN]
Absent  == [tok |-> 0, rank |-> 0, cooldown |-> 0, needsLogin |-> FALSE]
Store   == [acct: [Ids -> Account], preferred: Ids \cup {None}]
NoStore == [acct |-> [id \in Ids |-> Absent], preferred |-> None]

Linked(d) == {id \in Ids : d.acct[id].tok # 0}
\* The credentials of a file that may not be used before another login.
Locked(d) == {<<id, d.acct[id].tok>> : id \in {x \in Linked(d) : d.acct[x].needsLogin}}

\* validate(): the preferred account is one of the accounts.
Valid(d) == d.preferred # None => d.preferred \in Linked(d)

ASSUME PoolAssumption ==
    /\ IsFiniteSet(Ids)
    /\ None \notin Ids \cup Requests \cup Commands
    /\ Requests \cap Commands = {}
    /\ ProcOf \in [Clients -> Processes]
    /\ SessionOf \in [Requests -> Sessions]
    /\ StickyCap \in Nat \ {0}
    /\ MaxTok \in Nat \ {0} /\ MaxNow \in Nat
    /\ MinCooldown \in Nat \ {0} /\ DefaultCooldown \in Nat \ {0}
    /\ Hints \subseteq Nat

ASSUME InitStoreAssumption ==
    /\ InitStore \in Store
    /\ Valid(InitStore)

VARIABLES
    disk,       \* the account file
    lock,       \* the client that created <path>.lock, None when absent
    alive,      \* running processes
    pc,         \* where a client awaits
    op,         \* its update: what for, the outcome, the credential it holds
    mem,        \* the copy of the file its update has changed
    req,        \* the local state of a request's failover loop
    sticky,     \* per process: session -> account
    delivered,  \* per request: the attempts whose events were passed on
    now, issued,        \* the clock, the last credential of each account
    spends, sends,      \* times a refresh token, an account was used
    blamed              \* credentials fenced for a refresh or refused upstream

storeVars == <<disk, lock, mem>>
worldVars == <<now, issued>>
auditVars == <<delivered, spends, sends, blamed>>
vars == <<storeVars, alive, pc, op, req, sticky, worldVars, auditVars>>

Jobs == {"none", "select", "quota", "auth", "add", "switch", "remove"}
Results == {"none", "account", "retry", "thrown"}
Op   == [job: Jobs, res: Results, id: Ids \cup {None}, tok: Toks]
NoOp == [job |-> "none", res |-> "none", id |-> None, tok |-> 0]

\* committed: meaningful output was emitted; buffered: the attempts whose
\* events are still held back.
Loop   == [allowed: SUBSET Ids, tried: SUBSET Ids, committed: BOOLEAN,
           buffered: SUBSET Ids]
NoLoop == [allowed |-> {}, tried |-> {}, committed |-> FALSE, buffered |-> {}]

Points == {"idle", "loop", "want", "locked", "refreshing", "awaiting",
           "saving", "unlocking", "streaming", "done", "dead"}
\* Between the mkdir that takes the lock and the rm that releases it.
Critical == {"locked", "refreshing", "awaiting", "saving", "unlocking"}

Init ==
    /\ disk = InitStore
    /\ lock = None
    /\ alive = Processes
    /\ pc = [c \in Clients |-> "idle"]
    /\ op = [c \in Clients |-> NoOp]
    /\ mem = [c \in Clients |-> NoStore]
    /\ req = [c \in Clients |-> NoLoop]
    /\ sticky = [p \in Processes |-> [s \in Sessions |-> None]]
    /\ delivered = [r \in Requests |-> {}]
    /\ now = 0
    /\ issued = [id \in Ids |-> InitStore.acct[id].tok]
    /\ spends = [id \in Ids |-> [t \in Toks |-> 0]]
    /\ sends = [r \in Requests |-> [id \in Ids |-> 0]]
    /\ blamed = Locked(InitStore)

At(c, point) == ProcOf[c] \in alive /\ pc[c] = point
Goto(c, point) == pc' = [pc EXCEPT ![c] = point]
Return(c, result) == op' = [op EXCEPT ![c].res = result]
Hold(c, job, res, id, tok) ==
    op' = [op EXCEPT ![c] = [job |-> job, res |-> res, id |-> id, tok |-> tok]]

\* The client returns: its locals are gone.
End(c) ==
    /\ Goto(c, "done")
    /\ op' = [op EXCEPT ![c] = NoOp]
    /\ req' = [req EXCEPT ![c] = NoLoop]

-----------------------------------------------------------------------------
(* AccountStore.update: lock, read and fn, save, unlock.  Nobody writes the *)
(* file between the read and fn, so the actions at "locked" below do both.  *)

\* Mutant: mkdir with { recursive: true } finds an existing directory fine.
MkdirRecursive == TRUE
\* mkdir of the lock directory throws EEXIST when it is there.
MkdirSucceeds == lock = None

Acquire(c) ==
    /\ At(c, "want")
    /\ MkdirSucceeds
    /\ lock' = c
    /\ Goto(c, "locked")
    /\ UNCHANGED <<disk, mem, alive, op, req, sticky, worldVars, auditVars>>

\* Mutant: a lock wait without a deadline.
WaitsForEver == FALSE
GivesUpWaiting == TRUE

\* The wait throws: the signal fired, the deadline passed with the lock still
\* there, or mkdir failed otherwise.  The lock is left alone.
WaitFails(c) ==
    /\ At(c, "want")
    /\ GivesUpWaiting
    /\ End(c)
    /\ UNCHANGED <<storeVars, alive, sticky, worldVars, auditVars>>

\* The signal has fired, or read() rejects the file.
ReadFails(c) ==
    /\ At(c, "locked")
    /\ Return(c, "thrown")
    /\ Goto(c, "unlocking")
    /\ UNCHANGED <<storeVars, alive, req, sticky, worldVars, auditVars>>

\* fn has changed the copy of the file.
Changed(c, d) ==
    /\ mem' = [mem EXCEPT ![c] = d]
    /\ Goto(c, "saving")

\* save(): validation, then the atomic replacement of the file.  The signal
\* is not consulted here.
Save(c) ==
    /\ At(c, "saving")
    /\ Valid(mem[c])
    /\ disk' = mem[c]
    /\ mem' = [mem EXCEPT ![c] = NoStore]
    /\ Goto(c, "unlocking")
    /\ UNCHANGED <<lock, alive, op, req, sticky, worldVars, auditVars>>

SaveFails(c) ==
    /\ At(c, "saving")
    /\ mem' = [mem EXCEPT ![c] = NoStore]
    /\ Return(c, "thrown")
    /\ Goto(c, "unlocking")
    /\ UNCHANGED <<disk, lock, alive, req, sticky, worldVars, auditVars>>

\* What fn or save threw passes through the finally that unlocks.
UnlockThrown(c) ==
    /\ At(c, "unlocking")
    /\ op[c].res = "thrown"
    /\ lock' = None
    /\ End(c)
    /\ UNCHANGED <<disk, mem, alive, sticky, worldVars, auditVars>>

-----------------------------------------------------------------------------
(* A request: the failover loop of stream().  Its AbortSignal may fire at   *)
(* any time; each check of it may find it fired.                            *)

\* The unlocked read that fixes the accounts this request may use.
Begin(r) ==
    /\ At(r, "idle")
    /\ \/ /\ req' = [req EXCEPT ![r].allowed = Linked(disk)]
          /\ Goto(r, "loop")
          /\ op' = op
       \/ End(r)
    /\ UNCHANGED <<storeVars, alive, sticky, worldVars, auditVars>>

\* while (tried.size < allowed.size) ...
NextAttempt(r) ==
    /\ At(r, "loop")
    /\ Cardinality(req[r].tried) < Cardinality(req[r].allowed)
    /\ op' = [op EXCEPT ![r].job = "select"]
    /\ Goto(r, "want")
    /\ UNCHANGED <<storeVars, alive, req, sticky, worldVars, auditVars>>

\* ... the pool is exhausted, or the request was cancelled.
GiveUp(r) ==
    /\ At(r, "loop")
    /\ End(r)
    /\ UNCHANGED <<storeVars, alive, sticky, worldVars, auditVars>>

Available(r) ==
    {id \in (req[r].allowed \ req[r].tried) \cap Linked(disk) :
        ~disk.acct[id].needsLogin /\ disk.acct[id].cooldown <= now}

\* The session's sticky account, else the preferred one, else the first.
Choice(r, a) ==
    LET free == Available(r)
        pin  == sticky[ProcOf[r]][SessionOf[r]]
    IN  /\ a \in free
        /\ IF pin \in free THEN a = pin
           ELSE IF disk.preferred \in free THEN a = disk.preferred
           ELSE \A b \in free : disk.acct[a].rank <= disk.acct[b].rank

Selecting(r) == At(r, "locked") /\ op[r].job = "select"

SelectNone(r) ==
    /\ Selecting(r)
    /\ Available(r) = {}
    /\ Changed(r, disk)
    /\ UNCHANGED <<disk, lock, alive, op, req, sticky, worldVars, auditVars>>

\* Mutant: the account is not recorded as tried.
Untried(r, a) == req[r].tried
\* tried.add(account.id)
Tried(r, a) == req[r].tried \cup {a}

Take(r, a) ==
    /\ Selecting(r)
    /\ Choice(r, a)
    /\ req' = [req EXCEPT ![r].tried = Tried(r, a)]

SelectReady(r, a) ==
    /\ Take(r, a)
    /\ Hold(r, "select", "account", a, disk.acct[a].tok)
    /\ Changed(r, disk)
    /\ UNCHANGED <<disk, lock, alive, sticky, worldVars, auditVars>>

\* Mutant: the file is not marked before the exchange.
Unfenced(d, a) == d
\* account.needsLogin = true, whatever it was.
Fence(d, a) == [d EXCEPT !.acct[a].needsLogin = TRUE]

\* The access token has expired: needsLogin is persisted before the exchange.
SelectExpired(r, a) ==
    /\ Take(r, a)
    /\ Hold(r, "select", "none", a, disk.acct[a].tok)
    /\ disk' = Fence(disk, a)
    /\ mem' = [mem EXCEPT ![r] = disk']
    /\ blamed' = blamed \cup {<<a, disk.acct[a].tok>>}
    /\ Goto(r, "refreshing")
    /\ UNCHANGED <<lock, alive, sticky, worldVars, delivered, spends, sends>>

\* ... and that save throws.
FenceFails(r, a) ==
    /\ Take(r, a)
    /\ Return(r, "thrown")
    /\ Goto(r, "unlocking")
    /\ UNCHANGED <<storeVars, alive, sticky, worldVars, auditVars>>

\* oauth.refresh hands the refresh token to the authorisation server, which
\* may rotate it whether or not the answer arrives.
SendRefresh(r) ==
    /\ At(r, "refreshing")
    /\ spends' = [spends EXCEPT ![op[r].id][op[r].tok] = @ + 1]
    /\ Goto(r, "awaiting")
    /\ UNCHANGED <<storeVars, alive, op, req, sticky, worldVars, delivered,
                   sends, blamed>>

\* account.credential = refreshed; delete account.needsLogin
Renewed(d, a, t) ==
    [d EXCEPT !.acct[a] = [@ EXCEPT !.tok = t, !.needsLogin = FALSE]]

RefreshOk(r) ==
    /\ At(r, "awaiting")
    /\ LET a == op[r].id
           t == issued[a] + 1
       IN  /\ t <= MaxTok
           /\ issued' = [issued EXCEPT ![a] = t]
           /\ Hold(r, "select", "account", a, t)
           /\ Changed(r, Renewed(mem[r], a, t))
    /\ UNCHANGED <<disk, lock, alive, req, sticky, now, auditVars>>

\* Mutant: a failed exchange gives the account back for another try.
GiveBack(d, a) == [d EXCEPT !.acct[a].needsLogin = FALSE]
\* The catch: fail closed until the next login.
FailClosed(d, a) == Fence(d, a)

\* Refused, timed out, aborted, lost, or another identity came back: the
\* account stays fenced in the copy that is saved next.
RefreshFails(r) ==
    /\ At(r, "refreshing") \/ At(r, "awaiting")
    /\ Return(r, "retry")
    /\ Changed(r, FailClosed(mem[r], op[r].id))
    /\ UNCHANGED <<disk, lock, alive, req, sticky, worldVars, auditVars>>

\* select() returned no account because a refresh failed: the next one.
UnlockRetry(r) ==
    /\ At(r, "unlocking")
    /\ op[r].job = "select" /\ op[r].res = "retry"
    /\ lock' = None
    /\ op' = [op EXCEPT ![r] = NoOp]
    /\ Goto(r, "loop")
    /\ UNCHANGED <<disk, mem, alive, req, sticky, worldVars, auditVars>>

\* select() found no account, or the signal has fired.
UnlockUnselected(r) ==
    /\ At(r, "unlocking")
    /\ op[r].job = "select" /\ op[r].res # "thrown"
    /\ lock' = None
    /\ End(r)
    /\ UNCHANGED <<disk, mem, alive, sticky, worldVars, auditVars>>

\* remember(): pin the session, evicting another one above the cap.
Remember(p, s, a) ==
    LET pinned == {x \in Sessions \ {s} : sticky[p][x] # None}
    IN  IF Cardinality(pinned) < StickyCap
        THEN sticky' = [sticky EXCEPT ![p][s] = a]
        ELSE \E x \in pinned :
                sticky' = [sticky EXCEPT ![p][s] = a, ![p][x] = None]

\* select() returned an account: remember it and start the upstream request.
\* The continuation runs before any other I/O callback of the process.
StartStream(r) ==
    /\ At(r, "unlocking")
    /\ op[r].job = "select" /\ op[r].res = "account"
    /\ lock' = None
    /\ Remember(ProcOf[r], SessionOf[r], op[r].id)
    /\ sends' = [sends EXCEPT ![r][op[r].id] = @ + 1]
    /\ Goto(r, "streaming")
    /\ UNCHANGED <<disk, mem, alive, op, req, worldVars, delivered, spends,
                   blamed>>

Deliver(r, attempts) ==
    delivered' = [delivered EXCEPT ![r] = @ \cup attempts]

\* A stream event that carries no output: held back until something does.
Event(r) ==
    /\ At(r, "streaming")
    /\ IF req[r].committed
       THEN Deliver(r, {op[r].id}) /\ req' = req
       ELSE /\ req' = [req EXCEPT ![r].buffered = @ \cup {op[r].id}]
            /\ delivered' = delivered
    /\ UNCHANGED <<storeVars, alive, pc, op, sticky, worldVars, spends, sends,
                   blamed>>

\* The first meaningful event commits the attempt and flushes the buffer.
Output(r) ==
    /\ At(r, "streaming")
    /\ Deliver(r, req[r].buffered \cup {op[r].id})
    /\ req' = [req EXCEPT ![r].committed = TRUE, ![r].buffered = {}]
    /\ UNCHANGED <<storeVars, alive, pc, op, sticky, worldVars, spends, sends,
                   blamed>>

\* The terminal event is "done".
Complete(r) ==
    /\ At(r, "streaming")
    /\ Deliver(r, req[r].buffered \cup {op[r].id})
    /\ End(r)
    /\ UNCHANGED <<storeVars, alive, sticky, worldVars, spends, sends, blamed>>

\* The signal has fired, or the upstream failed for another reason than
\* quota or authorisation: no other account is tried.
StreamFails(r) ==
    /\ At(r, "streaming")
    /\ End(r)
    /\ UNCHANGED <<storeVars, alive, sticky, worldVars, auditVars>>

\* The upstream refuses the account, and the error may itself carry output.
Refused(r, kind) ==
    /\ At(r, "streaming")
    /\ \E carries \in BOOLEAN :
          req' = [req EXCEPT ![r].committed = @ \/ carries]
    /\ Hold(r, kind, "none", op[r].id, op[r].tok)
    /\ Goto(r, "want")
    /\ blamed' = IF kind = "auth" THEN blamed \cup {<<op[r].id, op[r].tok>>}
                 ELSE blamed
    /\ UNCHANGED <<storeVars, alive, sticky, worldVars, delivered, spends,
                   sends>>

\* cooldownUntil(): the latest of the named reset instants, DefaultCooldown
\* from now when none is named, and never less than MinCooldown from now.
CooldownUntil(t, hints) ==
    LET asked == IF hints = {} THEN {t + DefaultCooldown} ELSE hints
        deadlines == asked \cup {t + MinCooldown}
    IN  {until \in deadlines : \A x \in deadlines : until >= x}

\* Mutant: only an account that was removed is left alone.
Gone(r) == op[r].id \notin Linked(disk)
\* !current || current.credential.refresh !== account.credential.refresh
Stale(r) == disk.acct[op[r].id].tok # op[r].tok

\* Mutant: the last answer wins.
Latest(x, y) == y
\* Math.max(current.cooldownUntil ?? 0, until)
Longest(x, y) == IF x >= y THEN x ELSE y

\* The fn of the error path: an answer to an old credential changes nothing.
Mark(r) ==
    /\ At(r, "locked")
    /\ op[r].job \in {"quota", "auth"}
    /\ LET a == op[r].id
       IN  \/ Stale(r) /\ Changed(r, disk)
           \/ /\ ~Stale(r) /\ op[r].job = "auth"
              /\ Changed(r, Fence(disk, a))
           \/ /\ ~Stale(r) /\ op[r].job = "quota"
              /\ \E hints \in SUBSET Hints :
                 \E until \in CooldownUntil(now, hints) :
                    Changed(r, [disk EXCEPT !.acct[a].cooldown =
                               Longest(disk.acct[a].cooldown, until)])
    /\ UNCHANGED <<disk, lock, alive, op, req, sticky, worldVars, auditVars>>

\* Mutant: committed is not consulted after the account was marked.
AlwaysReplayable(r) == TRUE
Replayable(r) == ~req[r].committed

\* Mutant: the buffer is not emptied for the next attempt.
StillHeld(r) == req[r].buffered
\* buffered.length = 0
HeldForNext(r) == {}

\* After output there is no replay; before it the next account is tried.
UnlockMarked(r) ==
    /\ At(r, "unlocking")
    /\ op[r].job \in {"quota", "auth"} /\ op[r].res # "thrown"
    /\ lock' = None
    /\ \/ req[r].committed /\ End(r)
       \/ /\ Replayable(r)
          /\ req' = [req EXCEPT ![r].buffered = HeldForNext(r)]
          /\ op' = [op EXCEPT ![r] = NoOp]
          /\ Goto(r, "loop")
    /\ UNCHANGED <<disk, mem, alive, sticky, worldVars, auditVars>>

-----------------------------------------------------------------------------
(* The account commands.                                                   *)

\* add: the OAuth login yields a credential before the store is touched.
Login(a, id) ==
    /\ At(a, "idle")
    /\ issued[id] < MaxTok
    /\ issued' = [issued EXCEPT ![id] = @ + 1]
    /\ Hold(a, "add", "none", id, issued[id] + 1)
    /\ Goto(a, "want")
    /\ UNCHANGED <<storeVars, alive, req, sticky, now, auditVars>>

Manage(a, id, action) ==
    /\ At(a, "idle")
    /\ Hold(a, action, "none", id, 0)
    /\ Goto(a, "want")
    /\ UNCHANGED <<storeVars, alive, req, sticky, worldVars, auditVars>>

\* Mutant: findIndex is not consulted, the account is always pushed.
Pushed(id) == Cardinality(Linked(disk)) + 1
\* accounts[index] when the account is there, push otherwise.
Position(id) == IF id \in Linked(disk) THEN disk.acct[id].rank
                ELSE Cardinality(Linked(disk)) + 1

\* add(): replace the account in place, or push it at the end.
Add(a) ==
    /\ At(a, "locked") /\ op[a].job = "add"
    /\ LET id == op[a].id
           entry == [tok |-> op[a].tok, rank |-> Position(id), cooldown |-> 0,
                     needsLogin |-> FALSE]
       IN  Changed(a, [acct |-> [disk.acct EXCEPT ![id] = entry],
                       preferred |-> IF disk.preferred = None THEN id
                                     ELSE disk.preferred])
    /\ UNCHANGED <<disk, lock, alive, op, req, sticky, worldVars, auditVars>>

Switch(a) ==
    /\ At(a, "locked") /\ op[a].job = "switch"
    /\ op[a].id \in Linked(disk)
    /\ Changed(a, [disk EXCEPT !.preferred = op[a].id])
    /\ UNCHANGED <<disk, lock, alive, op, req, sticky, worldVars, auditVars>>

\* accounts.filter((a) => a.id !== id): those behind it move up.
Without(acct, id) ==
    [x \in Ids |->
        IF x = id THEN Absent
        ELSE IF acct[x].rank > acct[id].rank
        THEN [acct[x] EXCEPT !.rank = @ - 1] ELSE acct[x]]

\* accounts[0]?.id of what is left.
IsFirst(x, d) ==
    IF Linked(d) = {} THEN x = None
    ELSE x \in Linked(d) /\ d.acct[x].rank = 1

\* Mutant: the removed account stays preferred.
KeepsPreferred(heir, id, left) == heir = disk.preferred
Inherits(heir, id, left) ==
    IF disk.preferred = id THEN IsFirst(heir, left) ELSE heir = disk.preferred

Remove(a) ==
    /\ At(a, "locked") /\ op[a].job = "remove"
    /\ op[a].id \in Linked(disk)
    /\ LET left == [disk EXCEPT !.acct = Without(disk.acct, op[a].id)]
       IN  \E heir \in Ids \cup {None} :
              /\ Inherits(heir, op[a].id, left)
              /\ Changed(a, [left EXCEPT !.preferred = heir])
    /\ UNCHANGED <<disk, lock, alive, op, req, sticky, worldVars, auditVars>>

\* No account matches the id given.
NoMatch(a) ==
    /\ At(a, "locked") /\ op[a].job \in {"switch", "remove"}
    /\ op[a].id \notin Linked(disk)
    /\ Return(a, "thrown")
    /\ Goto(a, "unlocking")
    /\ UNCHANGED <<storeVars, alive, req, sticky, worldVars, auditVars>>

\* The command ends; switch and remove also forget the process's pins.
UnlockManaged(a) ==
    /\ At(a, "unlocking")
    /\ op[a].job \in {"add", "switch", "remove"} /\ op[a].res # "thrown"
    /\ lock' = None
    /\ sticky' = IF op[a].job = "add" THEN sticky
                 ELSE [sticky EXCEPT ![ProcOf[a]] = [s \in Sessions |-> None]]
    /\ End(a)
    /\ UNCHANGED <<disk, mem, alive, worldVars, auditVars>>

-----------------------------------------------------------------------------
(* The environment.                                                        *)

Tick ==
    /\ now < MaxNow
    /\ now' = now + 1
    /\ UNCHANGED <<storeVars, alive, pc, op, req, sticky, issued, auditVars>>

\* A killed process loses its memory; a lock it holds stays on disk.
Crash(p) ==
    /\ p \in alive
    /\ alive' = alive \ {p}
    /\ LET victims == {c \in Clients :
                          ProcOf[c] = p /\ pc[c] \notin {"idle", "done"}}
       IN  /\ pc' = [c \in Clients |-> IF c \in victims THEN "dead" ELSE pc[c]]
           /\ op' = [c \in Clients |-> IF c \in victims THEN NoOp ELSE op[c]]
           /\ req' = [c \in Clients |-> IF c \in victims THEN NoLoop ELSE req[c]]
           /\ mem' = [c \in Clients |-> IF c \in victims THEN NoStore ELSE mem[c]]
    /\ sticky' = [sticky EXCEPT ![p] = [s \in Sessions |-> None]]
    /\ UNCHANGED <<disk, lock, worldVars, auditVars>>

Restart(p) ==
    /\ p \notin alive
    /\ alive' = alive \cup {p}
    /\ UNCHANGED <<storeVars, pc, op, req, sticky, worldVars, auditVars>>

\* The README's recovery: with no Pi process running, remove the lock.
RemoveAbandonedLock ==
    /\ lock # None
    /\ alive = {}
    /\ lock' = None
    /\ UNCHANGED <<disk, mem, alive, pc, op, req, sticky, worldVars, auditVars>>

-----------------------------------------------------------------------------
Update(c) ==
    \/ Acquire(c) \/ WaitFails(c) \/ ReadFails(c)
    \/ Save(c) \/ SaveFails(c) \/ UnlockThrown(c)

Select(r) ==
    \/ SelectNone(r) \/ UnlockRetry(r) \/ UnlockUnselected(r) \/ StartStream(r)
    \/ SendRefresh(r) \/ RefreshOk(r) \/ RefreshFails(r)
    \/ \E a \in Ids :
          SelectReady(r, a) \/ SelectExpired(r, a) \/ FenceFails(r, a)

\* The last word of the upstream on an attempt.
StreamEnd(r) ==
    \/ Complete(r) \/ StreamFails(r)
    \/ \E kind \in {"quota", "auth"} : Refused(r, kind)

Request(r) ==
    \/ Update(r) \/ NextAttempt(r) \/ GiveUp(r) \/ Select(r) \/ StreamEnd(r)
    \/ Mark(r) \/ UnlockMarked(r)

Command(a) ==
    \/ Update(a) \/ Add(a) \/ Switch(a) \/ Remove(a) \/ NoMatch(a)
    \/ UnlockManaged(a)

Start(c) ==
    \/ c \in Requests /\ Begin(c)
    \/ c \in Commands /\ \E id \in Ids :
          \/ Login(c, id)
          \/ \E action \in {"switch", "remove"} : Manage(c, id, action)

Environment ==
    \/ Tick
    \/ \E p \in Processes : Crash(p) \/ Restart(p)
    \/ RemoveAbandonedLock

Next ==
    \/ \E c \in Clients : Start(c)
    \/ \E r \in Requests : Request(r) \/ Event(r) \/ Output(r)
    \/ \E a \in Commands : Command(a)
    \/ Environment

Spec == Init /\ [][Next]_vars

\* The event loop runs every continuation, lock waits and refreshes time
\* out, and the SDK ends every stream: a client that has started moves on.
\* Users, crashes and the clock owe nothing.
Fairness ==
    /\ \A r \in Requests : WF_vars(Request(r))
    /\ \A a \in Commands : WF_vars(Command(a))

FairSpec == Spec /\ Fairness

-----------------------------------------------------------------------------
(* Properties.                                                             *)

\* Every variable stays in its type.
TypeOK ==
    /\ disk \in Store
    /\ lock \in Clients \cup {None}
    /\ alive \subseteq Processes
    /\ pc \in [Clients -> Points]
    /\ op \in [Clients -> Op]
    /\ mem \in [Clients -> Store]
    /\ req \in [Clients -> Loop]
    /\ sticky \in [Processes -> [Sessions -> Ids \cup {None}]]
    /\ delivered \in [Requests -> SUBSET Ids]
    /\ now \in Nat
    /\ issued \in [Ids -> Toks]
    /\ spends \in [Ids -> [Toks -> Nat]]
    /\ sends \in [Requests -> [Ids -> Nat]]
    /\ blamed \subseteq Ids \X Toks

\* Between taking the lock and releasing it, the lock directory is the
\* client's own: the rm in update's finally never removes another's lock.
LockExclusion == \A c \in Clients : pc[c] \in Critical => lock = c

\* "The stale token will never be re-used": an account whose refresh token
\* has been handed to the authorisation server is on disk as needsLogin,
\* whatever crashed or failed to save since.
SpentNeverUsable ==
    \A id \in Linked(disk) :
        spends[id][disk.acct[id].tok] > 0 => disk.acct[id].needsLogin

\* No refresh token is handed to the authorisation server twice.
NoDoubleSpend == \A id \in Ids, t \in Toks : spends[id][t] <= 1

\* An account asks for login only because its own credential was refused or
\* its own refresh was started: a late answer to an older credential never
\* invalidates a newer login.
NeedsLoginJustified == Locked(disk) \subseteq blamed

\* A save touches only the account its update worked on (removal also moves
\* the others up): no client undoes what another wrote since it read.
SavesOneAccount ==
    \A c \in Clients :
       pc[c] = "saving" /\ disk' # disk =>
           \A id \in Ids \ {op[c].id} :
              [disk'.acct[id] EXCEPT !.rank = 0]
                 = [disk.acct[id] EXCEPT !.rank = 0]
NoLostUpdate == [][SavesOneAccount]_vars

\* What an update is about to save passes save()'s own validation, so no
\* command or request fails on a file it built itself.
SavesAreValid == \A c \in Clients : pc[c] = "saving" => Valid(mem[c])

\* While an account keeps its credential its cooldown never shrinks, in
\* whatever order quota answers and refreshes are recorded.
CooldownKept ==
    \A id \in Linked(disk) :
       disk'.acct[id].tok = disk.acct[id].tok =>
           disk'.acct[id].cooldown >= disk.acct[id].cooldown
CooldownMonotone == [][CooldownKept]_vars

\* "At most one attempt per account": across failovers, refreshes and
\* re-logins a request is sent with an account at most once.
AtMostOneAttempt == \A r \in Requests, id \in Ids : sends[r][id] <= 1

\* The consumer sees the events of one attempt only.
OneSource == \A r \in Requests : Cardinality(delivered[r]) <= 1

\* What a failover must keep: no save is refused, no account is tried twice, and
\* the consumer sees one attempt.
FailoverSound == SavesAreValid /\ AtMostOneAttempt /\ OneSource

\* Once the consumer has seen anything, the request is never sent again.
NoReplayAfterOutput ==
    [][\A r \in Requests : delivered[r] # {} => sends'[r] = sends[r]]_vars

\* A client that has started ends, or dies with its process: failover ends,
\* and an abandoned lock blocks nobody for ever.
Terminates ==
    \A c \in Clients : pc[c] \notin {"idle"} ~> pc[c] \in {"done", "dead"}

-----------------------------------------------------------------------------
(* The inductive invariant behind the token properties.                    *)

\* A login whose credential is not in the file yet.
Pending(a) == op[a].job = "add" /\ pc[a] \in {"want", "locked"}

\* Every credential in use was issued, and no other has been spent.
IssuedOK ==
    /\ \A id \in Ids :
          /\ disk.acct[id].tok <= issued[id]
          /\ \A c \in Clients : mem[c].acct[id].tok <= issued[id]
          /\ \A t \in Toks : t > issued[id] => spends[id][t] = 0
    /\ \A c \in Clients : op[c].id \in Ids => op[c].tok <= issued[op[c].id]

\* A client that waits for a refresh works on the file as it is; the account
\* it refreshes is fenced there, and spent exactly when the token was sent.
RefreshOK ==
    \A c \in Clients : pc[c] \in {"refreshing", "awaiting"} =>
        /\ mem[c] = disk
        /\ op[c].id \in Linked(disk)
        /\ disk.acct[op[c].id].tok = op[c].tok
        /\ disk.acct[op[c].id].needsLogin
        /\ pc[c] = "refreshing" => spends[op[c].id][op[c].tok] = 0

\* SpentNeverUsable for what is about to be saved.
SavingOK ==
    \A c \in Clients : \A id \in Linked(mem[c]) :
        pc[c] = "saving" /\ spends[id][mem[c].acct[id].tok] > 0
            => mem[c].acct[id].needsLogin

\* The credential of a pending login is unspent and its command's alone.
PendingOK ==
    \A a \in Clients : Pending(a) =>
        /\ op[a].id \in Ids /\ op[a].tok # 0
        /\ spends[op[a].id][op[a].tok] = 0
        /\ disk.acct[op[a].id].tok # op[a].tok
        /\ \A c \in Clients : mem[c].acct[op[a].id].tok # op[a].tok
        /\ \A b \in Clients \ {a} :
              Pending(b) /\ op[b].id = op[a].id => op[b].tok # op[a].tok

\* A client that streams, is about to, or marks an account holds one.
HoldsAccount ==
    \A c \in Clients :
        \/ pc[c] = "streaming"
        \/ op[c].res = "account"
        \/ op[c].job \in {"quota", "auth"}
        => op[c].id \in Ids

\* A client between two steps runs in a live process.
RunsAlive ==
    \A c \in Clients :
        pc[c] \notin {"idle", "done", "dead"} => ProcOf[c] \in alive

\* What every step preserves: the token properties and what they rest on.
IInv ==
    /\ TypeOK /\ LockExclusion /\ SpentNeverUsable /\ NoDoubleSpend
    /\ RunsAlive /\ IssuedOK /\ RefreshOK /\ SavingOK /\ PendingOK
    /\ HoldsAccount

-----------------------------------------------------------------------------
(* The inductive invariants behind the properties of updates and failover.  *)

\* A copy d in which the account id was worked on: it is valid, it is the file in
\* every other account, it shortens no cooldown, and who asks for login in it
\* was refused.
Faithful(d, id) ==
    /\ Valid(d)
    /\ Locked(d) \subseteq blamed
    /\ \A x \in Ids \ {id} :
          /\ d.acct[x].tok = disk.acct[x].tok
          /\ d.acct[x].cooldown = disk.acct[x].cooldown
          /\ d.acct[x].needsLogin = disk.acct[x].needsLogin
    /\ \A x \in Linked(disk) :
          d.acct[x].tok = disk.acct[x].tok
              => d.acct[x].cooldown >= disk.acct[x].cooldown

FileInv ==
    /\ Valid(disk) /\ NeedsLoginJustified
    /\ \A c \in Clients :
          /\ pc[c] = "saving" => Faithful(mem[c], op[c].id)
          /\ op[c].job = "auth" => <<op[c].id, op[c].tok>> \in blamed

\* A request that marks an account after the upstream refused it.
Refusal(r) == op[r].job \in {"quota", "auth"}

\* A request that is about to send, or may come to it: its account is new to it.
Chosen(r) ==
    \/ pc[r] \in {"refreshing", "awaiting"}
    \/ /\ pc[r] \in {"saving", "unlocking"}
       /\ op[r].job = "select" /\ op[r].res = "account"

\* Where a request stands in its loop, against what it sent and passed on.
LoopOK(r) ==
    /\ pc[r] \in {"idle", "loop"} => op[r] = NoOp
    /\ pc[r] \in {"want", "locked"} => op[r].res = "none"
    /\ pc[r] # "streaming" /\ ~Refusal(r) =>
          ~req[r].committed /\ req[r].buffered = {}
    /\ req[r].buffered \subseteq {op[r].id}
    /\ pc[r] \notin {"done", "dead"} =>
          /\ req[r].committed \/ delivered[r] = {}
          /\ delivered[r] \subseteq {op[r].id}
          /\ \A id \in Ids \ req[r].tried : sends[r][id] = 0
    /\ Chosen(r) => sends[r][op[r].id] = 0 /\ op[r].id \in req[r].tried
    /\ pc[r] \in {"refreshing", "awaiting"} => op[r].job = "select"
    /\ \A x, y \in delivered[r] : x = y
    /\ \A id \in Ids : sends[r][id] <= 1

RequestInv == \A r \in Requests : LoopOK(r)
=============================================================================
