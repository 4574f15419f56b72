----------------------------- MODULE GoalStore -----------------------------
(***************************************************************************)
(* The store of goal records shared by Pi processes (extensions/goal:      *)
(* goal-service.ts, storage/goal-files.ts, storage/goal-lock.ts, and the   *)
(* handlers of goal-state.ts, goal-events.ts, goal-commands.ts and         *)
(* goal-completion.ts that write through them).                            *)
(*                                                                         *)
(* A goal is one file with a revision.  A session keeps the record of its  *)
(* focused goal, a copy of the pool that only its own writes invalidate,   *)
(* and the transaction of the current turn.  A handler is a sequence of    *)
(* calls (todo).  A call that writes takes the lock of the goal, reads and *)
(* compares the file, writes it, brings the pool snapshot up to date and   *)
(* releases: four steps between which other processes run.                 *)
(***************************************************************************)
EXTENDS Naturals, Sequences, FiniteSets

CONSTANTS
    Sessions,    \* Pi processes, one session each
    Goals,       \* goals in the pool
    Edits,       \* mutations that sessions may make, each once
    Complete,    \* the edit that marks its goal complete
    Instances,   \* bounds, of which a behaviour takes one: the handlers that
                 \* run, the edits, the goal that each session has in focus
                 \* (None: no such session), how many tokens are charged and
                 \* processes die, and the revision at which nothing starts
    None         \* absent

Handlers == {"turn", "tool", "toolEnd", "complete", "agentEnd", "command",
             "clear", "compact", "startSession"}

StoreAssumption ==
    /\ IsFiniteSet(Sessions) /\ IsFiniteSet(Goals) /\ IsFiniteSet(Edits)
    /\ Instances \subseteq [handlers: SUBSET Handlers, edits: SUBSET Edits,
                            focus: [Sessions -> Goals \cup {None}],
                            tokens: Nat, crashes: Nat, revs: Nat]
    /\ None \notin Sessions \cup Goals \cup Edits

\* done is the set of the edits in the record, used its usage.
Record == [rev: Nat, done: SUBSET Edits, used: Nat]
Pool   == [Goals -> Record \cup {None}]

Turn == [open: BOOLEAN, goal: Record \cup {None}, base: Record \cup {None},
         archive: BOOLEAN]
NoTurn == [open |-> FALSE, goal |-> None, base |-> None, archive |-> FALSE]

\* Calls.  tidy: the mutation reconciles the focused record first.
Call(c)         == [call |-> c, edit |-> None, tidy |-> FALSE]
Apply(e, tidy)  == [call |-> "apply", edit |-> e, tidy |-> tidy]
UpdateTask(e)   == [call |-> "task", edit |-> e, tidy |-> TRUE]

VARIABLES
    inst,     \* the instance
    file,     \* active goal files
    archived, \* archived goal files
    snap,     \* the pool snapshot file
    lock,     \* holder of each goal's lock file
    ses,      \* each session's memory; None once its process died
    host,     \* TRUE while the session's Pi host is in a turn
    fate,     \* history: what the caller of each edit was told
    charged,  \* history: usage charged to each goal
    crashes

gsvars == <<inst, file, archived, snap, lock, ses, host, fate, charged, crashes>>

TypeOK ==
    /\ file \in Pool /\ archived \in Pool /\ snap \in Pool \cup {None}
    /\ lock \in [Goals -> Sessions \cup {None}]
    /\ \A s \in Sessions : ses[s] # None =>
          /\ ses[s].id \in Goals /\ ses[s].goal \in Record \cup {None}
          /\ ses[s].cache \in Pool \cup {None}
          /\ ses[s].base \in Nat \cup {None} /\ ses[s].turn \in Turn
          /\ ses[s].pc \in {"idle", "held", "wrote"}
          /\ ses[s].audit \in Record \cup {None}
    /\ host \in [Sessions -> BOOLEAN]
    /\ charged \in [Goals -> 0 .. inst.tokens]

---------------------------------------------------------------------------
IsComplete(r) == r # None /\ Complete \in r.done
Greater(a, b) == IF a > b THEN a ELSE b
Over(a, b)    == IF a > b THEN a - b ELSE 0

Open(pool) == [g \in Goals |-> IF IsComplete(pool[g]) THEN None ELSE pool[g]]

\* A cold read serves the snapshot while it names the files there are, and
\* scans them otherwise; a warm one does not look at the disk.
SameNames  == snap # None /\ \A g \in Goals : (snap[g] = None) = (file[g] = None)
ColdRead   == Open(IF SameNames THEN snap ELSE file)
PoolView(m) == IF m.cache # None THEN m.cache ELSE ColdRead
SnapAfterRead(m) == IF m.cache = None /\ ~SameNames THEN Open(file) ELSE snap

Buffered(m) == m.turn.open /\ m.turn.goal # None

ReconcileFocused(m, preserve) ==
    LET pool == PoolView(m)
        disk == IF Buffered(m) THEN m.turn.goal ELSE pool[m.id]
        keep == [disk EXCEPT !.used = Greater(@, m.goal.used)]
        new  == IF preserve THEN keep ELSE disk
    IN  IF m.goal = None \/ m.goal = disk THEN [m EXCEPT !.cache = pool]
        ELSE IF disk = None THEN [m EXCEPT !.cache = pool, !.goal = None]
        ELSE [m EXCEPT !.cache = pool, !.goal = new, !.base = new.used]

\* The record with an edit made (none for a plain write).
Mutated(r, e) == [rev |-> r.rev + 1, used |-> r.used,
                  done |-> r.done \cup ({e} \ {None})]

Pending(s, e) == fate[e].is = "pending" /\ fate[e].by = s
FateIf(e, f)  == IF e = None THEN fate ELSE [fate EXCEPT ![e].is = f]
Settle(s, saved, otherwise) == [e \in Edits |->
    IF ~Pending(s, e) THEN fate[e]
    ELSE [by |-> s, is |-> IF e \in saved THEN "saved" ELSE otherwise]]

---------------------------------------------------------------------------
NewSession(g, r) ==
    [id |-> g, goal |-> r, cache |-> None, base |-> None, turn |-> NoTurn,
     todo |-> <<>>, pc |-> "idle", out |-> None, read |-> None,
     failed |-> FALSE, audit |-> None]

\* goalService.create wrote each goal, and every session has loaded the pool.
Init ==
    LET new == [rev |-> 1, done |-> {}, used |-> 0]
    IN  /\ file = [g \in Goals |-> new] /\ snap = file
        /\ archived = [g \in Goals |-> None]
        /\ lock = [g \in Goals |-> None]
        /\ inst \in Instances
        /\ ses = [s \in Sessions |->
                     IF inst.focus[s] = None THEN None
                     ELSE [NewSession(inst.focus[s], new) EXCEPT !.cache = file]]
        /\ host = [s \in Sessions |-> FALSE]
        /\ fate = [e \in Edits |-> [is |-> "new", by |-> None]]
        /\ charged = [g \in Goals |-> 0]
        /\ crashes = 0

disk == <<inst, file, archived, lock>>

---------------------------------------------------------------------------
(* Handlers: what they call, in order.                                     *)

Calls(s, handler, calls) ==
    /\ handler \in inst.handlers
    /\ ses[s] # None /\ ses[s].pc = "idle" /\ ses[s].todo = <<>>
    /\ file[ses[s].id] # None => file[ses[s].id].rev < inst.revs
    /\ ses' = [ses EXCEPT ![s].todo = calls]
    /\ UNCHANGED <<disk, snap, charged, crashes>>

Quiet == UNCHANGED <<host, fate>>
Asked(s, e) == /\ e \in inst.edits /\ fate[e].is = "new"
               /\ fate' = [fate EXCEPT ![e] = [is |-> "asked", by |-> s]]

TurnStart(s) ==
    /\ ~host[s] /\ host' = [host EXCEPT ![s] = TRUE] /\ UNCHANGED fate
    /\ Calls(s, "turn", <<Call("flush"), Call("open")>>)

\* A tool of the goal extension: set_goal_tasks and the batch of
\* update_goal_task reconcile, update_goal_task updates one task.  Tools of a
\* turn that has completed its goal are blocked.
Tool(s, e) ==
    /\ host[s] /\ ~IsComplete(ses[s].goal) /\ e # Complete /\ Asked(s, e) /\ UNCHANGED host
    /\ \/ Calls(s, "tool", <<Apply(e, TRUE)>>)
       \/ Calls(s, "tool", <<UpdateTask(e)>>)

ToolEnd(s) == host[s] /\ Calls(s, "toolEnd", <<Call("account")>>) /\ Quiet

\* update_goal complete: the audit starts only when the buffer was flushed.
CompleteGoal(s) ==
    /\ host[s] /\ Complete \in Edits /\ Asked(s, Complete) /\ UNCHANGED host
    /\ Calls(s, "complete", <<Call("flush"), Call("audit")>>)

\* The auditor has answered, any handler having run meanwhile.
Auditing(s) == Complete \in Edits /\ fate[Complete] = [is |-> "asked", by |-> s]

AuditEnds(s) ==
    /\ Auditing(s) /\ UNCHANGED host
    /\ \/ Calls(s, "complete", <<>>) /\ fate' = FateIf(Complete, "refused")
       \/ Calls(s, "complete", <<Call("commit")>>) /\ UNCHANGED fate

\* An aborted or failed turn returns before endTurn.
TurnEnd(s) ==
    /\ host[s] /\ ~Auditing(s)
    /\ host' = [host EXCEPT ![s] = FALSE] /\ UNCHANGED fate
    /\ \/ Calls(s, "turn", <<Call("account")>>)
       \/ Calls(s, "turn", IF IsComplete(ses[s].goal)
                          THEN <<Call("account"), Call("archive"), Call("flush")>>
                          ELSE <<Call("account"), Call("flush")>>)

AgentEnd(s) ==
    /\ ~host[s] /\ ses[s] # None /\ ses[s].goal # None /\ ~IsComplete(ses[s].goal)
    /\ Calls(s, "agentEnd", <<Call("reconcile"), Call("persist")>>) /\ Quiet

\* A user command that changes the goal (pause, auditor): saved at once.
Command(s, e) ==
    /\ e # Complete /\ Asked(s, e) /\ UNCHANGED host
    /\ Calls(s, "command", <<Apply(e, FALSE), Call("flush")>>)

Clear(s) ==
    /\ ses[s] # None /\ ses[s].goal # None /\ Quiet
    /\ Calls(s, "clear", <<Call("reconcile"), Call("archive"), Call("unfocus")>>)

Compact(s) ==
    Calls(s, "compact", <<Call("account"), Call("flush"), Call("persist")>>) /\ Quiet

\* Another session in the same process: teardown, then loadState.
StartSession(s) ==
    /\ ~host[s] /\ Quiet
    /\ Calls(s, "startSession", <<Call("account"), Call("flush"), Call("close"),
                                  Call("persist"), Call("load")>>)

---------------------------------------------------------------------------
(* Calls that stay in memory.                                              *)

Locks(m, c) ==
    \/ c.call = "flush" /\ Buffered(m)
    \/ /\ c.call \in {"apply", "task", "archive", "persist"}
       /\ ~m.turn.open /\ m.goal # None

Prepared(m, c) ==
    IF c.call \in {"apply", "task"} /\ c.tidy /\ ~(c.call = "task" /\ m.turn.open)
    THEN ReconcileFocused(m, FALSE) ELSE m

Ready(s) == ses[s] # None /\ ses[s].pc = "idle" /\ ses[s].todo # <<>>
Now(s)   == Head(ses[s].todo)

\* m is the memory after the call, more the calls it makes in turn.
After(s, m, more) ==
    /\ ses' = [ses EXCEPT ![s] = [m EXCEPT !.todo = more \o Tail(@)]]
    /\ UNCHANGED <<disk, crashes, host>>

\* A mutation that is refused ends its handler.
Dropped(m, c) == IF c.call = "apply" THEN [m EXCEPT !.todo = <<c>>] ELSE m

\* flushTurn without anything buffered, beginTurn, removeFocusedGoal,
\* reconcileFocused.
Bookkeep(s) ==
    LET m == ses[s]
        c == Now(s).call
    IN  /\ Ready(s) /\ ~Locks(m, Now(s)) /\ UNCHANGED charged
        /\ \/ /\ c = "flush" /\ UNCHANGED <<fate, snap>>
              /\ After(s, [m EXCEPT !.turn.open = FALSE, !.failed = FALSE], <<>>)
           \/ /\ c = "open" /\ UNCHANGED <<fate, snap>>
              /\ After(s, IF m.turn.open THEN m
                          ELSE [m EXCEPT !.turn = [NoTurn EXCEPT !.open = TRUE,
                                                                 !.base = m.goal]],
                       <<>>)
           \/ /\ c = "unfocus" /\ UNCHANGED <<fate, snap>>
              /\ After(s, [m EXCEPT !.goal = None], <<>>)
           \/ /\ c = "reconcile" /\ UNCHANGED fate
              /\ snap' = SnapAfterRead(m)
              /\ After(s, ReconcileFocused(m, FALSE), <<>>)

\* The record that the auditor is to judge is the one in memory, once it was
\* reconciled; a failed flush or a goal that is gone or complete refuses.
BeginAudit(s) ==
    LET m == ReconcileFocused(ses[s], FALSE)
    IN  /\ Ready(s) /\ Now(s).call = "audit" /\ UNCHANGED charged
        /\ \/ /\ ses[s].failed /\ fate' = FateIf(Complete, "refused")
              /\ UNCHANGED snap /\ After(s, ses[s], <<>>)
           \/ /\ ~ses[s].failed /\ snap' = SnapAfterRead(ses[s])
              /\ IF m.goal = None \/ IsComplete(m.goal)
                 THEN fate' = FateIf(Complete, "refused") /\ After(s, m, <<>>)
                 ELSE UNCHANGED fate /\ After(s, [m EXCEPT !.audit = m.goal], <<>>)

\* commitCompletion: only the revision that was audited is completed.
Commit(s) ==
    LET m == ReconcileFocused(ses[s], FALSE)
    IN  /\ Ready(s) /\ Now(s).call = "commit" /\ UNCHANGED charged
        /\ snap' = SnapAfterRead(ses[s])
        /\ IF m.goal # None /\ m.goal.rev = m.audit.rev
           THEN /\ UNCHANGED fate
                /\ After(s, m, <<Call("account"), Apply(Complete, FALSE)>>)
           ELSE fate' = FateIf(Complete, "refused") /\ After(s, m, <<>>)

\* endSession gives up a buffer that could not be flushed.
CloseSession(s) ==
    LET m == ses[s]
    IN  /\ Ready(s) /\ Now(s).call = "close"
        /\ fate' = Settle(s, {}, "abandoned") /\ UNCHANGED <<snap, charged>>
        /\ After(s, [m EXCEPT !.turn = NoTurn, !.base = None], <<>>)

LoadState(s) ==
    LET m == [ses[s] EXCEPT !.cache = None]
    IN  /\ Ready(s) /\ Now(s).call = "load"
        /\ snap' = SnapAfterRead(m) /\ UNCHANGED <<fate, charged>>
        /\ After(s, [m EXCEPT !.cache = ColdRead,
                              !.goal = IF @ = None THEN None ELSE ColdRead[m.id]],
                 <<>>)

\* accountProgress: what was used is added to the record and persisted.
AccountProgress(s) ==
    LET m == ses[s]
        r == IF IsComplete(m.goal) THEN m ELSE ReconcileFocused(m, TRUE)
    IN  /\ Ready(s) /\ Now(s).call = "account" /\ UNCHANGED fate
        /\ snap' = IF IsComplete(m.goal) THEN snap ELSE SnapAfterRead(m)
        /\ \/ UNCHANGED charged /\ After(s, r, <<>>)
           \/ /\ r.goal # None /\ ~IsComplete(r.goal)
              /\ charged[r.id] < inst.tokens
              /\ charged' = [charged EXCEPT ![r.id] = @ + 1]
              /\ After(s, [r EXCEPT !.goal.used = @ + 1], <<Call("persist")>>)

\* In a turn a mutation goes to the buffer.
Buffer(s) ==
    LET c == Now(s)
        m == Prepared(ses[s], c)
        r == IF c.call = "task" /\ m.turn.goal # None THEN m.turn.goal ELSE m.goal
        n == IF c.call = "persist" THEN r ELSE Mutated(r, c.edit)
        b == [m EXCEPT !.turn.goal = n,
                       !.turn.archive = IF c.call \in {"apply", "archive"}
                                        THEN c.call = "archive" ELSE @,
                       !.goal = IF c.call = "archive" THEN @ ELSE n,
                       !.base = IF c.call = "apply" THEN n.used ELSE @]
    IN  /\ Ready(s) /\ c.call \in {"apply", "task", "archive", "persist"}
        /\ m.turn.open /\ r # None
        /\ snap' = IF Prepared(ses[s], c) # ses[s] THEN SnapAfterRead(ses[s]) ELSE snap
        /\ fate' = FateIf(c.edit, "pending") /\ UNCHANGED charged
        /\ After(s, IF m.turn.base = None THEN [b EXCEPT !.turn.base = r] ELSE b,
                 <<>>)

\* There is no focused goal to mutate (any more).
NothingToDo(s) ==
    LET c == Now(s)
        m == Prepared(ses[s], c)
    IN  /\ Ready(s) /\ c.call \in {"apply", "task", "archive", "persist"}
        /\ m.goal = None /\ ~(c.call = "task" /\ Buffered(m))
        /\ snap' = IF c.tidy THEN SnapAfterRead(ses[s]) ELSE snap
        /\ fate' = FateIf(c.edit, "refused") /\ UNCHANGED charged
        /\ After(s, Dropped(m, c), <<>>)

---------------------------------------------------------------------------
(* Calls that write.                                                       *)

Target(s) == ses[s].id

\* acquireGoalLock; before it the call has reconciled.
TakeLock(s) ==
    LET m == Prepared(ses[s], Now(s))
    IN  /\ Ready(s) /\ Locks(m, Now(s)) /\ lock[m.id] = None
        /\ lock' = [lock EXCEPT ![m.id] = s]
        /\ snap' = IF Now(s).tidy THEN SnapAfterRead(ses[s]) ELSE snap
        /\ ses' = [ses EXCEPT ![s] = [m EXCEPT !.pc = "held"]]
        /\ UNCHANGED <<inst, file, archived, host, fate, charged, crashes>>

\* Mutant: a flush that finds the lock taken gives its buffer up.
LockBusyDrops(s) ==
    LET c == Now(s)
        m == Prepared(ses[s], c)
    IN  /\ Ready(s) /\ Locks(m, c)
        /\ lock[m.id] # None /\ ses[lock[m.id]] # None
        /\ ses' = [ses EXCEPT ![s] = [m EXCEPT !.turn = NoTurn, !.todo = Tail(@)]]
        /\ UNCHANGED <<disk, snap, fate, host, charged, crashes>>

\* The attempts run out.  A flush keeps its buffer and a persist is skipped;
\* a mutation throws, and its handler ends.
LockBusy(s) ==
    LET c == Now(s)
        m == Prepared(ses[s], c)
    IN  /\ Ready(s) /\ Locks(m, c)
        /\ lock[m.id] # None /\ ses[lock[m.id]] # None
        /\ snap' = IF c.tidy THEN SnapAfterRead(ses[s]) ELSE snap
        /\ fate' = FateIf(c.edit, "refused")
        /\ ses' = [ses EXCEPT ![s] =
              IF c.call = "flush"
              THEN [m EXCEPT !.failed = TRUE, !.todo = Tail(@)]
              ELSE [m EXCEPT !.todo = IF c.call = "persist" THEN Tail(@) ELSE <<>>]]
        /\ UNCHANGED <<disk, host, charged, crashes>>

\* A lock whose process is dead is removed, and the next attempt takes it.
RecoverLock(s) ==
    LET g == Target(s)
    IN  /\ Ready(s) /\ Locks(Prepared(ses[s], Now(s)), Now(s))
        /\ lock[g] # None /\ ses[lock[g]] = None
        /\ lock' = [lock EXCEPT ![g] = None]
        /\ UNCHANGED <<inst, file, archived, snap, ses, host, fate, charged, crashes>>

\* Mutant: the revisions are not compared.
UnchangedName(m, c) == file[m.id] # None

\* The revision read under the lock is the one the change was made on.
Unchanged(m, c) ==
    LET base == IF c.call # "flush" THEN m.goal
                ELSE IF m.turn.base # None THEN m.turn.base ELSE m.turn.goal
    IN  file[m.id] # None /\ file[m.id].rev = base.rev

\* What a persist adds to a record that another process has changed.
UsageDelta(m) == Over(m.goal.used, IF m.base = None THEN file[m.id].used ELSE m.base)

ToWrite(m, c) ==
    IF c.call = "flush" THEN [m.turn.goal EXCEPT !.rev = file[m.id].rev + 1]
    ELSE IF c.call = "persist" /\ ~Unchanged(m, c)
    THEN [file[m.id] EXCEPT !.rev = @ + 1, !.used = @ + UsageDelta(m)]
    ELSE Mutated(m.goal, c.edit)

Archives(m, c, r) ==
    \/ c.call = "archive"
    \/ c.call = "flush" /\ (m.turn.archive \/ IsComplete(r))
    \/ c.call = "persist" /\ IsComplete(r)

MayWrite(m, c) ==
    \/ Unchanged(m, c)
    \/ c.call = "persist" /\ file[m.id] # None /\ UsageDelta(m) > 0

Holds(s) == ses[s] # None /\ ses[s].pc = "held"

\* The file is replaced; an archived one is first written to its new place.
WriteFile(s) ==
    LET m == ses[s]
        c == Now(s)
        r == ToWrite(m, c)
    IN  /\ Holds(s) /\ MayWrite(m, c)
        /\ IF Archives(m, c, r)
           THEN archived' = [archived EXCEPT ![m.id] = r] /\ UNCHANGED file
           ELSE file' = [file EXCEPT ![m.id] = r] /\ UNCHANGED archived
        /\ ses' = [ses EXCEPT ![s].pc = "wrote", ![s].out = r, ![s].read = snap]
        /\ UNCHANGED <<inst, snap, lock, host, fate, charged, crashes>>

\* The archived goal leaves the pool, the snapshot read before is written
\* back with this goal changed, memory takes the record, the lock goes.
FinishWrite(s) ==
    LET m == ses[s]
        c == Now(s)
        gone == Archives(m, c, m.out)
        next == IF gone THEN None ELSE m.out
        took == [m EXCEPT !.cache = None, !.pc = "idle", !.out = None,
                          !.read = None, !.todo = Tail(@)]
    IN  /\ ses[s] # None /\ m.pc = "wrote"
        /\ file' = IF gone THEN [file EXCEPT ![m.id] = None] ELSE file
        /\ snap' = IF m.read = None THEN snap ELSE [m.read EXCEPT ![m.id] = next]
        /\ lock' = [lock EXCEPT ![m.id] = None]
        /\ fate' = IF c.call = "flush" THEN Settle(s, m.out.done, "refused")
                   ELSE FateIf(c.edit, "saved")
        /\ ses' = [ses EXCEPT ![s] =
              CASE c.call = "flush" ->
                     [took EXCEPT !.turn.open = FALSE, !.failed = FALSE,
                                  !.base = m.out.used,
                                  !.goal = IF @ = None THEN None ELSE next]
                [] c.call = "archive" -> took
                [] c.call = "task" -> [took EXCEPT !.goal = next]
                [] OTHER -> [took EXCEPT !.goal = next, !.base = m.out.used]]
        /\ UNCHANGED <<inst, archived, host, charged, crashes>>

\* The file was changed or removed meanwhile: nothing is written.  A refused
\* flush drops the buffer and takes the file's record, with the usage of the
\* turn added.
Refuse(s) ==
    LET m == ses[s]
        c == Now(s)
        now == file[m.id]
        base == IF m.turn.base # None THEN m.turn.base ELSE m.turn.goal
        used == Over(m.turn.goal.used, base.used)
        free == [Dropped(m, c) EXCEPT !.pc = "idle", !.todo = Tail(@)]
    IN  /\ Holds(s) /\ ~MayWrite(m, c)
        /\ lock' = [lock EXCEPT ![m.id] = None]
        /\ fate' = IF c.call = "flush" THEN Settle(s, {}, "refused") ELSE FateIf(c.edit, "refused")
        /\ ses' = [ses EXCEPT ![s] =
              IF c.call # "flush" THEN free
              ELSE [free EXCEPT !.turn.open = FALSE, !.turn.goal = None, !.failed = TRUE,
                      !.goal = IF @ = None \/ now = None THEN None
                               ELSE [now EXCEPT !.used = @ + used],
                      !.base = IF m.goal = None \/ now = None THEN @ ELSE now.used]]
        /\ UNCHANGED <<inst, file, archived, snap, host, charged, crashes>>

\* The process dies; the lock it holds stays.
Crash(s) ==
    /\ ses[s] # None /\ crashes < inst.crashes
    /\ crashes' = crashes + 1
    /\ ses' = [ses EXCEPT ![s] = None]
    /\ host' = [host EXCEPT ![s] = FALSE]
    /\ fate' = [e \in Edits |->
          IF fate[e].by = s /\ fate[e].is \in {"asked", "pending"}
          THEN [fate[e] EXCEPT !.is = "died"] ELSE fate[e]]
    /\ UNCHANGED <<disk, snap, charged>>

---------------------------------------------------------------------------
Handler(s) ==
    \/ TurnStart(s) \/ ToolEnd(s) \/ CompleteGoal(s) \/ AuditEnds(s) \/ TurnEnd(s)
    \/ AgentEnd(s) \/ Clear(s) \/ Compact(s) \/ StartSession(s)
    \/ \E e \in Edits : Tool(s, e) \/ Command(s, e)

InMemory(s) == \/ Bookkeep(s) \/ BeginAudit(s) \/ Commit(s)
               \/ CloseSession(s) \/ LoadState(s)
               \/ AccountProgress(s) \/ Buffer(s) \/ NothingToDo(s)

OnDisk(s) == \/ TakeLock(s) \/ LockBusy(s) \/ RecoverLock(s)
             \/ WriteFile(s) \/ FinishWrite(s) \/ Refuse(s)

\* Nothing of another process comes between two calls that stay in memory:
\* they touch nothing that is shared, but for the pool read when the cache
\* is empty.
Running(s) == Ready(s) /\ ~Locks(Prepared(ses[s], Now(s)), Now(s))

Next ==
    \/ \E s \in Sessions : InMemory(s)
    \/ /\ \A s \in Sessions : ~Running(s)
       /\ \E s \in Sessions : Handler(s) \/ OnDisk(s) \/ Crash(s)

Spec == Init /\ [][Next]_gsvars

---------------------------------------------------------------------------
(* Properties.                                                             *)

\* What a goal has come to, in its active file or the archive.
Current(g) == IF file[g] # None THEN file[g] ELSE archived[g]

\* What a caller was told of an edit that is not saved (apply, updateTask,
\* flushTurn): a refused one never turns up in the goal, not even with a
\* later write of the session that still had it in memory, and one that was
\* accepted into a turn stays in an open buffer until it is written or
\* refused.  A session that is closed while its buffer cannot be flushed
\* persists its record once more and may write what it gave up.
Abandoned(e) == fate[e].is = "abandoned"
NothingVanishes ==
    (\E e \in Edits : Abandoned(e)) \/
    \A e \in Edits :
       /\ fate[e].is = "refused" => \A g \in Goals : e \notin Current(g).done
       /\ \A s \in Sessions : Pending(s, e) =>
             Buffered(ses[s]) /\ e \in ses[s].turn.goal.done

\* Outside a turn the revision check keeps what others wrote: whatever
\* apply, updateTask and persist write contains every edit of the file.
KeepsOthers ==
    (\A e \in Edits : ~Abandoned(e)) =>
       \A s \in Sessions :
          /\ Holds(s) /\ Now(s).call # "flush"
          /\ ses'[s] # None /\ ses'[s].pc = "wrote"
          => file[Target(s)].done \subseteq ses'[s].out.done

\* "Reject the speculative transaction, never overwrite another writer"
\* (goal-service.ts): an edit that was reported as saved stays in the goal.
SavedStays ==
    \A e \in Edits : fate[e].is = "saved" =>
        \E g \in Goals : e \in Current(g).done

\* "the goal changed during the audit" (goal-completion.ts): what is marked
\* complete is what the auditor approved, every edit of it and no other.
CompletedAsAudited ==
    \A s \in Sessions :
       Holds(s) /\ Now(s).edit = Complete /\ MayWrite(ses[s], Now(s)) =>
          ToWrite(ses[s], Now(s)).done = ses[s].audit.done \cup {Complete}

\* While one process works on the pool, that and its usage hold: an edit
\* that was reported stays through aborted turns, compactions, new sessions,
\* completion and archiving, usage is counted once, and what is completed was
\* audited.
AloneKeeps ==
    Cardinality({s \in Sessions : inst.focus[s] # None}) = 1 =>
        /\ SavedStays /\ CompletedAsAudited
        /\ \A g \in Goals : Current(g).used <= charged[g]
=============================================================================
