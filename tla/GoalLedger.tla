----------------------------- MODULE GoalLedger -----------------------------
(***************************************************************************)
(* The event ledger of the goals (goal-ledger.ts, goal-ledger-index.ts):   *)
(* an append-only file that says everything, a checkpoint file that saves  *)
(* reading it, and three caches of a session: all events, the checkpoint   *)
(* being extended in memory, and whether the runtime index was loaded.     *)
(*                                                                         *)
(* One process at a time; a Restart is a new session of it, or a new       *)
(* process after a crash.  An event is its type, its goal, its audit and   *)
(* its size in bytes, for a checkpoint covers bytes.  The activity feed    *)
(* and the recent tail kept twice in the checkpoint are left out.          *)
(***************************************************************************)
EXTENDS Naturals, SequencesExt

CONSTANTS
  Goals,
  RecentCap,      \* how many recent events an index keeps for a goal
  WriteInterval,  \* CHECKPOINT_WRITE_INTERVAL
  Instances,      \* what a behaviour may do: the blocks of events appended, how many events the
                  \* ledger may hold, and whether a session reads the index before it appends
  None, Unread

VARIABLES
  inst,
  ledger,           \* the file: its events, one to a line
  checkpoint,       \* the checkpoint file, None when missing or refused
  ledgerCache,      \* None, or the size and the events
  checkpointCache,  \* Unread, None for a known absent one, or the checkpoint in memory
  runtimeReady,
  lastWrite,        \* None, or the events covered when the checkpoint was last written
  recording         \* the block appended whose checkpoint is not yet extended

glvars == <<inst, ledger, checkpoint, ledgerCache, checkpointCache, runtimeReady, lastWrite,
            recording>>

Lifecycle == {"goal_created", "goal_paused", "goal_resumed", "goal_completed"}
\* An audit is skipped, for another reason or because it is disabled.
Audits == {"audit_started", "audit_result", "audit_skipped", "audit_disabled"}
Types == Lifecycle \cup Audits \cup
         {"goal_focused", "goal_unfocused", "completion_requested", "oracle_failed"}
Events ==
  {e \in [type : Types, goal : Goals \cup {None}, audit : Nat, size : Nat \ {0}] :
     e.goal = None <=> e.type = "goal_unfocused"}

----------------------------------------------------------------------------
(* What is kept of the events.                                             *)

Bytes(events) == FoldLeft(LAMBDA sum, e : sum + e.size, 0, events)

\* The events past a number of bytes; a line cut in two is malformed.
TailFrom(offset) ==
  LET whole == {k \in 0..Len(ledger) : Bytes(SubSeq(ledger, 1, k)) >= offset}
  IN  IF whole = {} THEN <<>>
      ELSE SubSeq(ledger, (CHOOSE k \in whole : \A j \in whole : k <= j) + 1, Len(ledger))

NoEvent == [type |-> "none", audit |-> 0]

\* A new attempt supersedes the old, and so does a disabled audit; a verdict must be of the
\* latest attempt.
auditApplies(latest, e) ==
  e.type \in {"audit_started", "audit_disabled"} \/ latest = 0 \/ e.audit = latest

NoIndex == [recent |-> <<>>, audit |-> NoEvent, auditStarted |-> NoEvent,
            settledAudit |-> NoEvent, completion |-> NoEvent, lifecycle |-> NoEvent, failed |-> 0]

Indexed(entry, e) ==
  LET Latest(old, types) == IF e.type \in types THEN e ELSE old
      longer == Append(entry.recent, e)
  IN  [recent |-> IF Len(longer) > RecentCap THEN Tail(longer) ELSE longer,
       audit |-> IF e.type \in Audits /\ auditApplies(entry.audit.audit, e)
                 THEN e ELSE entry.audit,
       auditStarted |-> Latest(entry.auditStarted, {"audit_started"}),
       settledAudit |-> Latest(entry.settledAudit, {"audit_result"}),
       completion |-> Latest(entry.completion, {"completion_requested"}),
       lifecycle |-> Latest(entry.lifecycle, Lifecycle),
       failed |-> entry.failed + IF e.type = "oracle_failed" THEN 1 ELSE 0]

indexLedgerEvent(index, e) ==
  IF e.goal = None THEN index ELSE [index EXCEPT ![e.goal] = Indexed(@, e)]

freshAccumulator ==
  [status |-> [g \in Goals |-> "unknown"], audit |-> [g \in Goals |-> 0],
   verdict |-> [g \in Goals |-> FALSE], focusGen |-> [g \in Goals |-> 0],
   focused |-> None, generation |-> 0]

IsOpen(acc, g) == acc.status[g] \in {"active", "paused"}

applyLedgerEvent(acc, e) ==
  LET g == e.goal
      Becomes(status) == [acc EXCEPT !.status[g] = status]
  IN  CASE e.type = "goal_created" -> Becomes("active")
        [] e.type = "goal_paused" /\ IsOpen(acc, g) -> Becomes("paused")
        [] e.type = "goal_resumed" /\ IsOpen(acc, g) -> Becomes("active")
        [] e.type = "goal_completed" -> Becomes("complete")
        [] e.type = "goal_focused" ->
             [acc EXCEPT !.focused = g, !.generation = @ + 1,
                         !.focusGen[g] = IF acc.status[g] = "unknown" THEN @
                                         ELSE acc.generation + 1]
        [] e.type = "goal_unfocused" -> [acc EXCEPT !.focused = None, !.generation = @ + 1]
        [] e.type \in Audits /\ acc.status[g] # "unknown" /\ auditApplies(acc.audit[g], e) ->
             [acc EXCEPT !.audit[g] = e.audit, !.verdict[g] = e.type = "audit_result"]
        [] OTHER -> acc

\* A focused goal that ended is no longer focused.
finalizeLedgerState(acc) ==
  IF acc.focused # None /\ ~IsOpen(acc, acc.focused) THEN [acc EXCEPT !.focused = None] ELSE acc

\* What an event adds to a checkpoint.
Applied(cp, e) ==
  [coveredBytes |-> cp.coveredBytes + e.size, coveredEvents |-> cp.coveredEvents + 1,
   acc |-> applyLedgerEvent(cp.acc, e), runtimeIndex |-> indexLedgerEvent(cp.runtimeIndex, e)]

Blank == [coveredBytes |-> 0, coveredEvents |-> 0, acc |-> freshAccumulator,
          runtimeIndex |-> [g \in Goals |-> NoIndex]]

buildCheckpointFromEvents(events, size) ==
  [FoldLeft(Applied, Blank, events) EXCEPT !.coveredBytes = size]

(* The values these have.                                                  *)
Statuses == {"unknown", "active", "paused", "complete"}
Accumulators ==
  [status : [Goals -> Statuses], audit : [Goals -> Nat], verdict : [Goals -> BOOLEAN],
   focusGen : [Goals -> Nat], focused : Goals \cup {None}, generation : Nat]
Held == Events \cup {NoEvent}
Indexes ==
  [recent : Seq(Events), audit : Held, auditStarted : Held, settledAudit : Held,
   completion : Held, lifecycle : Held, failed : Nat]
Checkpoints ==
  [coveredBytes : Nat, coveredEvents : Nat, acc : Accumulators,
   runtimeIndex : [Goals -> Indexes]]
Caches == [size : Nat, events : Seq(Events)]

LedgerAssumption ==
  /\ RecentCap \in Nat \ {0} /\ WriteInterval \in Nat \ {0}
  /\ Instances \subseteq [blocks : SUBSET Seq(Events), lines : Nat, readsFirst : BOOLEAN]
  /\ None \notin Goals \cup Checkpoints \cup Caches /\ Unread \notin Checkpoints \cup {None}

----------------------------------------------------------------------------
GLInit ==
  /\ inst \in Instances
  /\ ledger = <<>> /\ checkpoint = None /\ ledgerCache = None /\ checkpointCache = Unread
  /\ runtimeReady = FALSE /\ lastWrite = None /\ recording = <<>>

\* The write may fail, which is only logged; the throttle counts it.
writeLedgerCheckpointAtomic(cp) ==
  /\ checkpoint' \in {cp, checkpoint}
  /\ lastWrite' = cp.coveredEvents

\* A goal is created under an id that is new (newGoalId).
NewIds(events) ==
  \A n \in DOMAIN events : events[n].type = "goal_created" =>
    \A m \in 1..n - 1 : events[m].goal # events[n].goal

\* The append, and the cache of all events extended where there is one.
AppendBlock(block) ==
  /\ recording = <<>>
  /\ inst.readsFirst => runtimeReady
  /\ Len(ledger) + Len(block) <= inst.lines
  /\ NewIds(ledger \o block)
  /\ ledger' = ledger \o block
  /\ ledgerCache' = IF ledgerCache = None THEN None
                    ELSE [size |-> ledgerCache.size + Bytes(block),
                          events |-> ledgerCache.events \o block]
  /\ recording' = block
  /\ UNCHANGED <<inst, checkpoint, checkpointCache, runtimeReady, lastWrite>>

readLedgerCheckpointFile == IF checkpointCache = Unread THEN checkpoint ELSE checkpointCache

\* Mutant: the block is counted and not applied.
CountedOnly(cp) ==
  [cp EXCEPT !.coveredBytes = @ + Bytes(recording), !.coveredEvents = @ + Len(recording)]
\* The checkpoint in memory extended by the block just appended.
Incremented(cp) == FoldLeft(Applied, cp, recording)

\* The checkpoint follows; without one it is built from the cache, or waits for a load.
updateLedgerCheckpointAfterAppend ==
  LET cp == readLedgerCheckpointFile IN
  /\ recording # <<>> /\ recording' = <<>>
  /\ \/ /\ cp = None /\ ledgerCache = None
        /\ checkpointCache' = None
        /\ UNCHANGED <<checkpoint, lastWrite>>
     \/ /\ cp = None /\ ledgerCache # None
        /\ LET built == buildCheckpointFromEvents(ledgerCache.events, ledgerCache.size)
           IN  checkpointCache' = built /\ writeLedgerCheckpointAtomic(built)
     \/ /\ cp # None
        /\ checkpointCache' = Incremented(cp)
        \* Written after WriteInterval events, or when two seconds have passed.
        /\ \/ writeLedgerCheckpointAtomic(checkpointCache')
           \/ /\ lastWrite # None
              /\ checkpointCache'.coveredEvents < lastWrite + WriteInterval
              /\ UNCHANGED <<checkpoint, lastWrite>>
  /\ UNCHANGED <<inst, ledger, ledgerCache, runtimeReady>>

\* readGoalLedger without a cache: the whole file.
WholeFile == [size |-> Bytes(ledger), events |-> ledger]
readGoalLedgerCold ==
  /\ recording = <<>> /\ ledgerCache = None
  /\ ledgerCache' = WholeFile
  /\ UNCHANGED <<inst, ledger, checkpoint, checkpointCache, runtimeReady, lastWrite, recording>>

\* The checkpoint and the events past it.
Replayed(cp) ==
  [FoldLeft(Applied, cp, TailFrom(cp.coveredBytes)) EXCEPT
     !.coveredBytes = Bytes(ledger), !.acc = finalizeLedgerState(@)]

\* From the cache, from a checkpoint that covers the file, from one and the tail,
\* or from the whole file.
loadLedgerState ==
  LET cp == readLedgerCheckpointFile
      size == Bytes(ledger)
      Fresh(cp2) == checkpointCache' = cp2 /\ writeLedgerCheckpointAtomic(cp2)
  IN  \/ /\ ledgerCache # None
         /\ checkpointCache' =
              IF checkpointCache \notin {Unread, None}
                 /\ checkpointCache.coveredBytes = ledgerCache.size
                 /\ checkpointCache.coveredEvents = Len(ledgerCache.events)
              THEN checkpointCache
              ELSE buildCheckpointFromEvents(ledgerCache.events, ledgerCache.size)
         /\ UNCHANGED <<checkpoint, lastWrite>>
      \/ /\ ledgerCache = None /\ cp # None /\ cp.coveredBytes = size
         /\ checkpointCache' = cp
         /\ UNCHANGED <<checkpoint, lastWrite>>
      \/ /\ ledgerCache = None /\ cp # None /\ cp.coveredBytes < size
         /\ Fresh(Replayed(cp))
      \/ /\ ledgerCache = None /\ (cp # None => cp.coveredBytes > size)
         /\ Fresh(buildCheckpointFromEvents(ledger, size))

\* The first reader of the index loads it and lets go of the events.
runtimeIndex ==
  /\ recording = <<>> /\ ~runtimeReady
  /\ loadLedgerState
  /\ ledgerCache' = None /\ runtimeReady' = TRUE
  /\ UNCHANGED <<inst, ledger, recording>>

\* A session starts, or the process died and its successor does: nothing is cached.
invalidateGoalLedgerCache(cache) ==
  /\ ledgerCache' = cache /\ checkpointCache' = Unread /\ runtimeReady' = FALSE
  /\ lastWrite' = None

Restart ==
  /\ invalidateGoalLedgerCache(None)
  /\ recording' = <<>>
  /\ UNCHANGED <<inst, ledger, checkpoint>>

\* /goal-refresh forgets the caches and reads the whole file.
runGoalRefresh ==
  /\ recording = <<>>
  /\ invalidateGoalLedgerCache(WholeFile)
  /\ UNCHANGED <<inst, ledger, checkpoint, recording>>

\* The checkpoint file is removed, or of another version: it is refused.
LoseCheckpoint ==
  /\ checkpoint # None /\ checkpoint' = None
  /\ UNCHANGED <<inst, ledger, ledgerCache, checkpointCache, runtimeReady, lastWrite, recording>>

GLNext ==
  \/ \E block \in inst.blocks : AppendBlock(block)
  \/ updateLedgerCheckpointAfterAppend \/ readGoalLedgerCold \/ runtimeIndex
  \/ Restart \/ runGoalRefresh \/ LoseCheckpoint

GLSpec == GLInit /\ [][GLNext]_glvars

----------------------------------------------------------------------------
GLTypeOK ==
  /\ inst \in Instances /\ ledger \in Seq(Events) /\ Len(ledger) <= inst.lines
  /\ recording \in inst.blocks \cup {<<>>}
  /\ checkpoint \in Checkpoints \cup {None}
  /\ checkpointCache \in Checkpoints \cup {None, Unread}
  /\ ledgerCache \in Caches \cup {None}
  /\ runtimeReady \in BOOLEAN /\ lastWrite \in Nat \cup {None}

Prefix(k) == SubSeq(ledger, 1, k)
Settled(cp) == [cp EXCEPT !.acc = finalizeLedgerState(@)]
Covers(cp, k) == Settled(cp) = Settled(buildCheckpointFromEvents(Prefix(k), Bytes(Prefix(k))))

\* Through restarts, crashes between an append and its checkpoint, and writes held back, the
\* index a session reads is that of every event in the file, and the cache of all events is the
\* file.
IndexCurrent ==
  /\ runtimeReady /\ recording = <<>> => Covers(checkpointCache, Len(ledger))
  /\ ledgerCache # None => ledgerCache = WholeFile

\* What the checkpoint file says is what some prefix of the ledger says, so the events past it
\* complete it.
CheckpointIsPrefix == checkpoint # None => \E k \in 0..Len(ledger) : Covers(checkpoint, k)

\* Staleness of the checkpoint costs a tail replay and nothing else (goal-ledger.ts, the
\* comment on CHECKPOINT_WRITE_INTERVAL).
StalenessIsSafe == runtimeReady /\ recording = <<>> =>
  checkpointCache.runtimeIndex = buildCheckpointFromEvents(ledger, 0).runtimeIndex

(* What these rest on, in a session that reads first.  A checkpoint covers a *)
(* prefix, and its focus is on a goal that the prefix names, so that the     *)
(* goal is not created after it; the one in memory lacks what is being       *)
(* recorded and nothing else.                                                *)
Named(goal, k) == goal = None \/ \E n \in 1..k : ledger[n].goal = goal
Follows(cp, k) == Covers(cp, k) /\ Named(cp.acc.focused, k)
Recorded == Len(ledger) - Len(recording)

LedgerInv ==
  /\ GLTypeOK /\ NewIds(ledger)
  /\ ledgerCache # None => ledgerCache = WholeFile
  /\ inst.readsFirst =>
       /\ Recorded \in Nat /\ recording = SubSeq(ledger, Recorded + 1, Len(ledger))
       /\ recording # <<>> => runtimeReady
       /\ checkpoint # None => \E k \in 0..Len(ledger) : Follows(checkpoint, k)
       /\ IF runtimeReady
          THEN checkpointCache \in Checkpoints /\ Follows(checkpointCache, Recorded)
          ELSE checkpointCache = Unread
=============================================================================
