------------------------------ MODULE TodoList ------------------------------
(* The task list of the todo extension and the pure reducer over it:        *)
(* state/state-reducer.ts, state/task-graph.ts, state/invariants.ts.  A     *)
(* list maps the ids it holds to tasks.  A task's subject, description,     *)
(* owner, activeForm and metadata are one value of Data.                    *)
EXTENDS Integers, Sequences, FiniteSets

CONSTANT Data

Statuses == {"pending", "in_progress", "completed", "deleted"}

VALID_TRANSITIONS ==
    [pending     |-> {"in_progress", "completed", "deleted"},
     in_progress |-> {"pending", "completed", "deleted"},
     completed   |-> {"deleted"},
     deleted     |-> {}]

IsTransitionValid(from, to) == from = to \/ to \in VALID_TRANSITIONS[from]

Task(ids) == [status: Statuses, blockedBy: SUBSET ids, data: Data]

EMPTY_STATE == [tasks |-> [id \in {} |-> {}], nextId |-> 1]

Ids(l) == DOMAIN l.tasks
Deleted(l, id) == l.tasks[id].status = "deleted"
Visible(l) == {id \in Ids(l) : ~Deleted(l, id)}

-----------------------------------------------------------------------------
(* The dependency graph: node n has an edge to each task that blocks it.    *)

Graph(l) == [id \in Ids(l) |-> l.tasks[id].blockedBy]

\* From each node of some set an edge stays in the set: a finite graph has
\* such a set exactly when it has a cycle.
Cyclic(edges) ==
    \E S \in SUBSET DOMAIN edges :
        /\ S # {}
        /\ \A n \in S : edges[n] \cap S # {}

\* What detectCycle walks: the task's dependencies merged with the new ones.
Merged(l, id, new) ==
    [n \in Ids(l) |-> IF n = id THEN l.tasks[n].blockedBy \cup new
                                ELSE l.tasks[n].blockedBy]

DetectCycle(l, id, new) == Cyclic(Merged(l, id, new))

-----------------------------------------------------------------------------
(* applyTaskMutation: what each action refuses and what it returns.         *)

\* A dependency that is not in the list, or is a tombstone.
NotBlocker(l, dep) == dep \notin Ids(l) \/ Deleted(l, dep)

\* The ids a batch of n items is given.
NewIds(l, n) == l.nextId .. (l.nextId + n - 1)

\* specs is the batch, or a sequence of one.  An item blocked by a sibling is
\* refused like one blocked by an id that does not exist yet.
CreateError(l, specs) ==
    \E i \in DOMAIN specs : \E dep \in specs[i].blockedBy :
        dep \in NewIds(l, Len(specs)) \/ NotBlocker(l, dep)

Create(l, specs) ==
    [tasks |-> [id \in Ids(l) \cup NewIds(l, Len(specs)) |->
                  IF id \in Ids(l) THEN l.tasks[id]
                  ELSE [status    |-> "pending",
                        blockedBy |-> specs[id - l.nextId + 1].blockedBy,
                        data      |-> specs[id - l.nextId + 1].data]],
     nextId |-> l.nextId + Len(specs)]

\* removeBlockedBy first, then addBlockedBy.
NewBlockedBy(l, id, p) == (l.tasks[id].blockedBy \ p.remove) \cup p.add

\* Mutant: only the dependencies of the new blockers are looked at.
UpdateErrorDirect(l, id, p) ==
    \/ id \notin Ids(l)
    \/ ~IsTransitionValid(l.tasks[id].status, p.status)
    \/ \E dep \in p.add : \/ dep = id \/ NotBlocker(l, dep)
                         \/ id \in l.tasks[dep].blockedBy

UpdateError(l, id, p) ==
    \/ id \notin Ids(l)
    \/ ~IsTransitionValid(l.tasks[id].status, p.status)
    \/ \E dep \in p.add : dep = id \/ NotBlocker(l, dep)
    \/ p.add # {} /\ DetectCycle(l, id, NewBlockedBy(l, id, p))

Update(l, id, p) ==
    [l EXCEPT !.tasks = [@ EXCEPT ![id] =
        [status    |-> p.status,
         blockedBy |-> NewBlockedBy(l, id, p),
         data      |-> p.data]]]

DeleteError(l, id) == id \notin Ids(l) \/ Deleted(l, id)

\* A tombstone: the task stays, and so does every edge to it.
Delete(l, id) ==
    [l EXCEPT !.tasks = [@ EXCEPT ![id] =
        [status    |-> "deleted",
         blockedBy |-> l.tasks[id].blockedBy,
         data      |-> l.tasks[id].data]]]

-----------------------------------------------------------------------------
(* The lists the tool may hold: ids are 1 .. nextId - 1, every dependency   *)
(* is a task of the list, and no task waits for itself through others.      *)

IsList(l) ==
    /\ l.nextId \in Nat \ {0}
    /\ l.tasks \in [1 .. (l.nextId - 1) -> Task(1 .. (l.nextId - 1))]
    /\ l = [tasks |-> l.tasks, nextId |-> l.nextId]

Sound(l) == IsList(l) /\ ~Cyclic(Graph(l))
=============================================================================
