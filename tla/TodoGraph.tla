----------------------------- MODULE TodoGraph ------------------------------
(* detectCycle of state/task-graph.ts as it is written, a depth-first       *)
(* search, to be compared with DetectCycle of TodoList.                     *)
EXTENDS TodoList, FiniteSetsExt

\* hasCycleFrom(node): walk is what the closure shares between the calls,
\* found tells that a caller returns true at once.
RECURSIVE HasCycleFrom(_, _, _)
\* Mutant: a search that leaves a node in visiting when it is done with it.
HasCycleFromKeep(edges, walk, node) ==
    IF walk.found \/ node \in walk.visiting THEN [walk EXCEPT !.found = TRUE]
    ELSE FoldSet(LAMBDA nb, w : HasCycleFrom(edges, w, nb),
                 [walk EXCEPT !.visiting = @ \cup {node},
                              !.visited  = @ \cup {node}],
                 edges[node])

HasCycleFrom(edges, walk, node) ==
    IF walk.found \/ node \in walk.visiting THEN [walk EXCEPT !.found = TRUE]
    ELSE IF node \in walk.visited THEN walk
    ELSE LET below == FoldSet(LAMBDA nb, w : HasCycleFrom(edges, w, nb),
                              [walk EXCEPT !.visiting = @ \cup {node}],
                              edges[node])
         IN  IF below.found THEN below
             ELSE [below EXCEPT !.visiting = @ \ {node},
                                !.visited  = @ \cup {node}]

detectCycle(l, id, new) ==
    FoldSet(LAMBDA node, w : HasCycleFrom(Merged(l, id, new), w, node),
            [visiting |-> {}, visited |-> {}, found |-> FALSE],
            Ids(l)).found

=============================================================================
