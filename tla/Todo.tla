-------------------------------- MODULE Todo --------------------------------
(* The todo extension: the tool that runs the reducer of TodoList and keeps *)
(* its result in memory and on the session's branch (todo.ts, store.ts,     *)
(* replay.ts), the session events that replay a branch, and the overlay     *)
(* with its lazily loaded module (index.ts, todo-overlay.ts).  One process, *)
(* several sessions: a foreground one and its children.                     *)
EXTENDS TodoList

CONSTANTS
    Sessions,   \* session ids
    None,
    Scenarios   \* the settings a behaviour may start with:
                \*   opens      sessions that are opened
                \*   start      branches a session may be opened on
                \*   hasUI      sessions with a UI
                \*   calls      "tool" for the model's own calls, "nested" for
                \*              calls made through another tool
                \*   specs      items a create may carry
                \*   changes    what an update may ask for
                \*   navigates  the user moves in the session tree
                \* and the bounds maxTasks, maxEntries, maxImports, maxGeneration

\* Branches are sequences of entries that carry a list the tool may hold.
IsBranch(b) ==
    /\ b \in Seq({b[i] : i \in DOMAIN b})
    /\ \A i \in DOMAIN b : /\ b[i] = [kind |-> b[i].kind, list |-> b[i].list]
                           /\ b[i].kind \in {"state", "result"}
                           /\ Sound(b[i].list)

ASSUME NoneAssumption == None \notin Sessions

\* The parameters have passed the tool's schema.
ASSUME ScenariosAssumption ==
    \A c \in Scenarios :
        /\ \A b \in c.start : IsBranch(b)
        /\ c.specs \subseteq Seq([blockedBy : SUBSET Nat, data : Data])
        /\ \A p \in c.changes : /\ p.status \in Statuses
                                 /\ p.add \subseteq Nat
                                 /\ p.data \in Data

VARIABLES
    conf,       \* the scenario of this behaviour, constant
    life,       \* a session: "off", "live", or "stale" while Pi disposes of it
    branch,     \* the entries of the session's current branch
    landing,    \* results of parallel calls that Pi has not appended yet
    mem,        \* sessions: the live list of each session, None for no slot
    fg,         \* activeRenderSession
    generation, \* lifecycleGeneration
    uiCtx,      \* the session whose UI is bound
    overlay,    \* the session whose UI todoOverlay was given
    shown,      \* the session UIs on which the host holds the widget
    display,    \* the overlay's memory of completed tasks
    memo,       \* the import the loader remembers, 0 for none
    imports,    \* the outcome of each import of the overlay module so far
    waiting,    \* the callers that await an import
    prewarm,    \* the pre-warm timer is armed
    ends        \* sessions with a tool_execution_end still to be emitted

sessionVars == <<life, branch, landing, mem, ends>>
loaderVars  == <<memo, imports, waiting, prewarm>>
screenVars  == <<fg, generation, uiCtx, overlay, shown, display>>
vars == <<conf, sessionVars, loaderVars, screenVars>>

\* Completed tasks that were rendered, those to hide since a new turn began,
\* and the nextId last seen, 0 for none.
NoDisplay == [pending |-> {}, hidden |-> {}, lastNextId |-> 0]

Init ==
    /\ conf \in Scenarios
    /\ life = [s \in Sessions |-> "off"]
    /\ branch \in [Sessions -> conf.start \cup {<<>>}]
    /\ \A s \in Sessions : branch[s] \in IF s \in conf.opens THEN conf.start
                                                             ELSE {<<>>}
    /\ landing = [s \in Sessions |-> {}]
    /\ mem = [s \in Sessions |-> None]
    /\ fg = None /\ generation = 0 /\ uiCtx = None
    /\ overlay = None /\ shown = {} /\ display = NoDisplay
    /\ memo = 0 /\ imports = <<>> /\ waiting = {} /\ prewarm = TRUE
    /\ ends = {}

-----------------------------------------------------------------------------
(* Replay: the last state entry of a branch; on a branch with none, the     *)
(* last result; on an empty branch the empty list.                          *)

Has(b, kind) == \E i \in DOMAIN b : b[i].kind = kind

Latest(b, kind) ==
    {i \in DOMAIN b :
        b[i].kind = kind /\ \A j \in DOMAIN b : b[j].kind = kind => j <= i}

\* Mutant: the last snapshot of either kind.
LastOfEither(b) ==
    IF b = <<>> THEN {EMPTY_STATE} ELSE {b[Len(b)].list}

\* The one list replayFromBranch returns, as a set.
Replayed(b) ==
    IF Has(b, "state") THEN {b[i].list : i \in Latest(b, "state")}
    ELSE IF Has(b, "result") THEN {b[i].list : i \in Latest(b, "result")}
    ELSE {EMPTY_STATE}

-----------------------------------------------------------------------------
(* The overlay's loader, and the updates that go through it.                *)

\* The list a render without a session context reads.
RenderState(f, m) ==
    IF f \in Sessions /\ m[f] # None THEN m[f] ELSE EMPTY_STATE

\* makeTodoOverlayLoader: the caller awaits the remembered import or a new one.
Load(w, reset) ==
    /\ \/ memo # 0 /\ UNCHANGED <<memo, imports>>
       \/ /\ memo = 0
          /\ Len(imports) < conf.maxImports
          /\ imports' = Append(imports, "loading")
          /\ memo' = Len(imports')
    /\ waiting' = waiting \cup {[prewarm |-> w, reset |-> reset,
                                 generation |-> generation', import |-> memo']}

\* Mutant: the update is begun before the session's generation is counted.
BeginEarly(reset) ==
    /\ prewarm' = prewarm
    /\ IF /\ uiCtx # None
          /\ overlay # None \/ Visible(RenderState(fg, mem)) # {}
       THEN Load(FALSE, reset)
       ELSE UNCHANGED <<memo, imports, waiting>>

\* updateTodoOverlay up to its await.
BeginUpdate(reset) ==
    /\ prewarm' = prewarm
    /\ IF /\ uiCtx' # None
          /\ overlay # None \/ Visible(RenderState(fg', mem')) # {}
       THEN Load(FALSE, reset)
       ELSE UNCHANGED <<memo, imports, waiting>>

Completed(l) == {id \in Ids(l) : l.tasks[id].status = "completed"}

\* getSnapshot: ids that are reused or no longer completed are forgotten.
Snapshot(d, l) ==
    IF l.nextId < d.lastNextId THEN [NoDisplay EXCEPT !.lastNextId = l.nextId]
    ELSE [pending    |-> d.pending \cap Completed(l),
          hidden     |-> d.hidden \cap Completed(l),
          lastNextId |-> l.nextId]

OverlayTasks(d, l) == Visible(l) \ (d.hidden \cap Completed(l))

\* The rest of updateTodoOverlay: bind the overlay to the current UI, then
\* put the widget on it or take it off.
Refresh(reset) ==
    /\ overlay' = uiCtx
    /\ display' = Snapshot(IF reset THEN NoDisplay ELSE display,
                           RenderState(fg, mem))
    /\ shown' = IF OverlayTasks(display', RenderState(fg, mem)) = {}
                THEN shown \ {uiCtx} ELSE shown \cup {uiCtx}

\* Pi renders the widget; collapsed, it does not note what it shows.
RenderWidget ==
    /\ overlay \in shown
    /\ LET l == RenderState(fg, mem)
           d == Snapshot(display, l)
       IN  display' \in {d, [d EXCEPT !.pending = @ \cup (Completed(l) \ d.hidden)]}
    /\ UNCHANGED <<conf, sessionVars, loaderVars, fg, generation, uiCtx,
                   overlay, shown>>

\* agent_start: hideCompletedTasksFromPreviousTurn.
AgentStart ==
    /\ overlay # None /\ display.pending # {}
    /\ display' = [display EXCEPT !.hidden = @ \cup display.pending,
                                  !.pending = {}]
    /\ UNCHANGED <<conf, sessionVars, loaderVars, fg, generation, uiCtx,
                   overlay, shown>>

\* Mutant: a rejected caller forgets whatever the loader remembers.
ContinueAny(w) ==
    /\ imports[w.import] # "loading"
    /\ waiting' = waiting \ {w}
    /\ memo' = IF imports[w.import] = "failed" THEN 0 ELSE memo
    /\ IF /\ imports[w.import] = "ok" /\ ~w.prewarm
          /\ w.generation = generation /\ uiCtx # None
       THEN Refresh(w.reset)
       ELSE UNCHANGED <<overlay, shown, display>>
    /\ UNCHANGED <<conf, sessionVars, fg, generation, uiCtx, imports, prewarm>>

\* A caller goes on when its import has settled.  A failed import is
\* forgotten by the callers that awaited it, and only if the loader still
\* remembers that one; a module without its export stays remembered.
Continue(w) ==
    /\ imports[w.import] # "loading"
    /\ waiting' = waiting \ {w}
    /\ memo' = IF imports[w.import] = "failed" /\ memo = w.import THEN 0
               ELSE memo
    /\ IF /\ imports[w.import] = "ok" /\ ~w.prewarm
          /\ w.generation = generation /\ uiCtx # None
       THEN Refresh(w.reset)
       ELSE UNCHANGED <<overlay, shown, display>>
    /\ UNCHANGED <<conf, sessionVars, fg, generation, uiCtx, imports, prewarm>>

Settle(i, outcome) ==
    /\ imports[i] = "loading"
    /\ imports' = [imports EXCEPT ![i] = outcome]
    /\ UNCHANGED <<conf, sessionVars, screenVars, memo, waiting, prewarm>>

\* The timer set when the extension is loaded.
Prewarm ==
    /\ prewarm
    /\ prewarm' = FALSE
    /\ generation' = generation
    /\ Load(TRUE, FALSE)
    /\ UNCHANGED <<conf, sessionVars, fg, uiCtx, overlay, shown, display>>

-----------------------------------------------------------------------------
(* execute: commit what the reducer returned, append it if it changed the   *)
(* list, return it as the result.                                           *)

Room(s) == Len(branch[s]) + Cardinality(landing[s]) + 2 <= conf.maxEntries

Execute(s, list, persist) ==
    /\ life[s] = "live" /\ Room(s)
    /\ mem' = [mem EXCEPT ![s] = list]
    /\ branch' = IF persist
                 THEN [branch EXCEPT ![s] =
                         Append(@, [kind |-> "state", list |-> list])]
                 ELSE branch
    /\ \/ /\ "tool" \in conf.calls
          /\ landing' = [landing EXCEPT ![s] = @ \cup {list}]
          /\ ends' = ends \cup {s}
       \/ /\ "nested" \in conf.calls
          /\ UNCHANGED <<landing, ends>>
    /\ UNCHANGED <<conf, life, loaderVars, screenVars>>

CreateTasks(s, specs) ==
    /\ life[s] = "live" /\ ~CreateError(mem[s], specs)
    /\ mem[s].nextId + Len(specs) <= conf.maxTasks + 1
    /\ Execute(s, Create(mem[s], specs), TRUE)

\* An update that changes nothing is not appended.
UpdateTask(s, id, p) ==
    /\ life[s] = "live" /\ ~UpdateError(mem[s], id, p)
    /\ Execute(s, Update(mem[s], id, p), Update(mem[s], id, p) # mem[s])

DeleteTask(s, id) ==
    /\ life[s] = "live" /\ ~DeleteError(mem[s], id)
    /\ Execute(s, Delete(mem[s], id), TRUE)

ClearTasks(s) == Execute(s, EMPTY_STATE, TRUE)

\* list, get, and every call the reducer refuses.
LeaveTasks(s) == life[s] = "live" /\ Execute(s, mem[s], FALSE)

Call(s) ==
    \/ \E specs \in conf.specs : CreateTasks(s, specs)
    \/ \E id \in 1 .. conf.maxTasks :
          DeleteTask(s, id) \/ \E p \in conf.changes : UpdateTask(s, id, p)
    \/ ClearTasks(s)
    \/ LeaveTasks(s)

\* Pi ends a call, then appends its result, in the order the calls finish.
ToolEnd(s) ==
    /\ s \in ends
    /\ ends' = ends \ {s}
    /\ UNCHANGED <<conf, life, branch, landing, mem, screenVars>>
    /\ BeginUpdate(FALSE)

Land(s) ==
    /\ \E l \in landing[s] :
          /\ landing' = [landing EXCEPT ![s] = @ \ {l}]
          /\ branch' = [branch EXCEPT ![s] =
                          Append(@, [kind |-> "result", list |-> l])]
    /\ UNCHANGED <<conf, life, mem, ends, loaderVars, screenVars>>

-----------------------------------------------------------------------------
(* Session events.                                                          *)

\* The slot is filled from the branch; the first session with a UI claims the
\* foreground, and only the foreground binds the overlay to its UI.
SessionStart(s) ==
    /\ s \in conf.opens
    /\ life[s] = "off" /\ generation < conf.maxGeneration
    /\ life' = [life EXCEPT ![s] = "live"]
    /\ \E l \in Replayed(branch[s]) : mem' = [mem EXCEPT ![s] = l]
    /\ fg' = IF s \in conf.hasUI /\ fg = None THEN s ELSE fg
    /\ IF s \in conf.hasUI /\ fg' = s
       THEN /\ generation' = generation + 1
            /\ uiCtx' = s
            /\ BeginUpdate(TRUE)
       ELSE UNCHANGED <<generation, uiCtx, loaderVars>>
    /\ UNCHANGED <<conf, branch, landing, ends, overlay, shown, display>>

\* session_compact and session_tree; n entries of the branch remain.
ReplayAndRefresh(s, n) ==
    /\ life[s] = "live"
    /\ n < Len(branch[s]) => conf.navigates /\ landing[s] = {}
    /\ branch' = [branch EXCEPT ![s] = SubSeq(@, 1, n)]
    /\ \E l \in Replayed(branch'[s]) : mem' = [mem EXCEPT ![s] = l]
    /\ UNCHANGED <<conf, life, landing, ends, screenVars>>
    /\ IF fg = s THEN BeginUpdate(TRUE) ELSE UNCHANGED loaderVars

\* Pi invalidates the session's context before its last events.
Invalidate(s) ==
    /\ life[s] = "live"
    /\ life' = [life EXCEPT ![s] = "stale"]
    /\ UNCHANGED <<conf, branch, landing, mem, ends, loaderVars, screenVars>>

\* Mutant: a stale context's shutdown is not taken for the foreground's.
ShutdownKnown(s) ==
    /\ life[s] # "off" /\ generation < conf.maxGeneration
    /\ life' = [life EXCEPT ![s] = "off"]
    /\ mem' = IF life[s] = "live" THEN [mem EXCEPT ![s] = None] ELSE mem
    /\ landing' = [landing EXCEPT ![s] = {}]
    /\ ends' = ends \ {s}
    /\ IF life[s] = "live" /\ fg = s
       THEN /\ generation' = generation + 1
            /\ uiCtx' = None /\ overlay' = None /\ fg' = None
            /\ shown' = shown \ {overlay, s} /\ display' = NoDisplay
       ELSE /\ shown' = shown \ {s}
            /\ UNCHANGED <<generation, uiCtx, overlay, fg, display>>
    /\ UNCHANGED <<conf, branch, loaderVars>>

\* With a stale context the session id reads "": nothing is evicted, and the
\* event counts as the foreground's.
SessionShutdown(s) ==
    /\ life[s] # "off" /\ generation < conf.maxGeneration
    /\ life' = [life EXCEPT ![s] = "off"]
    /\ mem' = IF life[s] = "live" THEN [mem EXCEPT ![s] = None] ELSE mem
    /\ landing' = [landing EXCEPT ![s] = {}]
    /\ ends' = ends \ {s}
    /\ IF life[s] = "stale" \/ fg = s
       THEN /\ generation' = generation + 1
            /\ uiCtx' = None /\ overlay' = None /\ fg' = None
            /\ shown' = shown \ {overlay, s} /\ display' = NoDisplay
       ELSE /\ shown' = shown \ {s}
            /\ UNCHANGED <<generation, uiCtx, overlay, fg, display>>
    /\ UNCHANGED <<conf, branch, loaderVars>>

\* The process dies: only the branches survive.
Crash ==
    /\ \E s \in Sessions : life[s] # "off"
    /\ life' = [s \in Sessions |-> "off"]
    /\ landing' = [s \in Sessions |-> {}]
    /\ mem' = [s \in Sessions |-> None]
    /\ fg' = None /\ generation' = 0 /\ uiCtx' = None
    /\ overlay' = None /\ shown' = {} /\ display' = NoDisplay
    /\ memo' = 0 /\ imports' = <<>> /\ waiting' = {} /\ prewarm' = TRUE
    /\ ends' = {}
    /\ UNCHANGED <<conf, branch>>

Loader ==
    \/ Prewarm
    \/ \E i \in DOMAIN imports : \E o \in {"ok", "failed", "bad"} : Settle(i, o)
    \/ \E w \in waiting : Continue(w)

Session(s) ==
    \/ SessionStart(s) \/ Invalidate(s) \/ SessionShutdown(s)
    \/ \E n \in 0 .. Len(branch[s]) : ReplayAndRefresh(s, n)
    \/ ToolEnd(s) \/ Land(s)

Next == Loader \/ RenderWidget \/ AgentStart \/ Crash \/ \E s \in Sessions : Call(s) \/ Session(s)

Spec == Init /\ [][Next]_vars
-----------------------------------------------------------------------------
(* Properties.                                                              *)

\* Every list a session holds has the ids 1 .. nextId - 1, blockers that are
\* tasks of the same list, and no cycle of tasks that wait for each other,
\* whatever calls, replays and restarts produced it (state-reducer.ts,
\* task-graph.ts).
ListsSound == \A s \in Sessions : mem[s] # None => Sound(mem[s])

\* At every moment a replay of the session's branch returns the list the
\* session holds: a compaction, a restart or a crash at that moment loses
\* nothing, although results land late and out of order and nested calls
\* leave no result (replay.ts, todo.ts).
MemoryIsReplay ==
    \A s \in Sessions : life[s] # "off" => mem[s] \in Replayed(branch[s])

\* The overlay module is imported by one import at a time, however many
\* callers await, fail and retry (makeTodoOverlayLoader).
OneImport ==
    \A i, j \in DOMAIN imports :
        imports[i] = "loading" /\ imports[j] = "loading" => i = j

\* The foreground pointer names a session that is running, the bound UI and
\* the overlay are that session's, and no other session's UI is left with
\* the widget (session_start, session_shutdown, updateTodoOverlay).
OverlayBound ==
    /\ fg # None => life[fg] # "off"
    /\ uiCtx # None => uiCtx = fg
    /\ overlay # None => overlay = uiCtx
    /\ shown \subseteq {overlay} \ {None}

\* Once every call that ended has been followed by its refresh, and no import
\* was lost, a task that is not hidden has its widget on the foreground's UI,
\* and a list of tombstones has none, although refreshes run after awaits
\* and the sessions they were begun for come and go (updateTodoOverlay).
OverlayCurrent ==
    (/\ uiCtx # None /\ waiting = {} /\ ends = {}
     /\ \A i \in DOMAIN imports : imports[i] = "ok")
    => LET l == RenderState(fg, mem)
       IN  /\ OverlayTasks(Snapshot(display, l), l) # {} => uiCtx \in shown
           /\ uiCtx \in shown => Visible(l) # {}

=============================================================================
