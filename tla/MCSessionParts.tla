--------------------------- MODULE MCSessionParts ---------------------------
(* Small instances of the parts of one pi session: the todo list with its   *)
(* overlay, and the Advisor's consultations, scouts and reports.            *)
(* A behaviour is one of one part, chosen at the start; the variables of    *)
(* the others stay None, and those of the todo list as they were.           *)
EXTENDS Todo, TodoGraph, TLC

CONSTANTS s1, s2, d1, d2,
          one, other,     \* of which it does not matter which is which
          solo, c1, c2, m1, m2, m3

VARIABLES
  which,
  scBranch, invocation, maxChars, manifest, phase, aborted, status, conversation,
  enabled, toggles, leases, begun, blocked, refs, queues, sequence, latest, pane, notices,
  settings, followUps, talk, now, calls, asked, changes

scoutVars == <<scBranch, invocation, maxChars, manifest, phase, aborted, status, conversation>>
herdrVars == <<enabled, toggles, leases, begun, blocked, refs, queues, sequence, latest, pane,
               notices>>
consultVars == <<settings, followUps, talk, now, calls, asked, changes>>
allVars == <<vars, which, scoutVars, herdrVars, consultVars>>

----------------------------------------------------------------------------
(* Todo: one step from every small list, the histories of one session, and *)
(* the overlay of two.                                                     *)
Single(deps) == <<[blockedBy |-> deps, data |-> d1]>>
Pair(deps)   == <<[blockedBy |-> deps, data |-> d1],
                  [blockedBy |-> {},   data |-> d2]>>

State(l)  == [kind |-> "state",  list |-> l]
Result(l) == [kind |-> "result", list |-> l]

\* Every sound list of n tasks with the given statuses.
Lists(n, statuses) ==
    {l \in [tasks  : [1 .. n -> [status: statuses, blockedBy: SUBSET (1 .. n),
                                 data: {d1}]],
            nextId : {n + 1}] : Sound(l)}

Changes(statuses, adds, removes, data) ==
    [status: statuses, add: adds, remove: removes, data: data]

Few(S, n) == {T \in SUBSET S : Cardinality(T) <= n}

\* Any call on any list of three tasks, or of none.
Graphs3 ==
    [opens |-> {s1}, hasUI |-> {}, calls |-> {"nested"}, navigates |-> FALSE,
     start |-> {<<State(l)>> : l \in Lists(3, {"pending", "deleted"})},
     specs |-> {Single(d) : d \in Few(1 .. 5, 2)} \cup {Pair(d) : d \in Few(1 .. 5, 1)},
     changes |-> Changes(Statuses, Few(1 .. 4, 2), Few(1 .. 3, 1), {d1}),
     maxTasks |-> 4, maxEntries |-> 3, maxImports |-> 0, maxGeneration |-> 1]

\* A session whose branch grows, forks and is replayed; its first results
\* may be from before there were state entries.
OneTask ==
    [tasks |-> [i \in {1} |-> [status |-> "pending", blockedBy |-> {}, data |-> d1]],
     nextId |-> 2]
History ==
    [opens |-> {s1}, hasUI |-> {}, calls |-> {"tool", "nested"}, navigates |-> TRUE,
     start |-> {<<>>, <<Result(OneTask)>>, <<Result(OneTask), Result(EMPTY_STATE)>>},
     specs |-> {Single({}), Pair({1})},
     changes |-> Changes({"pending", "completed"}, {{}, {1}}, {{}}, {d1, d2}),
     maxTasks |-> 2, maxEntries |-> 6, maxImports |-> 0, maxGeneration |-> 1]

\* One session with a UI, and an overlay module that takes a few imports.
Imports ==
    [opens |-> {s1}, hasUI |-> {s1}, calls |-> {"tool"}, navigates |-> FALSE,
     start |-> {<<>>, <<State(OneTask)>>},
     specs |-> {Single({})}, changes |-> Changes({"completed"}, {{}}, {{}}, {d1}),
     maxTasks |-> 1, maxEntries |-> 3, maxImports |-> 3, maxGeneration |-> 2]

\* Two sessions of one process that both have a UI.
Overlays ==
    [opens |-> {s1, s2}, hasUI |-> {s1, s2}, calls |-> {"tool"}, navigates |-> FALSE,
     start |-> {<<State(OneTask)>>},
     specs |-> {},
     changes |-> {},
     maxTasks |-> 1, maxEntries |-> 3, maxImports |-> 1, maxGeneration |-> 3]

\* No session at all, while another part runs.
Quiet ==
    [opens |-> {}, hasUI |-> {}, calls |-> {}, navigates |-> FALSE, start |-> {<<>>},
     specs |-> {}, changes |-> {},
     maxTasks |-> 0, maxEntries |-> 0, maxImports |-> 0, maxGeneration |-> 0]

Small == {Graphs3, History, Imports, Overlays, Quiet}

----------------------------------------------------------------------------
(* Scout: branches of three messages after a first one, or with a boundary *)
(* among them, and budgets from none to enough for everything.             *)
UserSays(text, image) == [kind |-> "user", text |-> text, image |-> image]
Assistant(text, asks) == [kind |-> "assistant", text |-> text, calls |-> asks]
ToolResult(call, named, text) ==
    [kind |-> "toolResult", call |-> call, named |-> named, text |-> text]
Question == UserSays(2, FALSE)
Messages ==
    {Question, UserSays(0, TRUE), Assistant(1, <<>>), Assistant(1, <<c1>>),
     Assistant(0, <<c1, c2>>), ToolResult(c1, TRUE, 1), ToolResult(c2, TRUE, 5),
     ToolResult(c1, FALSE, 1)}
Common == {Question, Assistant(1, <<c1>>), ToolResult(c1, TRUE, 1), [kind |-> "system"]}
Boundaries ==
    {[kind |-> "reset_boundary"], [kind |-> "compaction", text |-> 1, firstKept |-> 2],
     [kind |-> "compaction", text |-> 2, firstKept |-> 0]}
Branches ==
    {<<Question, x, y, z>> : x \in Messages, y \in Messages, z \in Messages}
    \cup {<<Question, x, b, y, z>> : x \in Common, b \in Boundaries, y \in Common, z \in Common}
Budgets == {0, 9, 14, 30}
Scout == INSTANCE AdvisorScout WITH
  maxResult <- 3, maxGroupBytes <- 8, maxGroups <- 3, maxManifestBytes <- 16, maxIds <- 2,
  maxSynthesis <- 2, Overhead <- 1, Separator <- 2, Marker <- 2, branch <- scBranch

(* Herdr: two consultations, and a queue of one.                           *)
Two == {one, other}
Herdr == INSTANCE HerdrReports WITH
  Consultations <- Two, MaxPending <- 1, MaxReports <- 4, MaxToggles <- 1

(* Consultations: two side by side; one that is followed up while settings *)
(* change and time passes; one that discloses files and images.            *)
InForce(redact, files, primary, fallback) ==
    [redact |-> redact, files |-> files, primary |-> primary, fallback |-> fallback,
     disableSame |-> TRUE, whitelisted |-> TRUE]
Steady == {InForce(TRUE, TRUE, m1, m2)}
Changing == {InForce(FALSE, TRUE, m1, m2), InForce(TRUE, TRUE, m1, m2),
             InForce(FALSE, FALSE, m2, m3)}
Disclosed(name, size, image) == [name |-> name, size |-> size, image |-> image]
Nothing == {[untracked |-> <<>>, tracked |-> <<>>, conversation |-> <<>>]}
Files == {[untracked |-> <<Disclosed(1, 3, FALSE), Disclosed(2, 2, TRUE)>>,
           tracked |-> <<Disclosed(3, 2, FALSE), Disclosed(4, 2, TRUE)>>,
           conversation |-> <<Disclosed(5, 1, TRUE)>>]}
Solo == {solo}
Paired == INSTANCE AdvisorConsult WITH
  Tasks <- Two, Settings <- Steady, Requests <- Nothing, executor <- m3,
  FOLLOW_UP_TTL <- 1, FOLLOW_UP_MAX_DEPTH <- 1, FOLLOW_UP_MAX_TOOL_CALLS <- 2,
  FILE_MAX <- 2, FILES_TOTAL <- 3, IMAGES_MAX_COUNT <- 2, IMAGES_TOTAL <- 4,
  MaxStarts <- 3, MaxChanges <- 0, MaxTime <- 0, MaxCalls <- 0
Alone == INSTANCE AdvisorConsult WITH
  Tasks <- Solo, Settings <- Changing, Requests <- Nothing, executor <- m3,
  FOLLOW_UP_TTL <- 1, FOLLOW_UP_MAX_DEPTH <- 1, FOLLOW_UP_MAX_TOOL_CALLS <- 2,
  FILE_MAX <- 2, FILES_TOTAL <- 3, IMAGES_MAX_COUNT <- 2, IMAGES_TOTAL <- 4,
  MaxStarts <- 2, MaxChanges <- 1, MaxTime <- 1, MaxCalls <- 2
Attached == INSTANCE AdvisorConsult WITH
  Tasks <- Solo, Settings <- Changing, Requests <- Files, executor <- m3,
  FOLLOW_UP_TTL <- 1, FOLLOW_UP_MAX_DEPTH <- 1, FOLLOW_UP_MAX_TOOL_CALLS <- 2,
  FILE_MAX <- 2, FILES_TOTAL <- 3, IMAGES_MAX_COUNT <- 2, IMAGES_TOTAL <- 4,
  MaxStarts <- 1, MaxChanges <- 1, MaxTime <- 0, MaxCalls <- 0

----------------------------------------------------------------------------
PartsInit ==
  /\ which \in {"todo", "scout", "herdr", "paired", "alone", "attached"}
  /\ Init /\ (which = "todo" <=> conf # Quiet)
  /\ IF which = "scout" THEN Scout!ScoutInit
     ELSE /\ scBranch = None /\ invocation = None /\ maxChars = None /\ manifest = None
          /\ phase = None /\ aborted = None /\ status = None /\ conversation = None
  /\ IF which = "herdr" THEN Herdr!HRInit
     ELSE /\ enabled = None /\ toggles = None /\ leases = None /\ begun = None /\ blocked = None
          /\ refs = None /\ queues = None /\ sequence = None /\ latest = None /\ pane = None
          /\ notices = None
  /\ IF which = "paired" THEN Paired!ConsultInit
     ELSE IF which = "alone" THEN Alone!ConsultInit
     ELSE IF which = "attached" THEN Attached!ConsultInit
     ELSE /\ settings = None /\ followUps = None /\ talk = None /\ now = None /\ calls = None
          /\ asked = None /\ changes = None

Only(part) ==
  /\ which = part /\ UNCHANGED which
  /\ part # "todo" => UNCHANGED vars
  /\ part # "scout" => UNCHANGED scoutVars
  /\ part # "herdr" => UNCHANGED herdrVars
  /\ part \notin {"paired", "alone", "attached"} => UNCHANGED consultVars

PartsNext ==
  \/ Only("todo") /\ Next
  \/ Only("scout") /\ Scout!ScoutNext
  \/ Only("herdr") /\ Herdr!HRNext
  \/ Only("paired") /\ Paired!ConsultNext
  \/ Only("alone") /\ Alone!ConsultNext
  \/ Only("attached") /\ Attached!ConsultNext

PartsSpec == PartsInit /\ [][PartsNext]_allVars

Symmetry == Permutations(Two)

----------------------------------------------------------------------------
(* The properties; the modules say what they mean.                         *)

\* What Scout chooses is what the Advisor gets, within its bounds, and no call
\* is parted from its result (advisor/src/scout-groups.ts, scout.ts); what Herdr
\* shows in the end is what was reported last, and no notification is shown
\* twice (advisor/src/herdr-shared.ts); a follow-up is asked of the model that
\* gave the advice with what it was allowed to see, a failing model is replaced
\* once, and what is attached stays within its limits (advisor/src/follow-up.ts,
\* tools/consultation.ts).
AdvisorSound ==
  /\ which = "scout" => Scout!ScoutTypeOK /\ Scout!ScoutSound
  /\ which = "herdr" => Herdr!HRTypeOK /\ Herdr!HerdrSound
  /\ which = "paired" => Paired!ConsultTypeOK /\ Paired!ConsultSound
  /\ which = "alone" => Alone!ConsultTypeOK /\ Alone!ConsultSound
  /\ which = "attached" => Attached!ConsultTypeOK /\ Attached!ConsultSound

\* The depth-first search of detectCycle answers what the definition by sets
\* answers, for every list reached and every update one could ask of it
\* (state/task-graph.ts).
DetectCycleExact ==
    \A s \in Sessions : mem[s] # None =>
        \A id \in Ids(mem[s]) : \A new \in SUBSET Ids(mem[s]) :
            detectCycle(mem[s], id, new) = DetectCycle(mem[s], id, new)
=============================================================================
