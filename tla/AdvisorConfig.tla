--------------------------- MODULE AdvisorConfig ----------------------------
(***************************************************************************)
(* The Advisor's settings: advisor.json, shared by the processes of a user *)
(* (config/storage.ts), the live values of a process (config/state.ts),    *)
(* and the commands that change them (commands/, ui/settings-selector.ts). *)
(*                                                                         *)
(* A file that lacks a key has its default.  Of the keys that are alike    *)
(* one is kept: two model references, an effort, a key that the dialog     *)
(* does not offer, and the two switches that go together.                  *)
(***************************************************************************)
EXTENDS Naturals, FiniteSets

CONSTANTS
  Processes, Models, None,
  Values,           \* what a setting may be
  Unusable,         \* the models for which no key is found
  Instances         \* small instances: [uses, file, choices, edits, breaks, failures, commands]
                    \*   uses: the commands given: dialog, off, select, picker, activate
                    \*   file: advisor.json at the start
                    \*   choices: what is chosen in the dialog, and edits by hand: sets of
                    \*            [key, value]; each edit is made once
                    \*   breaks, failures, commands: bounds

\* SAVED_CONFIG_KEYS: saveConfig writes them.  Consent to outcome logging is
\* written by itself.
SavedKeys == {"executor", "advisor", "effort", "other", "jev", "tools", "alwaysOn"}
Keys == SavedKeys \cup {"logging"}
References == {"executor", "advisor"}
DialogKeys == {"effort", "jev", "tools", "alwaysOn", "logging"}
Defaults ==
  [k \in Keys |-> IF k = "tools" THEN TRUE
                  ELSE IF k \in {"jev", "alwaysOn", "logging"} THEN FALSE ELSE None]

\* The keys that are switches; what a file, and what a choice, may hold.
Switches == {"jev", "tools", "alwaysOn", "logging"}
Stored == {s \in [Keys -> Values] : \A k \in Switches : s[k] \in BOOLEAN}
Setting == {c \in [key : Keys, value : Values] : c.key \in Switches => c.value \in BOOLEAN}

\* The file at the start and what is chosen hold such values.
ConfigAssumption ==
  /\ Models \cup {None} \cup BOOLEAN \subseteq Values /\ None \notin Stored
  /\ \A i \in Instances :
       /\ i.file \in Stored /\ i.edits \subseteq Setting
       /\ i.choices \subseteq {c \in Setting : c.key \in DialogKeys}

VARIABLES
  inst,      \* the instance
  file,      \* advisor.json: its keys, and whether it is malformed
  proc,      \* what each process has in memory
  touched,   \* history: keys set in a process since it last read the file
  off,       \* history: tools were disabled in a process, and not asked for since
  edits, breaks, failures, commands    \* used up of the bounds

configVars == <<inst, file, proc, touched, off, edits, breaks, failures, commands>>

NoActivation ==
  [pc |-> "none", announce |-> TRUE, args |-> FALSE, picked |-> FALSE, pending |-> FALSE,
   executor |-> None, advisor |-> None, previous |-> Defaults, attempted |-> Defaults,
   revision |-> 0]
Fresh ==
  [started |-> FALSE, refs |-> Defaults, baseline |-> None, persisted |-> {}, dialog |-> None,
   stale |-> FALSE, picker |-> FALSE, activation |-> NoActivation, revision |-> 0,
   pendingModel |-> None, active |-> TRUE]

ConfigInit ==
  /\ inst \in Instances /\ file = [keys |-> inst.file, malformed |-> FALSE]
  /\ proc = [p \in Processes |-> Fresh]
  /\ touched = [p \in Processes |-> {}] /\ off = [p \in Processes |-> FALSE]
  /\ edits = {} /\ breaks = 0 /\ failures = 0 /\ commands = 0

----------------------------------------------------------------------------
(* storage.ts                                                              *)

PersistedOf(s) == {k \in References : s[k] # None}

\* loadConfig: the defaults are back before the file is read, which may fail.
Loads == ~file.malformed
Loaded(r) ==
  IF Loads
  THEN [r EXCEPT !.refs = file.keys, !.baseline = file.keys,
                 !.persisted = PersistedOf(file.keys), !.stale = r.dialog # None]
  ELSE [r EXCEPT !.refs = Defaults, !.persisted = {}]

Changed(r) == {k \in SavedKeys : r.baseline = None \/ r.refs[k] # r.baseline[k]}
Wanted(persist) == (SavedKeys \ References) \cup persist

\* Mutant: every key is written when one has changed.
MergedAll(r, persist) ==
  [k \in Keys |-> IF Changed(r) # {} /\ k \in Wanted(persist) THEN r.refs[k] ELSE file.keys[k]]

\* saveConfig: what has changed since the last load or save is merged into the file.
Merged(r, persist) ==
  [k \in Keys |-> IF k \in Changed(r) \cap Wanted(persist) THEN r.refs[k] ELSE file.keys[k]]

Saved(r, persist) ==
  LET next == [k \in Keys |-> IF k \in Wanted(persist) \/ k \notin SavedKeys THEN r.refs[k]
                              ELSE IF r.baseline # None THEN r.baseline[k] ELSE file.keys[k]]
  IN  IF Changed(r) = {} THEN r
      ELSE [r EXCEPT !.baseline = next, !.persisted = PersistedOf(next)]

Becomes(p, r) == proc' = [proc EXCEPT ![p] = r]
WriteFails == failures < inst.failures /\ failures' = failures + 1

\* A step of p that saves r and goes on with "after", or whose save is refused
\* because the file is malformed, or fails.
Saves(p, r, persist, after) ==
  /\ Changed(r) = {} \/ Loads
  /\ file' = [file EXCEPT !.keys = Merged(r, persist)]
  /\ Becomes(p, after) /\ UNCHANGED failures
SaveFails(p, r, otherwise) ==
  /\ Changed(r) # {}
  /\ (~Loads /\ UNCHANGED failures) \/ WriteFails
  /\ UNCHANGED file /\ Becomes(p, otherwise)

Touches(p, keys) == touched' = [touched EXCEPT ![p] = @ \cup keys]
\* After a reading that failed every key has changed: it is the default.
AfterLoad(p, keys) ==
  touched' = [touched EXCEPT ![p] = (IF Loads THEN {} ELSE Keys) \cup keys]

Modal(r) == r.dialog # None \/ r.picker \/ r.activation.pc = "pick"
NoCommand == UNCHANGED <<edits, breaks, commands>>
\* The user gives a command, which takes a session whose editor is there.
Counted ==
  commands < inst.commands /\ commands' = commands + 1 /\ UNCHANGED <<edits, breaks>>
Command(p, use) ==
  /\ use \in inst.uses /\ Counted
  /\ proc[p].started /\ ~Modal(proc[p])

----------------------------------------------------------------------------
(* A tool call or a consultation of the session reads the file.            *)
ToolCall(p) ==
  /\ proc[p].started /\ Becomes(p, Loaded(proc[p])) /\ AfterLoad(p, {})
  /\ UNCHANGED <<file, off, failures>> /\ NoCommand

(* The settings dialog keeps a copy of what was live when it was opened.   *)
OpenDialog(p) ==
  LET r == Loaded(proc[p]) IN
  /\ Command(p, "dialog") /\ AfterLoad(p, {}) /\ UNCHANGED <<file, off, failures>>
  /\ Becomes(p, IF Loads THEN [r EXCEPT !.dialog = r.refs, !.stale = FALSE] ELSE r)

CloseDialog(p) ==
  /\ proc[p].dialog # None /\ Becomes(p, [proc[p] EXCEPT !.dialog = None, !.stale = FALSE])
  /\ UNCHANGED <<file, touched, off, failures>> /\ NoCommand

\* mutateAdvisorSettings: one switch may move the other.
Mutated(s, k, v) ==
  [s EXCEPT ![k] = v,
            !.alwaysOn = IF k = "tools" /\ ~v THEN FALSE ELSE IF k = "alwaysOn" THEN v ELSE @,
            !.tools = IF k = "alwaysOn" /\ v THEN TRUE ELSE IF k = "tools" THEN v ELSE @]

Applied(r, copy) ==
  [r EXCEPT !.refs = [k \in Keys |-> IF k \in DialogKeys THEN copy[k] ELSE @[k]]]
InDialog(p, copy, written) ==
  /\ proc[p].dialog # None /\ Counted
  /\ Touches(p, written \cup (IF proc[p].stale THEN DialogKeys
                             ELSE {k \in DialogKeys : copy[k] # proc[p].dialog[k]}))

(* A choice: saveAdvisorSettings and its caller.  The whole copy is        *)
(* applied; consent to logging is a second write, made whatever was        *)
(* chosen, and when that fails what was applied is taken back although the *)
(* first was saved.                                                        *)
DialogChange(p, choice) ==
  LET r == proc[p]
      copy == Mutated(r.dialog, choice.key, choice.value)
      opened == [r EXCEPT !.dialog = copy]
      applied == Applied(opened, copy)
      saved == Saved(applied, r.persisted)
      noted(s) == [s EXCEPT !.revision = IF r.refs.tools # copy.tools THEN @ + 1 ELSE @]
      disabling == r.refs.tools /\ ~copy.tools
      restored(s) == [s EXCEPT !.refs = r.refs]
      failed(s) == IF disabling
                   THEN [noted(restored(s)) EXCEPT !.refs.tools = FALSE, !.refs.alwaysOn = FALSE,
                                                   !.active = FALSE]
                   ELSE restored(s)
      written == [file EXCEPT !.keys = Merged(applied, r.persisted)]
  IN  /\ InDialog(p, copy, {"logging"} \cup (IF disabling THEN {"alwaysOn"} ELSE {}))
      /\ choice.key # "jev"
      /\ off' = [off EXCEPT ![p] = disabling \/ (@ /\ ~copy.tools)]
      /\ \/ /\ Loads /\ file' = [written EXCEPT !.keys.logging = copy.logging]
            /\ Becomes(p, [noted(saved) EXCEPT !.active = copy.tools]) /\ UNCHANGED failures
         \/ Loads /\ WriteFails /\ file' = written /\ Becomes(p, failed(saved))
         \/ /\ (~Loads /\ UNCHANGED failures) \/ (Changed(applied) # {} /\ WriteFails)
            /\ UNCHANGED file /\ Becomes(p, failed(opened))

\* persistJevSettings: a failure leaves the copy as it was.
JevChange(p, on) ==
  LET r == proc[p]
      copy == [r.dialog EXCEPT !.jev = on]
      applied == [Applied(r, copy) EXCEPT !.dialog = copy]
  IN  /\ InDialog(p, copy, {})
      /\ off' = [off EXCEPT ![p] = @ /\ ~copy.tools]
      /\ \/ Saves(p, applied, r.persisted,
                  [Saved(applied, r.persisted) EXCEPT !.active = copy.tools])
         \/ SaveFails(p, applied, r)

AdvisorOff(p) ==
  LET r == [Loaded(proc[p]) EXCEPT !.revision = @ + 1, !.active = FALSE,
                                   !.refs.tools = FALSE, !.refs.alwaysOn = FALSE]
  IN  /\ Command(p, "off") /\ off' = [off EXCEPT ![p] = TRUE] /\ AfterLoad(p, {"tools", "alwaysOn"})
      /\ IF Loads
         THEN Saves(p, r, r.persisted, Saved(r, r.persisted)) \/ SaveFails(p, r, r)
         ELSE Becomes(p, r) /\ UNCHANGED <<file, failures>>

(* model_select with source "set".  Before the flow is on the choice only  *)
(* waits for it; else it is saved, and nothing is read first.  While an    *)
(* activation sets the model it is not heard.                              *)
ModelSelect(p, m) ==
  LET r == [proc[p] EXCEPT !.pendingModel = None]
      chosen == [r EXCEPT !.refs.executor = m]
      persist == (r.persisted \cap {"advisor"}) \cup {"executor"}
      only(s) == Becomes(p, s) /\ UNCHANGED <<file, failures, touched>>
  IN  /\ Command(p, "select") /\ UNCHANGED off
      /\ "executor" \in r.persisted /\ r.activation.pc # "executor"
      /\ IF ~r.active THEN only([r EXCEPT !.pendingModel = m])
         ELSE IF m = r.refs.executor THEN only(r)
         ELSE /\ Touches(p, {"executor"})
              /\ Saves(p, chosen, persist, Saved(chosen, persist)) \/ SaveFails(p, chosen, chosen)

(* /advisor-models: the picker is awaited.                                 *)
OpenPicker(p) ==
  /\ Command(p, "picker") /\ Becomes(p, [Loaded(proc[p]) EXCEPT !.picker = Loads])
  /\ AfterLoad(p, {}) /\ UNCHANGED <<file, off, failures>>

Picked(p, executor, advisor) ==
  LET r == [proc[p] EXCEPT !.picker = FALSE, !.refs.executor = executor, !.refs.advisor = advisor]
  IN  /\ proc[p].picker /\ NoCommand /\ UNCHANGED off /\ Touches(p, References)
      /\ \/ Saves(p, r, References, [Saved(r, References) EXCEPT !.pendingModel = None])
         \/ SaveFails(p, r, r)

PickerCancelled(p) ==
  /\ proc[p].picker /\ Becomes(p, [proc[p] EXCEPT !.picker = FALSE])
  /\ UNCHANGED <<file, touched, off, failures>> /\ NoCommand

----------------------------------------------------------------------------
(* Activation: /advisor, or the start of a session that is always on.      *)

ActivationKeys == {"executor", "advisor", "effort"}

\* restoreRefs: what is still as it was attempted is put back.
Restored(r, attempted) ==
  [r EXCEPT !.refs = [k \in Keys |-> IF k \in ActivationKeys /\ @[k] = attempted[k]
                                     THEN r.activation.previous[k] ELSE @[k]]]
Stops(r) == [r EXCEPT !.activation = NoActivation]
CanContinue(r) == r.revision = r.activation.revision

\* No models were prepared: what is live now is put back.
TakesBack(r) == Stops(IF CanContinue(r) THEN Restored(r, r.refs) ELSE r)
\* A model is unusable: what was live before the arguments is put back.
GivesUp(r) == Stops(Restored(r, r.activation.attempted))

\* resolveActivationModels, up to the await of the Advisor's key.
Resolves(r) ==
  [r EXCEPT !.activation.pc = "auth", !.activation.executor = r.refs.executor,
            !.activation.advisor = r.refs.advisor]

(* parseArgs and prepareActivationModels, with the models that are named   *)
(* in the arguments, or None.                                              *)
Activates(r0, announce, executor, advisor) ==
  LET pending == executor = None /\ "executor" \in r0.persisted /\ r0.pendingModel # None
      parsed ==
        [r0 EXCEPT !.refs.executor = IF executor # None THEN executor
                                     ELSE IF pending THEN r0.pendingModel ELSE @,
                   !.refs.advisor = IF advisor # None THEN advisor ELSE @,
                   !.activation = [NoActivation EXCEPT
                     !.announce = announce, !.args = executor # None \/ advisor # None,
                     !.pending = pending, !.previous = r0.refs, !.attempted = r0.refs,
                     !.revision = r0.revision]]
  IN  IF advisor # None \/ "advisor" \in r0.persisted THEN Resolves(parsed)
      ELSE IF announce THEN [parsed EXCEPT !.activation.pc = "pick"]
      ELSE TakesBack(parsed)

Activate(p, executor, advisor) ==
  LET r == Loaded(proc[p]) IN
  /\ Command(p, "activate") /\ proc[p].activation.pc = "none"
  /\ Becomes(p, IF Loads THEN Activates(r, TRUE, executor, advisor) ELSE r)
  /\ AfterLoad(p, ActivationKeys)
  /\ off' = [off EXCEPT ![p] = FALSE] /\ UNCHANGED <<file, failures>>

\* session_start
SessionStart(p) ==
  LET r == [Loaded(proc[p]) EXCEPT !.started = TRUE, !.pendingModel = None]
      quiet == [r EXCEPT !.active = FALSE]
  IN  /\ ~proc[p].started /\ NoCommand /\ UNCHANGED <<file, off, failures>>
      /\ AfterLoad(p, {})
      /\ Becomes(p, IF ~Loads \/ ~r.refs.tools THEN quiet
                    ELSE IF r.refs.alwaysOn THEN Activates(quiet, FALSE, None, None) ELSE r)

ActivationPicked(p, advisor) ==
  LET r == proc[p]
      chosen == [r EXCEPT !.refs.advisor = advisor, !.activation.picked = TRUE]
  IN  /\ r.activation.pc = "pick" /\ NoCommand /\ UNCHANGED <<file, off, failures>>
      /\ Touches(p, ActivationKeys)
      /\ Becomes(p, IF advisor = None THEN TakesBack(r)
                    ELSE IF CanContinue(r) THEN Resolves(chosen) ELSE Stops(chosen))

(* The Advisor's key has come, or there is none for it.                    *)
Authorised(p, found) ==
  LET r == proc[p] IN
  /\ r.activation.pc = "auth" /\ NoCommand /\ UNCHANGED <<file, off, failures, touched>>
  /\ found => r.activation.advisor \notin Unusable
  /\ Becomes(p, IF ~CanContinue(r) THEN Stops(r)
                ELSE IF ~found THEN GivesUp(r)
                ELSE [r EXCEPT !.activation.pc = "executor"])

\* Mutant: whether it may go on is asked once only, when the key has come.
ActivatedAnyway(p) ==
  LET r == proc[p]
      on == [r EXCEPT !.refs.tools = TRUE]
  IN  /\ r.activation.pc = "executor" /\ NoCommand /\ UNCHANGED off
      /\ Touches(p, ActivationKeys \cup {"tools"})
      /\ Saves(p, on, References,
               [Stops(Saved(on, References)) EXCEPT !.pendingModel = None, !.active = TRUE])

(* pi has the executor's model, if there is one to set: what could be used *)
(* is saved, and the tools are on.                                         *)
Activated(p) ==
  LET r == proc[p]
      reenable == ~r.refs.tools
      on == [r EXCEPT !.refs.tools = TRUE]
      save == r.activation.args \/ r.activation.picked \/ r.activation.pending \/ reenable
      finished(s) == [Stops(s) EXCEPT !.pendingModel = None, !.active = TRUE]
      unsaved == IF reenable THEN [Stops(Restored(on, on.refs)) EXCEPT !.refs.tools = FALSE]
                 ELSE Stops(on)
      only(s) == Becomes(p, s) /\ UNCHANGED <<file, failures>>
  IN  /\ r.activation.pc = "executor" /\ NoCommand /\ UNCHANGED off
      /\ Touches(p, ActivationKeys \cup {"tools"})
      /\ IF ~CanContinue(r) THEN only(Stops(r))
         ELSE IF ~save THEN only(finished(on))
         ELSE \/ Saves(p, on, References, finished(Saved(on, References)))
              \/ SaveFails(p, on, unsaved)

\* The executor's model has no key.
ExecutorRefused(p) ==
  LET r == proc[p] IN
  /\ r.activation.pc = "executor" /\ r.activation.executor # None
  /\ NoCommand /\ UNCHANGED <<file, off, failures, touched>>
  /\ Becomes(p, IF CanContinue(r) THEN GivesUp(r) ELSE Stops(r))

----------------------------------------------------------------------------
(* The user edits advisor.json, which may be malformed for a while.        *)
EditByHand(e) ==
  /\ e \notin edits /\ edits' = edits \cup {e} /\ Loads
  /\ file.keys[e.key] # e.value
  /\ file' = [file EXCEPT !.keys[e.key] = e.value]
  /\ UNCHANGED <<proc, touched, off, breaks, failures, commands>>

BreakFile ==
  /\ breaks < inst.breaks /\ breaks' = breaks + 1 /\ Loads
  /\ file' = [file EXCEPT !.malformed = TRUE]
  /\ UNCHANGED <<proc, touched, off, edits, failures, commands>>

FixFile ==
  /\ file.malformed /\ file' = [file EXCEPT !.malformed = FALSE]
  /\ UNCHANGED <<proc, touched, off, edits, breaks, failures, commands>>

ConfigStep ==
  \/ \E p \in Processes :
       \/ ToolCall(p) \/ SessionStart(p)
       \/ OpenDialog(p) \/ CloseDialog(p) \/ AdvisorOff(p) \/ OpenPicker(p) \/ PickerCancelled(p)
       \/ proc[p].dialog # None /\ \E choice \in inst.choices : DialogChange(p, choice)
       \/ proc[p].dialog # None /\
          \E on \in {c.value : c \in {d \in inst.choices : d.key = "jev"}} : JevChange(p, on)
       \/ \E m \in Models : ModelSelect(p, m)
       \/ \E m, n \in Models : Picked(p, m, n)
       \/ \E m, n \in Models \cup {None} : Activate(p, m, n)
       \/ \E n \in Models \cup {None} : ActivationPicked(p, n)
       \/ \E found \in BOOLEAN : Authorised(p, found)
       \/ Activated(p) \/ ExecutorRefused(p)
  \/ \E e \in inst.edits : EditByHand(e)
  \/ BreakFile \/ FixFile

ConfigNext == ConfigStep /\ UNCHANGED inst

ConfigSpec == ConfigInit /\ [][ConfigNext]_configVars

----------------------------------------------------------------------------
Activation ==
  [pc : {"none", "pick", "auth", "executor"}, announce : BOOLEAN, args : BOOLEAN,
   picked : BOOLEAN, pending : BOOLEAN, executor : Values, advisor : Values,
   previous : Stored, attempted : Stored, revision : Nat]
Process ==
  [started : BOOLEAN, refs : Stored, baseline : Stored \cup {None},
   persisted : SUBSET References, dialog : Stored \cup {None}, stale : BOOLEAN,
   picker : BOOLEAN, activation : Activation, revision : Nat,
   pendingModel : Models \cup {None}, active : BOOLEAN]
ConfigTypeOK ==
  /\ inst \in Instances /\ file \in [keys : Stored, malformed : BOOLEAN]
  /\ proc \in [Processes -> Process]
  /\ touched \in [Processes -> SUBSET Keys] /\ off \in [Processes -> BOOLEAN]

\* What a process would save it has set since it last read the file, and so it
\* has what its dialog shows otherwise than the file was, unless the dialog is
\* from before that.
OwnChanges(r, T) ==
  /\ r.started => Changed(r) \subseteq T
  /\ r.dialog # None /\ ~r.stale /\ r.baseline # None =>
       {k \in DialogKeys \cap SavedKeys : r.dialog[k] # r.baseline[k]} \subseteq T

\* An activation under way has touched no value it may put back, and after the
\* tools were disabled it is of an earlier revision, so that it ends.
Outdated(r, disabled) ==
  /\ r.activation.pc # "none" =>
       /\ r.activation.previous = r.activation.attempted
       /\ r.activation.revision <= r.revision
       /\ disabled => r.activation.revision # r.revision
  /\ disabled => ~r.active

Begun(r, disabled) == Modal(r) \/ r.activation.pc # "none" \/ disabled => r.started

ConfigInv ==
  /\ ConfigTypeOK
  /\ \A p \in Processes : /\ OwnChanges(proc[p], touched[p])
                          /\ Outdated(proc[p], off[p]) /\ Begun(proc[p], off[p])

\* Once the tools are disabled in a session, an activation that was under way
\* does not turn them on again (toolAvailabilityRevision, commands/runtime.ts).
OffStays == \A p \in Processes : off[p] => ~proc[p].active

\* A save leaves alone what was not set in its process since it last read the
\* file, so that edits by hand and the saves of other processes stay
\* (saveConfig).  A dialog that is older than that reading, a reading that
\* failed and an activation count as setting what they apply; a choice in
\* the dialog sets the consent it writes beside it, and one that disables the
\* tools ends that they are always on.
SavesOwn ==
  \A p \in Processes :
    proc'[p] # proc[p] => {k \in Keys : file'.keys[k] # file.keys[k]} \subseteq touched'[p]

\* "so an unusable model reference is never written to the configuration"
\* (activation.ts): without a picker or a hand, it is not written.
UnusableNeverSaved == file.keys.advisor \notin Unusable
=============================================================================
