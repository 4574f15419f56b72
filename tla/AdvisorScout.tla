---------------------------- MODULE AdvisorScout ----------------------------
(***************************************************************************)
(* Scout: before the Advisor is asked, a smaller model picks the parts of  *)
(* the conversation it shall see (scout-context.ts, scout-protocol.ts,     *)
(* scout-groups.ts, scout.ts, scout-curation.ts).  The session branch is   *)
(* projected, its entries are grouped so that a tool call is never parted  *)
(* from its result, the groups are fitted to the transport's limits, Scout *)
(* selects among them within a timeout, and whatever goes wrong the recent *)
(* conversation is sent as it is (conversation.ts).                        *)
(*                                                                         *)
(* Texts are sizes; secrets, tool policies and images' pixels are left     *)
(* out.  An entry is known by its place in the branch.                     *)
(***************************************************************************)
EXTENDS Naturals, Sequences, FiniteSets, SequencesExt, FiniteSetsExt

CONSTANTS Branches,        \* the session branches that are tried
          Budgets,         \* characters left for the conversation
          maxResult,       \* toolResultMaxBytes
          maxGroupBytes, maxGroups, maxManifestBytes, maxIds, maxSynthesis,
          Overhead,        \* bytes of a group on the wire beside its content
          Separator,       \* the size of what is put between two texts
          Marker,          \* the size of the notes on what was left out
          None

VARIABLES
  branch,        \* the session branch, oldest first
  invocation,    \* the tool call that asks the Advisor; None for the user's command
  maxChars,
  manifest,      \* what Scout is offered: [ok, groups, omitted, available]
  phase,         \* "start", "resolving", "streaming", "done" or "cancelled"
  aborted,       \* of the caller's signal
  status,        \* ScoutStatusManager: of this consultation's token
  conversation   \* what the Advisor gets: [source, entries, size, synthesis]

scoutVars == <<branch, invocation, maxChars, manifest, phase, aborted, status, conversation>>

----------------------------------------------------------------------------
(* The branch.  An older host does not project it itself.                  *)
(* An entry is [kind, ...]: a user's with text and image, an assistant's   *)
(* with text and calls, a toolResult with call, named and text, a          *)
(* compaction with text and firstKept, a reset_boundary, or system.        *)
Kind(i) == branch[i].kind
IsResult(i) == Kind(i) = "toolResult"
Calls(i) == IF Kind(i) = "assistant" THEN branch[i].calls ELSE << >>

projectBranch ==
  LET all == [i \in DOMAIN branch |-> i]
      from == SelectLastInSeq(all, LAMBDA i : Kind(i) = "reset_boundary") + 1
      at == SelectLastInSubSeq(all, from, Len(all), LAMBDA i : Kind(i) = "compaction")
      kept == branch[at].firstKept
      Projected(i) == Kind(i) \notin {"compaction", "system"}
  IN  IF at = 0 THEN SubSeq(all, from, Len(all))
      ELSE <<at>>
           \o (IF kept \in from..(at - 1) THEN SelectSeq(SubSeq(all, kept, at - 1), Projected)
               ELSE << >>)
           \o SubSeq(all, at + 1, Len(all))

Sum(sizes) == FoldLeft(+, 0, sizes)
Joined(sizes) ==
  LET said == SelectSeq(sizes, LAMBDA n : n > 0)
  IN  Sum(said) + Separator * (IF said = << >> THEN 0 ELSE Len(said) - 1)

(* What an entry discloses: nothing at all is 0.  A call shows its name    *)
(* and arguments, an image a marker, a result as much as is allowed.       *)
conversationEntry(i) ==
  CASE Kind(i) = "user" -> branch[i].text + (IF branch[i].image THEN 1 ELSE 0)
    [] Kind(i) = "assistant" -> branch[i].text + Len(branch[i].calls)
    [] Kind(i) = "toolResult" -> 1 + Min({branch[i].text, maxResult})
    [] Kind(i) = "compaction" -> branch[i].text
    [] OTHER -> 0

----------------------------------------------------------------------------
(* recentConversation: the newest entries that fit, or a piece of the      *)
(* newest of all.                                                          *)
recentConversation ==
  LET shown == SelectSeq(projectBranch, LAMBDA i : conversationEntry(i) > 0)
      Newest(n) == SubSeq(shown, Len(shown) - n + 1, Len(shown))
      Size(n) == Joined([k \in 1..n |-> conversationEntry(Newest(n)[k])])
      Fits(n) == Marker + Separator + Size(n) <= maxChars
      fitting == {n \in 0..Len(shown) : \A m \in 1..n : Fits(m)}
      Recent(entries, size) ==
        [source |-> "recent", entries |-> entries, size |-> size, synthesis |-> FALSE]
  IN  IF Size(Len(shown)) <= maxChars THEN Recent(shown, Size(Len(shown)))
      ELSE IF Len(shown) > 1 /\ Max(fitting) > 0
           THEN Recent(Newest(Max(fitting)), Marker + Separator + Size(Max(fitting)))
           ELSE Recent(Newest(1), maxChars)

----------------------------------------------------------------------------
(* indexToolCalls and buildGroups                                          *)

ResultsOf(call, es) == {k \in DOMAIN es : IsResult(es[k]) /\ branch[es[k]].call = call}
OwnersOf(call, es) == {k \in DOMAIN es : Contains(Calls(es[k]), call)}
latestUser(es) ==
  SelectLastInSeq(es, LAMBDA i : Kind(i) = "user" /\ branch[i].text > 0)

\* A call that is made twice, or that is answered twice.
IndexInvalid(es) ==
  \/ \E k \in DOMAIN es : \E n \in DOMAIN Calls(es[k]) :
       \/ OwnersOf(Calls(es[k])[n], es) # {k}
       \/ \E m \in DOMAIN Calls(es[k]) : m # n /\ Calls(es[k])[m] = Calls(es[k])[n]
  \/ \E k \in DOMAIN es : IsResult(es[k]) /\ Cardinality(ResultsOf(branch[es[k]].call, es)) > 1

Group(k, entries, kind, bytes, required) ==
  [at |-> k, entries |-> entries, kind |-> kind, bytes |-> bytes, required |-> required]

(* A call and its results form one group.  A group that is not complete is *)
(* omitted with the results it has, unless the only missing result is that *)
(* of the consultation itself.                                             *)
Exchange(es, k, acc) ==
  LET calls == Calls(es[k])
      given == [n \in DOMAIN calls |-> ResultsOf(calls[n], es)]
      found == UNION {given[n] : n \in DOMAIN calls}
      missing == {n \in DOMAIN calls : given[n] = {}}
      answers == SelectSeq([n \in DOMAIN calls |-> IF given[n] = {} THEN 0 ELSE Max(given[n])],
                           LAMBDA j : j > 0)
      entries == <<es[k]>> \o [n \in DOMAIN answers |-> es[answers[n]]]
      bytes == Joined([n \in DOMAIN entries |-> conversationEntry(entries[n])])
      pending == {calls[n] : n \in missing} = {invocation}
      stray == /\ k < Len(es) /\ IsResult(es[k + 1])
               /\ OwnersOf(branch[es[k + 1]].call, es) = {}
      Consumed(a) == [a EXCEPT !.consumed = @ \cup found]
  IN  IF stray \/ \E j \in found : j <= k \/ ~branch[es[j]].named
      THEN [acc EXCEPT !.ok = FALSE]
      ELSE IF missing = {}
      THEN Consumed([acc EXCEPT !.groups = Append(@, Group(k, entries, "tool-exchange", bytes, FALSE))])
      ELSE IF pending
      THEN Consumed([acc EXCEPT !.groups =
                       Append(@, Group(k, entries, "pending-invocation", bytes, TRUE))])
      ELSE Consumed([acc EXCEPT !.omitted = @ + 1])

\* Mutant: a result without its call is shown by itself.
GroupEntryStray(es, k, acc) ==
  LET i == es[k]
      Single(kind, required) ==
        [acc EXCEPT !.groups = Append(@, Group(k, <<i>>, kind, conversationEntry(i), required))]
  IN  CASE Calls(i) # << >> -> Exchange(es, k, acc)
        [] IsResult(i) -> IF k \in acc.consumed THEN acc ELSE Single("assistant", FALSE)
        [] OTHER -> Single(Kind(i), k = latestUser(es))

GroupEntry(es, k, acc) ==
  LET i == es[k]
      Single(kind, required) ==
        [acc EXCEPT !.groups = Append(@, Group(k, <<i>>, kind, conversationEntry(i), required))]
  IN  CASE conversationEntry(i) = 0 -> acc
        [] Calls(i) # << >> -> Exchange(es, k, acc)
        [] IsResult(i) /\ k \in acc.consumed -> acc
        [] IsResult(i) /\ OwnersOf(branch[i].call, es) # {} -> [acc EXCEPT !.ok = FALSE]
        [] IsResult(i) -> [acc EXCEPT !.omitted = @ + 1]
        [] OTHER -> Single(Kind(i), k = latestUser(es))

Nothing == [ok |-> TRUE, groups |-> << >>, omitted |-> 0, consumed |-> {}]
buildGroups(es) ==
  FoldLeft(LAMBDA acc, k : IF acc.ok THEN GroupEntry(es, k, acc) ELSE acc, Nothing,
           [k \in DOMAIN es |-> k])

----------------------------------------------------------------------------
(* fitToBudget: what is required must fit; of the rest the oldest goes     *)
(* first, and what is too large by itself is not offered.                  *)
Wire(groups) == Sum([n \in DOMAIN groups |-> groups[n].bytes + Overhead])
contentChars(groups) ==
  Sum([n \in DOMAIN groups |-> groups[n].bytes])
  + Separator * (IF groups = << >> THEN 0 ELSE Len(groups) - 1)
Fitting(groups) ==
  /\ Len(groups) <= maxGroups /\ Wire(groups) <= maxManifestBytes
  /\ contentChars(groups) <= maxChars
requiredOverflow(required) ==
  ~Fitting(required) \/ \E n \in DOMAIN required : required[n].bytes > maxGroupBytes

fitToBudget(built) ==
  LET IsRequired(g) == g.required
      offered == SelectSeq(built.groups, LAMBDA g : g.required \/ g.bytes <= maxGroupBytes)
      optional == SelectSeq(offered, LAMBDA g : ~g.required)
      Without(n) == SelectSeq(offered, LAMBDA g : \A m \in 1..n : optional[m] # g)
      groups == Without(Min({n \in 0..Len(optional) : Fitting(Without(n))}))
  IN  IF requiredOverflow(SelectSeq(built.groups, IsRequired))
      THEN [ok |-> FALSE, groups |-> << >>, omitted |-> 0, available |-> 0]
      ELSE [ok |-> TRUE, groups |-> groups,
            omitted |-> built.omitted + Len(built.groups) - Len(groups),
            available |-> Len(built.groups) + built.omitted]

buildScoutManifest ==
  LET es == projectBranch
      built == buildGroups(es)
  IN  IF IndexInvalid(es) \/ ~built.ok
      THEN [ok |-> FALSE, groups |-> << >>, omitted |-> 0, available |-> 0]
      ELSE fitToBudget(built)

----------------------------------------------------------------------------
(* Scout's answer: the groups it names, those it made up dropped, what is  *)
(* required added, and the optional ones cut to the first it named.        *)
Ids == {g.at : g \in ToSet(manifest.groups)}
Unknown == 0
Answers ==
  [ids : {s \in BoundedSeq(Ids \cup {Unknown}, 2) : \A n, m \in DOMAIN s : s[n] = s[m] => n = m},
   synthesis : {0, 1, maxSynthesis + 1}]

parseScoutSelection(answer) ==
  LET groups == manifest.groups
      required == {g.at : g \in {g \in ToSet(groups) : g.required}}
      known == SelectSeq(answer.ids, LAMBDA id : id \in Ids)
      optional == SelectSeq(known, LAMBDA id : id \notin required)
      room == maxIds - Cardinality(required)
      retained == required \cup ToSet(SubSeq(optional, 1, Min({room, Len(optional)})))
  IN  IF room < 0 \/ answer.synthesis > maxSynthesis THEN [ok |-> FALSE, ids |-> {}, synthesis |-> 0]
      ELSE [ok |-> TRUE, ids |-> retained,
            synthesis |-> IF known = << >> THEN 0 ELSE answer.synthesis]

(* The evidence in its old order, then as much of the synthesis as fits.   *)
reconstructScoutConversation(selection) ==
  LET groups == SelectSeq(manifest.groups,
                          LAMBDA g : g.required \/ g.at \in selection.ids)
      evidence == contentChars(groups)
      separator == IF groups = << >> THEN 0 ELSE Separator
      room == IF evidence + separator < maxChars THEN maxChars - evidence - separator ELSE 0
      inference == IF selection.synthesis = 0 THEN 0 ELSE Min({Marker + selection.synthesis, room})
  IN  [source |-> "scout",
       entries |-> FlattenSeq([n \in DOMAIN groups |-> groups[n].entries]),
       size |-> IF evidence >= maxChars THEN maxChars
                ELSE IF inference = 0 THEN evidence ELSE evidence + separator + inference,
       synthesis |-> inference > 0]

----------------------------------------------------------------------------
(* Curation                                                                *)

NoManifest == [ok |-> FALSE, groups |-> << >>, omitted |-> 0, available |-> 0]
NoConversation == [source |-> None, entries |-> << >>, size |-> 0, synthesis |-> FALSE]

ScoutInit ==
  /\ branch \in Branches
  /\ invocation \in {None} \cup UNION {ToSet(Calls(i)) : i \in DOMAIN branch}
  /\ maxChars \in Budgets
  /\ manifest = NoManifest /\ phase = "start" /\ aborted = FALSE
  /\ status = "known" /\ conversation = NoConversation

Released == status' = "retired"
Sends(c) == phase' = "done" /\ conversation' = c
FallsBack == Sends(recentConversation) /\ Released
Cancels == phase' = "cancelled" /\ Released /\ UNCHANGED conversation

(* Nothing is left for a conversation, or Scout is off; else the manifest  *)
(* is built, which may fail.                                               *)
Curate(enabled) ==
  /\ phase = "start"
  /\ IF ~enabled \/ maxChars = 0
     THEN Sends(recentConversation) /\ UNCHANGED <<manifest, status>>
     ELSE /\ manifest' = buildScoutManifest
          /\ IF ~manifest'.ok THEN FallsBack
             ELSE IF aborted THEN Cancels
             ELSE phase' = "resolving" /\ UNCHANGED <<status, conversation>>
  /\ UNCHANGED <<branch, invocation, maxChars, aborted>>

(* The executor's model is looked up, which waits for its key.             *)
Resolve(found) ==
  /\ phase = "resolving"
  /\ IF aborted THEN Cancels
     ELSE IF ~found THEN FallsBack
     ELSE /\ phase' = "streaming" /\ UNCHANGED conversation
          /\ status' = IF status = "retired" THEN status ELSE "active"
  /\ UNCHANGED <<branch, invocation, maxChars, manifest, aborted>>

(* The answer is whole, or the stream failed or timed out.  A caller that  *)
(* gave up meanwhile gets no conversation, whichever came first.           *)
Streamed(answer) ==
  /\ phase = "streaming"
  /\ LET selection == parseScoutSelection(answer) IN
     IF aborted THEN Cancels
     ELSE IF selection.ok THEN Sends(reconstructScoutConversation(selection)) /\ Released
     ELSE FallsBack
  /\ UNCHANGED <<branch, invocation, maxChars, manifest, aborted>>

StreamFailed ==
  /\ phase = "streaming"
  /\ IF aborted THEN Cancels ELSE FallsBack
  /\ UNCHANGED <<branch, invocation, maxChars, manifest, aborted>>

Abort ==
  /\ phase \notin {"done", "cancelled"} /\ ~aborted
  /\ aborted' = TRUE
  /\ UNCHANGED <<branch, invocation, maxChars, manifest, phase, status, conversation>>

(* The session ends: ScoutStatusManager.clear.                             *)
SessionEnds ==
  /\ phase \in {"resolving", "streaming"} /\ status # "retired"
  /\ Released
  /\ UNCHANGED <<branch, invocation, maxChars, manifest, phase, aborted, conversation>>

ScoutNext ==
  \/ \E enabled \in BOOLEAN : Curate(enabled)
  \/ \E found \in BOOLEAN : Resolve(found)
  \/ phase = "streaming" /\ \E answer \in Answers : Streamed(answer)
  \/ StreamFailed \/ Abort \/ SessionEnds

ScoutSpec == ScoutInit /\ [][ScoutNext]_scoutVars

----------------------------------------------------------------------------
ScoutTypeOK ==
  /\ phase \in {"start", "resolving", "streaming", "done", "cancelled"}
  /\ aborted \in BOOLEAN /\ status \in {"known", "active", "retired"}
  /\ conversation.source \in {None, "recent", "scout"}

Shown == ToSet(conversation.entries)
Curated == conversation.source = "scout"

\* What Scout curated never parts a call from its result: of each call that is
\* shown the result is, and of each result the call, save the consultation that
\* is being made (scout-groups.ts).
NoHalfExchange ==
  Curated =>
    /\ \A i \in Shown : \A n \in DOMAIN Calls(i) :
         Calls(i)[n] = invocation \/ \E j \in Shown : IsResult(j) /\ branch[j].call = Calls(i)[n]
    /\ \A j \in Shown : IsResult(j) => \E i \in Shown : i < j /\ Contains(Calls(i), branch[j].call)

\* The user's latest words and the call in progress reach the Advisor whole,
\* whatever Scout answers and however small the budget is: they fit, or Scout is
\* not asked (scout-context.ts, scout-reconstruct.ts).
RequestKept ==
  Curated =>
    LET visible == ToSet(projectBranch)
        Open(i, n) == ~\E j \in visible : IsResult(j) /\ branch[j].call = Calls(i)[n]
        spoken == {i \in visible : Kind(i) = "user" /\ branch[i].text > 0}
        asking == {i \in visible : /\ Contains(Calls(i), invocation)
                                   /\ \A n \in DOMAIN Calls(i) : Open(i, n) <=> Calls(i)[n] = invocation}
    IN  /\ spoken # {} => Max(spoken) \in Shown
        /\ asking \subseteq Shown
        /\ conversation.size <= maxChars
        /\ conversation.size >= Sum([n \in DOMAIN conversation.entries |->
                                      conversationEntry(conversation.entries[n])])

\* No entry is shown twice, and none from before a reset or a compaction.
ShownOnce ==
  /\ Cardinality(Shown) = Len(conversation.entries)
  /\ \A i \in Shown, b \in DOMAIN branch :
       (Kind(b) = "reset_boundary" \/ (Kind(b) = "compaction" /\ i < branch[b].firstKept)) => i >= b

\* The footer says that Scout is at work only while it is (scout-status.ts).
StatusFollows == status = "active" => phase = "streaming"

ScoutSound == NoHalfExchange /\ RequestKept /\ ShownOnce /\ StatusFollows
=============================================================================
