--------------------------- MODULE AdvisorConsult ---------------------------
(***************************************************************************)
(* A consultation of the Advisor (tools/consultation.ts): what it may ask, *)
(* what it discloses, the model it falls back on, and the cached payloads  *)
(* that a follow-up continues (follow-up.ts).                              *)
(*                                                                         *)
(* The settings are read where they are used, and a consultation waits at  *)
(* many places; loadConfig and the dialog change them between two waits.   *)
(* Of a message the model keeps the disclosures its parts were made under, *)
(* the files, and their sizes.                                             *)
(***************************************************************************)
EXTENDS Naturals, Sequences, FiniteSets, SequencesExt

CONSTANTS
  Tasks,                      \* consultations under way
  Settings,                   \* what the settings may be
  Requests,                   \* files that may be asked for
  executor,                   \* ctx.model
  None,
  FOLLOW_UP_TTL, FOLLOW_UP_MAX_DEPTH, FOLLOW_UP_MAX_TOOL_CALLS,
  FILE_MAX, FILES_TOTAL, IMAGES_MAX_COUNT, IMAGES_TOTAL,
  MaxStarts,                  \* bound: consultations
  MaxChanges,                 \* bound: changes of the settings
  MaxTime, MaxCalls           \* bounds: time and calls of other tools

VARIABLES
  settings,   \* the settings in force
  followUps,  \* AdvisorFollowUpCache: payload by the number of its advice
  talk,       \* what each consultation is doing
  now, calls, \* time, and tool results so far
  asked, changes

consultVars == <<settings, followUps, talk, now, calls, asked, changes>>

----------------------------------------------------------------------------
\* advisorPrivacyKey: every setting that decides what is disclosed.
Key(s) == [redact |-> s.redact, files |-> s.files]
advisorPrivacyKey == Key(settings)

sameModelAdvisorDisabled(model) == settings.disableSame /\ model = executor
advisorModelAccess == settings.whitelisted
Permitted(model) == ~sameModelAdvisorDisabled(model) /\ advisorModelAccess

Message == [under |-> {}, files |-> << >>, images |-> << >>]
Idle ==
  [pc |-> "idle", no |-> 0, captures |-> FALSE, followUp |-> None, payload |-> None,
   request |-> None, primary |-> None, model |-> None, attempt |-> 1, aborted |-> FALSE,
   prepared |-> None, building |-> Message, sent |-> << >>]

ConsultInit ==
  /\ settings \in Settings
  /\ followUps = [a \in 1..MaxStarts |-> None]
  /\ talk = [t \in Tasks |-> Idle]
  /\ now = 0 /\ calls = 0 /\ asked = 0 /\ changes = 0

----------------------------------------------------------------------------
(* The cache.                                                              *)

\* AdvisorFollowUpCache.get
Cached(a) == a # None /\ followUps[a] # None
Servable(a) ==
  Cached(a) /\ now < followUps[a].expiresAt /\ followUps[a].depth < FOLLOW_UP_MAX_DEPTH
Dropped(a) == [followUps EXCEPT ![a] = IF @ # None /\ now >= @.expiresAt THEN None ELSE @]

Captured(r) ==
  LET entry == [depth |-> IF r.followUp = None THEN 0 ELSE r.payload.depth + 1,
                message |-> r.prepared.message, model |-> r.model, key |-> r.prepared.key,
                redacted |-> r.prepared.redacted, expiresAt |-> now + FOLLOW_UP_TTL,
                toolCalls |-> 0, since |-> calls]
  IN  [a \in DOMAIN followUps |->
         IF a = r.no THEN entry ELSE IF a = r.followUp THEN None ELSE followUps[a]]

----------------------------------------------------------------------------
(* Attachments (attachments.ts, image-attachments.ts, images.ts): the      *)
(* untracked files first, then the tracked ones, then the pictures of the  *)
(* conversation, as long as there is room.                                 *)
AttachFile(limit, acc, file) ==
  LET room == limit - FoldLeft(LAMBDA n, f : n + f.bytes, 0, acc)
      bytes == IF file.size < FILE_MAX THEN file.size ELSE FILE_MAX
  IN  IF file.image \/ room = 0 THEN acc
      ELSE Append(acc, [name |-> file.name, bytes |-> IF bytes < room THEN bytes ELSE room])

AttachImage(acc, file) ==
  LET total == FoldLeft(LAMBDA n, f : n + f.bytes, 0, acc)
  IN  IF file.image /\ Len(acc) < IMAGES_MAX_COUNT /\ total + file.size <= IMAGES_TOTAL
      THEN Append(acc, [name |-> file.name, bytes |-> file.size])
      ELSE acc

Allowed(files) == IF settings.files THEN files ELSE << >>
AttachFiles(m, files) ==
  [m EXCEPT !.files = FoldLeft(LAMBDA acc, f : AttachFile(FILES_TOTAL, acc, f), @, Allowed(files))]
AttachImages(m, files) == [m EXCEPT !.images = FoldLeft(AttachImage, @, files)]

----------------------------------------------------------------------------
Goes(t, r) == talk' = [talk EXCEPT ![t] = r]
Ends(t) == Goes(t, Idle)
At(t, pc) == talk[t].pc = pc
Rest == UNCHANGED <<settings, now, calls, asked, changes>>

(* ask_advisor, execute: a follow-up is looked up and its settings are     *)
(* compared; then the screening is awaited.                                *)
Ask(t) ==
  /\ At(t, "idle") /\ asked < MaxStarts /\ asked' = asked + 1
  /\ UNCHANGED <<settings, now, calls, changes>>
  /\ \/ \E request \in Requests :
          /\ UNCHANGED followUps
          /\ IF Permitted(settings.primary)
             THEN Goes(t, [Idle EXCEPT !.pc = "screen", !.no = asked + 1, !.captures = TRUE,
                                       !.request = request])
             ELSE UNCHANGED talk
     \/ \E a \in 1..asked :
          /\ followUps' = Dropped(a)
          /\ IF /\ Servable(a) /\ followUps[a].key = advisorPrivacyKey
                /\ Permitted(followUps[a].model)
             THEN Goes(t, [Idle EXCEPT !.pc = "screen", !.no = asked + 1, !.captures = TRUE,
                                       !.followUp = a, !.payload = followUps[a]])
             ELSE UNCHANGED talk

\* collectAdvisorResponse, up to its first wait.
Collects(t, r) ==
  LET primary == IF r.followUp = None THEN settings.primary ELSE r.payload.model
  IN  IF Permitted(primary)
      THEN Goes(t, [r EXCEPT !.pc = "resolve", !.primary = primary, !.model = primary])
      ELSE Ends(t)

Screened(t) ==
  /\ At(t, "screen") /\ Rest /\ UNCHANGED followUps
  /\ Ends(t) \/ Collects(t, talk[t])

\* The gates ask at once, and nothing follows up on their decisions.
Gate(t) ==
  /\ At(t, "idle") /\ asked < MaxStarts /\ asked' = asked + 1
  /\ UNCHANGED <<settings, followUps, now, calls, changes>>
  /\ \E request \in Requests : Collects(t, [Idle EXCEPT !.no = asked + 1, !.request = request])

----------------------------------------------------------------------------
(* The request.                                                            *)

Streams(t, r) ==
  Goes(t, [r EXCEPT !.pc = "stream",
                    !.sent = Append(@, [model |-> r.model, key |-> r.prepared.key,
                                        under |-> r.prepared.message.under,
                                        inForce |-> advisorPrivacyKey])])

\* Mutant: the settings of a follow-up are compared when it is looked up only.
FollowsUpUnchecked(t, r) ==
  Streams(t, [r EXCEPT !.prepared = [message |-> r.payload.message, key |-> r.payload.key,
                                     redacted |-> settings.redact \/ r.payload.redacted]])

\* prepareFollowUp
FollowsUp(t, r) ==
  IF r.payload.key # advisorPrivacyKey THEN Ends(t)
  ELSE Streams(t, [r EXCEPT !.prepared = [message |-> r.payload.message, key |-> r.payload.key,
                                          redacted |-> settings.redact \/ r.payload.redacted]])

\* assembleConsultationContext: changes and conversation are taken at once.
Assembles(t, r) ==
  Goes(t, [r EXCEPT !.pc = "curate", !.building = [Message EXCEPT !.under = {advisorPrivacyKey}]])

(* runFallbackAdvisorAttempt, up to its first wait.                        *)
FallsBack(t) ==
  LET r == talk[t] IN
  IF r.attempt = 2 \/ r.aborted \/ settings.fallback \in {None, r.primary}
     \/ ~Permitted(settings.fallback)
  THEN Ends(t)
  ELSE Goes(t, [r EXCEPT !.pc = "resolve", !.attempt = 2, !.model = settings.fallback])

(* The model is found and its key read, or not.  What was prepared for the *)
(* primary serves the fallback as well.                                    *)
Resolve(t, found) ==
  LET r == talk[t] IN
  /\ At(t, "resolve") /\ Rest /\ UNCHANGED followUps
  /\ IF ~found \/ r.model = None THEN FallsBack(t)
     ELSE IF r.prepared # None THEN Streams(t, r)
     ELSE IF r.followUp # None THEN FollowsUp(t, r)
     ELSE Assembles(t, r)

\* Scout has curated, or cancelled with its caller; the rules are read.
Curated(t) ==
  /\ At(t, "curate") /\ Rest /\ UNCHANGED followUps
  /\ \/ talk[t].aborted /\ Ends(t)
     \/ Goes(t, [talk[t] EXCEPT !.pc = "untracked", !.building.under = @ \cup {advisorPrivacyKey}])

Untracked(t) ==
  /\ At(t, "untracked") /\ Rest /\ UNCHANGED followUps
  /\ LET r == talk[t] IN
     Goes(t, [r EXCEPT !.pc = "tracked",
                       !.building = AttachFiles([@ EXCEPT !.under = @ \cup {advisorPrivacyKey}],
                                                r.request.untracked)])

Tracked(t) ==
  /\ At(t, "tracked") /\ Rest /\ UNCHANGED followUps
  /\ LET r == talk[t] IN
     Goes(t, [r EXCEPT !.pc = "images",
                       !.building = AttachFiles([@ EXCEPT !.under = @ \cup {advisorPrivacyKey}],
                                                r.request.tracked)])

Imaged(t) ==
  /\ At(t, "images") /\ Rest /\ UNCHANGED followUps
  /\ \E supports \in BOOLEAN :
       LET r == talk[t]
           files == Allowed(r.request.untracked \o r.request.tracked) \o r.request.conversation
           noted == [r.building EXCEPT !.under = @ \cup {advisorPrivacyKey}]
       IN  Goes(t, [r EXCEPT !.pc = "built",
                             !.building = IF supports THEN AttachImages(noted, files) ELSE noted])

\* The message is whole.  Its key is that of the settings in force now.
Built(t) ==
  /\ At(t, "built") /\ Rest /\ UNCHANGED followUps
  /\ LET r == talk[t] IN
     Streams(t, [r EXCEPT !.building = Message,
                          !.prepared = [message |-> [r.building EXCEPT !.under = @ \cup {advisorPrivacyKey}],
                                        key |-> advisorPrivacyKey, redacted |-> settings.redact]])

\* The answer; its payload may be followed up.
Answered(t) ==
  /\ At(t, "stream") /\ ~talk[t].aborted /\ Rest /\ Ends(t)
  /\ followUps' = IF talk[t].captures THEN Captured(talk[t]) ELSE followUps

\* No advice, an error of the provider, or the caller has gone.
Failed(t) ==
  /\ At(t, "stream") /\ Rest /\ UNCHANGED followUps /\ FallsBack(t)

----------------------------------------------------------------------------
(* Around the consultations.                                               *)

Abort(t) ==
  /\ ~At(t, "idle") /\ ~talk[t].aborted
  /\ Goes(t, [talk[t] EXCEPT !.aborted = TRUE]) /\ Rest /\ UNCHANGED followUps

\* loadConfig finds the file edited, or the dialog changes a setting.
ChangeSettings ==
  /\ changes < MaxChanges /\ changes' = changes + 1
  /\ settings' \in Settings \ {settings}
  /\ UNCHANGED <<followUps, talk, now, calls, asked>>

\* Mutant: the last call that is allowed is not counted.
AgedLate(e) ==
  IF e = None \/ now >= e.expiresAt \/ e.toolCalls >= FOLLOW_UP_MAX_TOOL_CALLS THEN None
  ELSE [e EXCEPT !.toolCalls = @ + 1]

Aged(e) ==
  IF e = None \/ now >= e.expiresAt \/ e.toolCalls + 1 >= FOLLOW_UP_MAX_TOOL_CALLS THEN None
  ELSE [e EXCEPT !.toolCalls = @ + 1]

\* advanceToolCall: a result of any other tool.
ToolResult ==
  /\ calls < MaxCalls /\ calls' = calls + 1
  /\ followUps' = [a \in DOMAIN followUps |-> Aged(followUps[a])]
  /\ UNCHANGED <<settings, talk, now, asked, changes>>

\* input, session_shutdown: clearFollowUps.
Input ==
  /\ \E a \in DOMAIN followUps : followUps[a] # None
  /\ followUps' = [a \in DOMAIN followUps |-> None]
  /\ Rest /\ UNCHANGED talk

Tick ==
  /\ now < MaxTime /\ now' = now + 1
  /\ UNCHANGED <<settings, followUps, talk, calls, asked, changes>>

ConsultNext ==
  \/ \E t \in Tasks :
       \/ Ask(t) \/ Gate(t) \/ Screened(t) \/ \E found \in BOOLEAN : Resolve(t, found)
       \/ Curated(t) \/ Untracked(t) \/ Tracked(t) \/ Imaged(t) \/ Built(t)
       \/ Answered(t) \/ Failed(t) \/ Abort(t)
  \/ ChangeSettings \/ ToolResult \/ Input \/ Tick

ConsultSpec == ConsultInit /\ [][ConsultNext]_consultVars

----------------------------------------------------------------------------
ConsultTypeOK ==
  \A t \in Tasks :
    /\ talk[t].pc \in {"idle", "screen", "resolve", "curate", "untracked", "tracked", "images",
                       "built", "stream"}
    /\ talk[t].attempt \in 1..2

\* The settings that decide what is disclosed are those of the original
\* consultation when a follow-up is sent to its model, however long the
\* screening and the key took (assertAdvisorFollowUpPrivacy).
KeyedWhenSent ==
  \A t \in Tasks :
    (talk[t].followUp # None /\ talk[t].sent # << >>) => talk[t].sent[1].key = talk[t].sent[1].inForce

\* A consultation asks at most two models, and never the same one twice.
FallsBackOnce ==
  \A t \in Tasks :
    LET sent == talk[t].sent IN
    /\ Len(sent) <= 2
    /\ \A i, j \in DOMAIN sent : i # j => sent[i].model # sent[j].model

\* A chain is as long as it may be and no longer, and what is kept has been
\* left alone by other tools (follow-up.ts).
ChainsBounded ==
  /\ \A a \in DOMAIN followUps :
       followUps[a] # None =>
         /\ followUps[a].depth <= FOLLOW_UP_MAX_DEPTH
         /\ calls - followUps[a].since < FOLLOW_UP_MAX_TOOL_CALLS
         /\ followUps[a].key.redact => followUps[a].redacted
  /\ \A t \in Tasks : talk[t].followUp # None => talk[t].payload.depth < FOLLOW_UP_MAX_DEPTH

\* What is attached stays within the limits of files and pictures, across the
\* two kinds of files and the pictures of the conversation.
AttachmentsBounded ==
  \A t \in Tasks :
    \A m \in {talk[t].building} \cup (IF talk[t].prepared = None THEN {} ELSE {talk[t].prepared.message}) :
      /\ FoldLeft(LAMBDA n, f : n + f.bytes, 0, m.files) <= FILES_TOTAL
      /\ FoldLeft(LAMBDA n, f : n + f.bytes, 0, m.images) <= IMAGES_TOTAL
      /\ Len(m.images) <= IMAGES_MAX_COUNT

ConsultSound == KeyedWhenSent /\ FallsBackOnce /\ ChainsBounded /\ AttachmentsBounded
=============================================================================
