---------------------------- MODULE HerdrReports ----------------------------
(***************************************************************************)
(* What the advisor tells Herdr, a terminal multiplexer that may or may    *)
(* not be listening: that it seeks advice, that it blocks, and that it     *)
(* failed (herdr.ts, herdr-block.ts, herdr-shared.ts).  Every source has a *)
(* queue of its own that sends one report at a time, twice if need be.     *)
(*                                                                         *)
(* Herdr is the environment: a socket that refuses, takes a request and    *)
(* answers, or takes it and does not answer in time.  It is assumed to     *)
(* keep the label of the report with the highest sequence number.          *)
(***************************************************************************)
EXTENDS Naturals, Sequences, FiniteSets, SequencesExt

CONSTANTS Consultations,  \* that seek advice, each once
          MaxPending,     \* MAX_PENDING_NOTIFICATIONS
          MaxReports,     \* bound on the reports that are made
          MaxToggles,     \* bound on changes of the setting
          None

Labels == {"activity", "block"}      \* sources whose last report is what counts
Sources == Labels \cup {"notification"}

VARIABLES
  enabled, toggles,  \* the herdrIntegration setting
  leases, begun,     \* HerdrAdvisorActivity
  blocked,           \* HerdrAdvisorBlock
  refs,              \* environment: the listener's count of blocked edges
  queues,            \* by source: [active, sending, attempt, reports]
  sequence,          \* nextSequence
  latest,            \* history: the last report of each label
  pane,              \* environment: by label, the report Herdr shows
  notices            \* environment: how often each notification was shown

hrvars == <<enabled, toggles, leases, begun, blocked, refs, queues, sequence, latest, pane, notices>>

Idle == [sending |-> None, attempt |-> 0, reports |-> << >>]
Report(on) == [seq |-> sequence + 1, on |-> on]

HRTypeOK ==
  /\ enabled \in BOOLEAN /\ leases \subseteq begun /\ begun \subseteq Consultations
  /\ blocked \in BOOLEAN /\ refs \in 0..MaxReports
  /\ \A s \in Sources : queues[s].attempt \in 0..2 /\ Len(queues[s].reports) <= MaxReports

HRInit ==
  /\ enabled = TRUE /\ toggles = 0
  /\ leases = {} /\ begun = {} /\ blocked = FALSE /\ refs = 0
  /\ queues = [s \in Sources |-> Idle] /\ sequence = 0
  /\ latest = [s \in Labels |-> 0]
  /\ pane = [s \in Labels |-> [seq |-> 0, on |-> FALSE]]
  /\ notices = [n \in 1..MaxReports |-> 0]

\* Mutant: a label waits behind the one that is being sent, like a notification.
EnqueuedAll(s, report) ==
  [queues EXCEPT ![s] =
     IF @.sending = None THEN [sending |-> report, attempt |-> 1, reports |-> << >>]
     ELSE IF Len(@.reports) >= 1 THEN @
     ELSE [@ EXCEPT !.reports = Append(@, report)]]

(* enqueueReport: while one is sent, of the labels only the last waits;    *)
(* notifications all wait until there are too many of them.                *)
Enqueued(s, report) ==
  [queues EXCEPT ![s] =
     IF @.sending = None THEN [sending |-> report, attempt |-> 1, reports |-> << >>]
     ELSE IF s \in Labels THEN [@ EXCEPT !.reports = <<report>>]
     ELSE IF Len(@.reports) >= MaxPending THEN @
     ELSE [@ EXCEPT !.reports = Append(@, report)]]

Reports(s, on) ==
  /\ sequence < MaxReports
  /\ sequence' = sequence + 1
  /\ queues' = Enqueued(s, Report(on))
  /\ latest' = [l \in Labels |-> IF l = s THEN sequence + 1 ELSE latest[l]]
Silent == UNCHANGED <<queues, sequence, latest>>

----------------------------------------------------------------------------
(* HerdrAdvisorActivity                                                    *)

startFor(c) ==
  /\ c \notin begun /\ begun' = begun \cup {c}
  /\ IF ~enabled THEN Silent /\ UNCHANGED leases
     ELSE /\ leases' = leases \cup {c}
          /\ IF leases = {} THEN Reports("activity", TRUE) ELSE Silent
  /\ UNCHANGED <<enabled, toggles, blocked, refs, pane, notices>>

(* A consultation that was cleared, or began while disabled, has no lease. *)
finishLease(c) ==
  /\ c \in leases
  /\ leases' = leases \ {c}
  /\ IF leases = {c} THEN Reports("activity", FALSE) ELSE Silent
  /\ UNCHANGED <<enabled, toggles, begun, blocked, refs, pane, notices>>

clearFor ==
  /\ leases # {}
  /\ leases' = {} /\ Reports("activity", FALSE)
  /\ UNCHANGED <<enabled, toggles, begun, blocked, refs, pane, notices>>

----------------------------------------------------------------------------
(* HerdrAdvisorBlock                                                       *)

SetBlock ==
  /\ enabled
  /\ blocked' = TRUE /\ Reports("block", TRUE)
  /\ refs' = IF blocked THEN refs ELSE refs + 1
  /\ UNCHANGED <<enabled, toggles, leases, begun, pane, notices>>

ClearBlock ==
  /\ blocked
  /\ blocked' = FALSE /\ Reports("block", FALSE) /\ refs' = refs - 1
  /\ UNCHANGED <<enabled, toggles, leases, begun, pane, notices>>

notifyHerdrAdvisorFailure ==
  /\ enabled
  /\ Reports("notification", TRUE)
  /\ UNCHANGED <<enabled, toggles, leases, begun, blocked, refs, pane, notices>>

Toggle ==
  /\ toggles < MaxToggles
  /\ enabled' = ~enabled /\ toggles' = toggles + 1
  /\ UNCHANGED <<leases, begun, blocked, refs, queues, sequence, latest, pane, notices>>

----------------------------------------------------------------------------
(* Sending                                                                 *)

Next1(q) ==
  IF q.reports = << >> THEN Idle
  ELSE [sending |-> Head(q.reports), attempt |-> 1, reports |-> Tail(q.reports)]

\* Mutant: a notification that was written is sent once more as well.
RetriesWritten(s, wrote) == queues[s].attempt = 1

(* A label is tried again in any case, a notification only if nothing of   *)
(* it was written.                                                         *)
Retries(s, wrote) == queues[s].attempt = 1 /\ (s \in Labels \/ ~wrote)

(* One attempt ends: refused, taken and answered, or taken and not         *)
(* answered in time.  What was written may have been taken all the same.   *)
Attempted(s, wrote, took, responded) ==
  LET report == queues[s].sending IN
  /\ report # None
  /\ responded => took
  /\ took => wrote
  /\ queues' = [queues EXCEPT ![s] =
                  IF ~responded /\ Retries(s, wrote) THEN [@ EXCEPT !.attempt = 2] ELSE Next1(@)]
  /\ IF ~took THEN UNCHANGED <<pane, notices>>
     ELSE IF s \in Labels
     THEN /\ pane' = [pane EXCEPT ![s] = IF report.seq > @.seq THEN report ELSE @]
          /\ UNCHANGED notices
     ELSE notices' = [notices EXCEPT ![report.seq] = @ + 1] /\ UNCHANGED pane
  /\ UNCHANGED <<enabled, toggles, leases, begun, blocked, refs, sequence, latest>>

Send(s) == \E wrote, took, responded \in BOOLEAN : Attempted(s, wrote, took, responded)

HRNext ==
  \/ \E c \in Consultations : startFor(c) \/ finishLease(c)
  \/ clearFor \/ SetBlock \/ ClearBlock \/ notifyHerdrAdvisorFailure \/ Toggle
  \/ \E s \in Sources : Send(s)

HRSpec == HRInit /\ [][HRNext]_hrvars

----------------------------------------------------------------------------
Holds(s) == IF s = "activity" THEN leases # {} ELSE blocked
Said(s) ==      \* the report that will have been sent last
  IF queues[s].sending = None THEN pane[s].on
  ELSE (IF queues[s].reports = << >> THEN queues[s].sending ELSE Last(queues[s].reports)).on

\* What Herdr shows, or will be told last, is what holds, unless it did not
\* answer the last report twice: no sequence of starts, ends, clears and changes
\* of the setting leaves an older label behind (herdr-shared.ts, herdr.ts).
PaneFollows ==
  \A s \in Labels :
    \/ Said(s) = Holds(s)
    \/ queues[s].sending = None /\ pane[s].seq < latest[s]

\* A failure is shown once at most, though its report may be sent twice.
NoticesOnce == \A n \in DOMAIN notices : notices[n] <= 1

\* The listener that counts edges is as blocked as the advisor (herdr-block.ts).
EdgesMatch == refs = IF blocked THEN 1 ELSE 0

HerdrSound == PaneFollows /\ NoticesOnce /\ EdgesMatch
=============================================================================
