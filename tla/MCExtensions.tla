---------------------------- MODULE MCExtensions ----------------------------
(* Small instances of the extensions that do not act on one another.        *)
EXTENDS Extensions, TLC

CONSTANTS
  one, other,   \* two of which it does not matter which is which
  third, s1, s2, g1, g2, e1, e2, cc, p1, p2, a1, a2, q1, m1, m2

----------------------------------------------------------------------------
(* Two sessions that have one goal in focus, with users who act twice, or  *)
(* runs that fail and are retried.                                         *)
TwoSessions == {s1, s2}
Strictly == {TRUE}
Fine == {"ok"}
Shaky == {"ok", "network"}
Crashes == {"crash"}
Generations == 0..13

(* Two sessions on the goal pool: each instance puts some handlers side by *)
(* side, with a dying process or a revoked token in some of them.          *)
Both == [s \in {one, other} |-> g1]
GS(handlers, edits, focus, tokens, deaths, revs) ==
  [handlers |-> handlers, edits |-> edits, focus |-> focus, tokens |-> tokens,
   crashes |-> deaths, revs |-> revs]
OwnGoals == one :> g1 @@ other :> g2
Alone == one :> g1 @@ other :> None
AllHandlers == {"turn", "tool", "command", "complete", "clear", "compact", "toolEnd", "agentEnd",
                "startSession"}
SmallStores ==
  {GS({"turn", "tool", "command", "toolEnd"}, {e1, e2}, Both, 1, 0, 3),
   GS({"turn", "complete", "clear", "command"}, {cc, e1}, Both, 0, 0, 3),
   GS({"command", "tool", "turn", "compact"}, {e1}, Both, 0, 1, 4),
   GS({"turn", "tool", "startSession"}, {e1}, Both, 0, 0, 3),
   GS({"command", "tool", "turn", "toolEnd"}, {e1}, OwnGoals, 1, 0, 3),
   GS(AllHandlers, {e1, cc}, Alone, 1, 1, 4),
   GS(AllHandlers, {e1, cc}, Alone, 2, 0, 3)}
Two == {one, other}
TwoGoals == {g1, g2}
AllEdits == {e1, e2, cc}

(* A session that reads the index before it appends: two audits with a late *)
(* verdict, a goal that is focused and ends, a consult that fails.          *)
GL(type, of, attempt, bytes) == [type |-> type, goal |-> of, audit |-> attempt, size |-> bytes]
AuditBlocks ==
  {<<GL("goal_created", g1, 0, 2)>>, <<GL("audit_started", g1, 1, 1)>>,
   <<GL("audit_started", g1, 2, 1)>>, <<GL("audit_result", g1, 1, 2)>>}
GoalBlocks ==
  {<<GL("goal_created", g1, 0, 1), GL("goal_focused", g1, 0, 2)>>,
   <<GL("goal_completed", g1, 0, 1)>>, <<GL("oracle_failed", g1, 0, 1)>>}
SmallLedgers ==
  {[blocks |-> AuditBlocks, lines |-> 4, readsFirst |-> TRUE],
   [blocks |-> GoalBlocks, lines |-> 5, readsFirst |-> TRUE]}

(* Two requests of one process over one account, or two.                   *)
WB(uids, tokens, periods, begins) ==
  [accounts |-> uids, tokens |-> tokens, periods |-> periods, starts |-> begins]
OneProcess == {p1}
TwoAccounts == {a1, a2}
SmallPools == {WB({a1}, 2, 1, 2), WB(TwoAccounts, 1, 0, 2)}

(* Two tasks over two accounts, or one whose tokens expire as it runs.     *)
AG(jobs, begins, tokens, periods) ==
  [jobs |-> jobs, starts |-> begins, tokens |-> tokens, periods |-> periods]
SmallJobs ==
  {AG({"request", "activate", "remove", "rotation"}, 2, 1, 0),
   AG({"request", "discover"}, 2, 0, 0), AG({"request", "login"}, 2, 0, 0),
   AG({"discover", "login"}, 2, 1, 0),
   AG({"request", "auth"}, 2, 0, 1),
   AG({"request", "auth"}, 1, 3, 1)}

(* Three consultations that share a budget of two.                         *)
Three == {one, other, third}
OneQuestion == {q1}
AllWorks == {"ask", "manual", "loop", "turn", "outcome"}

(* Two processes with one credential file, and an import over another.     *)
TwoProcesses == {p1, p2}

(* Two providers, of which one has a file shared with other processes.     *)
US(used, moments, begins) == [used |-> used, now |-> moments, starts |-> begins]
BothProviders == {"codex", "other"}
SharedOnes == {"codex"}
SmallFooters ==
  {US(BothProviders, 0, 2), US(BothProviders, 1, 1), US(SharedOnes, 1, 2), US(SharedOnes, 0, 3)}

(* Episodes of a cycle with blocks side by side, of two cycles with markers *)
(* among them, of three that report their sizes, and with forwarding.      *)
EB(cycles, perCycle, perBlock, sizes, tools, forwarding) ==
  [cycles |-> cycles, blocks |-> perCycle, parts |-> perBlock, context |-> sizes,
   tools |-> tools, forwarding |-> forwarding]
Episodes ==
  {EB(1, 2, 2, {}, {one}, FALSE), EB(2, 1, 2, {1}, {one}, FALSE),
   EB(3, 0, 0, {1, 2}, {}, FALSE), EB(2, 1, 0, {}, {one, other}, TRUE)}

(* The end of a goal: audits with a user who does two things, with appends *)
(* that fail or without an auditor, or a blocker that is put to the oracle. *)
GO(asks, off, writes, attempts, deeds) ==
  [oracle |-> asks, failures |-> 1, disabled |-> off, appends |-> writes, audits |-> attempts,
   acts |-> deeds]
Written == {TRUE}
Endings ==
  {GO(FALSE, FALSE, Written, 2, 1), GO(FALSE, TRUE, BOOLEAN, 1, 1), GO(FALSE, FALSE, BOOLEAN, 1, 1),
   GO(TRUE, FALSE, Written, 0, 1)}

(* The settings of two processes with one file: their dialogs while another *)
(* process, an editor or a failing disk writes, and their activations.      *)
CF(uses, start, options, hand, broken, lost, given) ==
  [uses |-> uses, file |-> start, choices |-> options, edits |-> hand, breaks |-> broken,
   failures |-> lost, commands |-> given]
Sets(key, value) == [key |-> key, value |-> value]
NoSettings ==
  [executor |-> None, advisor |-> None, effort |-> None, other |-> None, jev |-> FALSE,
   tools |-> TRUE, alwaysOn |-> FALSE, logging |-> FALSE]
WithModels == [NoSettings EXCEPT !.executor = m1, !.advisor = m1]
Always == [WithModels EXCEPT !.alwaysOn = TRUE]
ConfigModels == {m1, m2}
WithoutKey == {m2}
ConfigValues == ConfigModels \cup {None, e1} \cup BOOLEAN
SmallSettings ==
  {CF({"dialog"}, WithModels,
      {Sets("effort", e1), Sets("tools", FALSE), Sets("logging", TRUE), Sets("jev", TRUE)},
      {Sets("other", e1), Sets("logging", TRUE)}, 1, 1, 2),
   CF({"dialog", "off"}, WithModels,
      {Sets("effort", e1), Sets("tools", TRUE), Sets("tools", FALSE), Sets("alwaysOn", TRUE),
       Sets("logging", TRUE), Sets("jev", TRUE)}, {}, 0, 1, 3),
   CF({"activate", "picker"}, WithModels, {}, {}, 1, 0, 2)}
  \cup {CF({"activate", "select", "off"}, f, {}, {}, 0, 1, 2) :
         f \in {NoSettings, WithModels, Always}}

Symmetry == Permutations({one, other})
=============================================================================
