SPECIFICATION Spec
CONSTANTS
  s1 = s1  s2 = s2
  None = None
  Sessions = {s1}
  Creator = s1
  Limit = 2
  StrictChoices = {TRUE, FALSE}
  Backoff = TRUE
  MaxChecks = 1
  Outcomes = {"ok", "network", "error", "aborted"}
  Mishaps = {"crash", "store", "send"}
  MaxActs = 1
  Uuids = {0, 1, 2, 3, 4, 5, 6, 7, 8}
INVARIANTS SavesAccepted NoStrandedIntent
PROPERTIES RepairOnce IntentServed
CHECK_DEADLOCK FALSE
