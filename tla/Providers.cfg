SPECIFICATION ProvidersSpec
CONSTANTS
  None = None
  i1 = i1  p1 = p1  p2 = p2  s1 = s1  s2 = s2  r1 = r1  r2 = r2  a1 = a1
  Ids = {i1}
  Processes = {p1, p2}
  Sessions = {s1, s2}
  Requests = {r1, r2}
  Commands = {a1}
  ProcOf <- TwoProcs
  SessionOf <- OwnSession
  InitStore <- Linked1
  StickyCap = 1
  MinCooldown = 1
  DefaultCooldown = 2
  Hints = {1}
  MaxTok = 2
  MaxNow = 0
  Scenarios <- All
  MaxProcs = 3
  MaxTools = 2
  MaxCalls = 3
INVARIANTS WellFormed OpenCallsHeld ContinuesWhole AnswersMatch AttemptsSound
INVARIANTS LockExclusion SpentNeverUsable NoDoubleSpend NeedsLoginJustified
PROPERTIES ServedInTurn CooldownMonotone
CHECK_DEADLOCK FALSE
