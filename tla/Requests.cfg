SPECIFICATION RequestsSpec
CONSTANTS
  i1 = i1  i2 = i2  p1 = p1  s1 = s1  r1 = r1  a1 = a1
  None = None
  Ids = {i1, i2}
  Processes = {p1}
  Sessions = {s1}
  Requests = {r1}
  Commands = {a1}
  ProcOf <- OneProc
  SessionOf <- OneSession
  InitStore <- Linked12
  StickyCap = 1
  MinCooldown = 1
  DefaultCooldown = 2
  Hints = {1}
  MaxTok = 2
  MaxNow = 1
  MaxProcs = 3
  MaxTools = 2
  MaxCalls = 3
INVARIANT FailoverSound
PROPERTIES NoLostUpdate NoReplayAfterOutput RequestsEnd AnswersCome
CHECK_DEADLOCK FALSE
