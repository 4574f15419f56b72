SPECIFICATION FairCliSpec
CONSTANTS
  Scenarios <- Early
  MaxProcs = 3
  MaxTools = 2
  MaxCalls = 3
PROPERTY AbortedTurnEnds
CHECK_DEADLOCK FALSE
