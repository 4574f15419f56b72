SPECIFICATION CliSpec
CONSTANTS
  Scenarios <- Stolen
  MaxProcs = 3
  MaxTools = 2
  MaxCalls = 3
INVARIANT OwnResult
CHECK_DEADLOCK FALSE
