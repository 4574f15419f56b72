SPECIFICATION CliSpec
CONSTANTS
  Scenarios <- Wedged
  MaxProcs = 3
  MaxTools = 2
  MaxCalls = 3
PROPERTY BackstopKillsWedged
CHECK_DEADLOCK FALSE
