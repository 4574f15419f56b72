SPECIFICATION GOSpec
CONSTANTS
  None = None
  Tasks = {t1}
  Instances <- Asking
INVARIANT AdviceTried
CHECK_DEADLOCK FALSE
