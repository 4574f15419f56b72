SPECIFICATION ConfigSpec
CONSTANTS
  one = one  other = other  m1 = m1  m2 = m2  None = None
  Processes <- Two  Models <- Pair  Unusable <- WithoutKey  Values <- SmallValues
  Instances <- Activations
INVARIANT UnusableNeverSaved
CHECK_DEADLOCK FALSE
