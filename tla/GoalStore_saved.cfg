SPECIFICATION Spec
CONSTANTS
  s1 = s1  s2 = s2  g1 = g1  e1 = e1  e2 = e2
  None = None
  Complete = cc
  Sessions = {s1, s2}
  Goals = {g1}
  Edits = {e1, e2}
  Instances <- Shared
INVARIANT SavedStays
CHECK_DEADLOCK FALSE
