SPECIFICATION PartsSpec
CONSTANTS
  s1 = s1  s2 = s2  d1 = d1  d2 = d2
  one = one  other = other  solo = solo  c1 = c1  c2 = c2  m1 = m1  m2 = m2  m3 = m3
  Sessions = {s1, s2}
  Data = {d1, d2}
  None = None
  Scenarios <- Small
SYMMETRY Symmetry
INVARIANTS ListsSound MemoryIsReplay OneImport OverlayBound OverlayCurrent DetectCycleExact
INVARIANTS AdvisorSound
CHECK_DEADLOCK FALSE
