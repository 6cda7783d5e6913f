CONSTANTS
  A = A
  B = B
  C = C
  s1 = s1
  s2 = s2
  None = None
  Symbols = {A}
  Sessions = {s1}
  Selected <- OneSymbol
  Faults <- NoFaults
  ValidFor = 1
  MaxRuns = 2
  MaxTime = 2
SPECIFICATION Spec
INVARIANT PublishedChildReloads
CHECK_DEADLOCK FALSE
