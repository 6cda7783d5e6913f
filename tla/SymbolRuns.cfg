CONSTANTS
  A = A
  B = B
  C = C
  s1 = s1
  s2 = s2
  None = None
  Symbols = {A, B, C}
  Sessions = {s1, s2}
  Selected <- TheirSymbols
  Faults <- TheirFaults
  ValidFor = 0
  MaxRuns = 2
  MaxTime = 1
SPECIFICATION Spec
INVARIANTS TypeOK RegisteredIsOwn ReloadedIsOwn EligibleIsOwn LastCompleteIsKept
PROPERTIES PublishedRunsAreWhole DailyIsFinal
CHECK_DEADLOCK FALSE
