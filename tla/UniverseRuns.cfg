CONSTANTS
  A = A
  B = B
  s1 = s1
  s2 = s2
  Symbols = {A, B}
  Sessions = {s1, s2}
  Configurations <- BothOrdered
  Cutoffs = {1, 2}
  Contents = {1}
  NoSymbol = NoSymbol
  NoFrame = NoFrame
  MaxUniverses = 2
  MaxClicks = 4
SPECIFICATION Spec
INVARIANTS TypeOK SessionsOK SymbolsAreNested CopiesAreValid VersionsAgree PublishedIsCalculated
PROPERTY LoadsAreNotOverwritten
CHECK_DEADLOCK FALSE
