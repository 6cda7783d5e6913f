CONSTANTS
  c1 = c1
  c2 = c2
  Clients = {c1, c2}
  MinuteLimit = 2
  SafeMinute = 1
  DailyLimit = 3
  DailySafe = 2
  Window = 2
  DayLength = 2
  Wait = 1
  MaxTime = 3
  MaxRows = 3
SPECIFICATION Spec
SYMMETRY AnyClient
INVARIANTS MinuteBudget ReserveIsKept DayIsAccounted
CHECK_DEADLOCK FALSE
