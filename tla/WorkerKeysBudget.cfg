CONSTANTS
  t1 = t1
  t2 = t2
  Threads = {t1, t2}
  NKeys = 2
  Limit = 2
  Window = 2
  MinCooldown = 2
  RetryAfter = {0, 3}
  MaxAttempts = 2
  MaxTime = 5
SPECIFICATION Spec
SYMMETRY AnyThread
INVARIANTS RollingLimit WaitIsBounded
PROPERTIES ImplementsRateBudget PenaltyIsServed
CHECK_DEADLOCK FALSE
