CONSTANTS
  t1 = t1
  t2 = t2
  s1 = s1
  s2 = s2
  k1 = k1
  k2 = k2
  k3 = k3
  NoKey = NoKey
  Threads <- BothThreads
  Sessions <- BothSessions
  SessionOf <- TwoSessions
  NAliases = 2
  KeyOf <- MixedKeys
  Limit = 1
  Window = 2
  Cooldown = 2
  MaxTime = 4
SPECIFICATION Spec
INVARIANT BurstIsBounded
PROPERTIES ImplementsRateBudget CooldownIsShared
CHECK_DEADLOCK FALSE
