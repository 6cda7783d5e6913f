CONSTANTS
  w1 = w1
  w2 = w2
  u1 = u1
  Workers = {w1, w2}
  Users = {u1}
  Launched = {w1}
  NJobs = 1
  Nothing = Nothing
  NWindows = 2
  MaxFaults = 1
  MaxClicks = 1
SPECIFICATION FairSpec
INVARIANT CheckpointIsDurable
PROPERTIES ImplementsDurableBuild JobSettles
CHECK_DEADLOCK FALSE
