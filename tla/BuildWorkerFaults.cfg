SPECIFICATION FairSpec
CONSTANTS
  w1 = w1
  w2 = w2
  Workers <- TwoWorkers
  NoWorker = NoWorker
  NJobs = 1
  NSymbols = 1
  NWindows = 2
  Faults = {"crash", "stall", "fetch", "store", "corrupt", "lose"}
  MaxFaults = 2
  MaxClicks = 1
  ResumeActive = TRUE
INVARIANTS CheckpointIsDurable CompletedIsDurable
PROPERTIES ImplementsDurableBuild JobSettles
CHECK_DEADLOCK FALSE
