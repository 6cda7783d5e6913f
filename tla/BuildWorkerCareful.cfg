SPECIFICATION Spec
CONSTANTS
  w1 = w1
  w2 = w2
  Workers <- TwoWorkers
  NoWorker = NoWorker
  NJobs = 1
  NSymbols = 2
  NWindows = 2
  Faults = {"crash", "fetch", "store", "head", "corrupt"}
  MaxFaults = 2
  MaxClicks = 2
  ResumeActive = FALSE
INVARIANTS OneExecutor CompletedCsvIsWhole
PROPERTIES ProgressIsKept VerdictStands QueuedIsClaimed StopStands
CHECK_DEADLOCK FALSE
