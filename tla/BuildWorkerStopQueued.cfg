SPECIFICATION FairSpec
CONSTANTS
  w1 = w1
  w2 = w2
  Workers <- TwoWorkers
  NoWorker = NoWorker
  NJobs = 1
  NSymbols = 1
  NWindows = 1
  Faults = {}
  MaxFaults = 0
  MaxClicks = 1
  ResumeActive = FALSE
PROPERTY StopIsHonoured
CHECK_DEADLOCK FALSE
