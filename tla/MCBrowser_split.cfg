SPECIFICATION AllSpec
CONSTANTS
  Parts = {"ranges"}
  RangesLimit = 2
  NoTarget = NoTarget
  NoJob = NoJob
  Tabs <- TwoTabs
  Jobs <- TwoJobs
  TabOf <- TwoTabOf
  Final <- TwoFinal
  WebLocks = TRUE
  Failing = {"t1"}
  ReplicaTabs = {"p", "q"}
  Access = TRUE
  Viewers = {"q"}
  InitialOpen = {"p", "q"}
  SoloReopen = TRUE
  MaxEdits = 1
  MaxDrops = 1
  MaxOpens = 0
  MaxAsks = 1
  MaxCloses = 1
  MaxFaults = 1
  MaxSaves = 0
  Threshold = 0
  MaxUpdates = 2
  MaxTimers = 1
  MaxCuts = 1
  MaxCrashes = 1
INVARIANT
  EditorShowsReplica
CHECK_DEADLOCK FALSE
