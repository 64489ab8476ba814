SPECIFICATION AllSpec
CONSTANTS
  Parts = {"agent", "remounted", "trash", "refused", "saves", "versions", "threads", "runs", "plan", "clipboard"}
  MaxCalls = 2
  MaxEvents = 20
  MaxText = 1
  MaxMounts = 3
  MaxLost = 1
  MaxRemounts = 0
  MaxRestarts = 1
  LocalTabs = {"t1", "t2"}
  Docs = {"a"}
  Seeds = {}
  Legacy = {}
  Cleanup = TRUE
  Retention = 1
  MaxTime = 1
  MaxVersions = 2
  MaxEdits = 1
  MaxSaves = 2
  MaxFaults = 1
  MaxReloads = 0
  Kinds = {"ui", "edit"}
  Sources = {}
  MaxRuns = 3
  Shown = 2
  MaxSteps = 3
  MaxEnv = 1
  Page = 1
  MaxThreads = 0
  MaxRequests = 2
  MaxSaved = 2
  MaxTyped = 3
  MaxFailed = 1
INVARIANTS
  AgentRunExact
  LocalKept
  ReviewExact
  CommandsInOrder
  UploadsExact
CHECK_DEADLOCK FALSE
