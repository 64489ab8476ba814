SPECIFICATION AllSpec
CONSTANTS
  Parts = {"assets", "rooms", "crowded", "ranges", "release", "impact"}
  Docs <- TwoDocs
  Requests <- TwoRequests
  MaxFaults = 1
  Documents <- TwoDocs
  Sockets <- TwoSockets
  Tasks <- TwoTasks
  MaxResident = 1
  RoomQueue = 1
  ControlQueue = 1
  MaxEvents = 1
  Sites <- TwoSites
  MaxStored = 4
  Last64 = 9
  Tabs <- OneTab
  Shell <- FourShells
  Component <- FourComponents
  Releases = 4
  MaxFailures = 1
  MaxPaths = 2
INVARIANTS
  ReferencedRecoverable
  BackupFindsBytes
  OwnersExact
  RangesExact
  ReleaseCoherent
  ChecksMerged
CHECK_DEADLOCK FALSE
