SPECIFICATION AllFairSpec
CONSTANTS
  Parts = {"assets", "rooms"}
  Docs <- OneDoc
  Requests <- TwoRequests
  MaxFaults = 1
  Documents <- OneDoc
  Sockets <- OneSocket
  Tasks <- TwoTasks
  MaxResident = 1
  RoomQueue = 1
  ControlQueue = 1
  MaxEvents = 1
  Sites <- TwoSites
  MaxStored = 4
  Last64 = 9
  Tabs <- OneTab
  Shell <- FourShells
  Component <- FourComponents
  Releases = 4
  MaxFailures = 1
  MaxPaths = 2
PROPERTIES
  RestoredEventually
  WedgedRoomLeaves
CHECK_DEADLOCK FALSE
