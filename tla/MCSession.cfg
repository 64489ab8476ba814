SPECIFICATION AllSpec
CONSTANTS
  Parts = {"connection", "identity", "opening", "catalog", "sharing", "presence"}
  MaxSockets = 3
  MaxAdmissions = 4
  MaxToggles = 1
  N = 3
  Legacy = {2}
  About = 3
  Direct = FALSE
  MaxNav = 3
  MaxOpen = 3
  MaxGets = 1
  MaxRowChanges = 1
  MaxFaults = 1
  MaxAccess = 2
  Tabs = {"t"}
  MaxScratch = 2
  MaxPairs = 2
  MaxSessions = 2
  MaxPrincipals = 2
  MaxKeys = 1
  MaxLosses = 1
  MaxReloads = 1
  Scopes = {"blank"}
  MaxDocs = 2
  MaxRequests = 2
  MaxCalls = 2
  MaxLists = 1
  MaxFailures = 2
  MaxLoads = 1
  MaxRemoved = 0
  LinkDocs = {"a", "b"}
  Shared = "a"
  Accounts = {"g"}
  Guest = "g"
  Roles = {"viewer", "editor"}
  MaxLinks = 2
  MaxAsks = 3
  MaxMoves = 3
  PresenceTabs <- ThreeTabs
  Site <- ThreeSites
  MaxConns = 3
  MaxTicks = 0
  MaxEvents = 1
  MaxLost = 0
INVARIANTS
  TransportSound
  RevokedLocked
  SessionsSound
  OnePagePerAction
  SharingInStep
PROPERTIES
  RetiredStaysGone
CHECK_DEADLOCK FALSE
