SPECIFICATION AllSpec
CONSTANTS
  Parts = {"shelf", "preview", "diagrams", "analysis", "outline", "scans", "studio"}
  Words = {"a"}
  MaxLen = 2
  Window = 1
  ShelfMax = 1
  LedgerMax = 1
  BacklogMax = 1
  MaxRuns = 1
  MaxEdits = 1
  MaxPatches = 1
  LastBlock = 3
  Versions = 2
  Lazy = 2
  FirstPaint = 2
  MaxRecoveries = 1
  MaxPreviewEdits = 2
  MaxResets = 1
  MaxPreviewFaults = 2
  Hosts <- FourHosts
  SourceOf <- DiagramOf
  SizeOf <- DiagramSize
  MaxBatch = 2
  MaxCached = 1
  MaxThemes = 1
  MaxUnmounts = 1
  MaxQueue = 1
INVARIANTS
  ShownIsSource
  DiagramsExact
PROPERTIES
  ChangesAsAsked
CHECK_DEADLOCK FALSE
