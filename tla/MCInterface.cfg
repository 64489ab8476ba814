SPECIFICATION AllSpec
CONSTANTS
  Parts = {"ribbon", "shell", "surface", "press", "voice", "swipes", "turns", "scroll"}
INVARIANTS
  RibbonHonest
PROPERTIES
  GesturesSettle
CHECK_DEADLOCK FALSE
