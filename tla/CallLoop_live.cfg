SPECIFICATION LoopFairSpec
CONSTANTS
  Modems = {"U64", "VICE"}
  RingSize = 2
  Wrap = 4
  MaxCalls = 2
  MaxTyped = 2
  Typed = {"data"}
  WireLen = 4
  Faults = {"lazy"}
  Operator = {}
  IdleTimeout = TRUE
  DailyLimit = FALSE
  Confirms = FALSE
  Eager = FALSE
PROPERTIES BoardComesBack EachCallIsTaken IdleCallersAreDropped
