SPECIFICATION LoopSpec
CONSTANTS
  Modems = {"U64"}
  RingSize = 2
  Wrap = 4
  MaxCalls = 1
  MaxTyped = 5
  Typed = {"data"}
  WireLen = 2
  Faults = {}
  Operator = {"kick"}
  IdleTimeout = FALSE
  DailyLimit = FALSE
  Confirms = FALSE
  Eager = FALSE
PROPERTIES DroppedIsOver
