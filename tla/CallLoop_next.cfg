SPECIFICATION LoopSpec
CONSTANTS
  Modems = {"U64"}
  RingSize = 2
  Wrap = 4
  MaxCalls = 2
  MaxTyped = 5
  Typed = {"data"}
  WireLen = 2
  Faults = {}
  Operator = {}
  IdleTimeout = FALSE
  DailyLimit = FALSE
  Confirms = FALSE
  Eager = TRUE
INVARIANTS SessionServesOneCall
