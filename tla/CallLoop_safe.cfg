SPECIFICATION LoopSpec
CONSTANTS
  Modems = {"U64", "VICE"}
  RingSize = 2
  Wrap = 4
  MaxCalls = 2
  MaxTyped = 3
  Typed = {"data", "NOCARRIER"}
  WireLen = 4
  Faults = {"quick", "lazy"}
  Operator = {"logon", "kick"}
  IdleTimeout = FALSE
  DailyLimit = TRUE
  Confirms = TRUE
  Eager = TRUE
INVARIANTS EachLoginIsLogged PayloadIsOfServedCall
PROPERTIES DroppedIsNotServed PayloadInOrder AnsweredAgainInHangup
