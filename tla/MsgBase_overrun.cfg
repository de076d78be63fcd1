SPECIFICATION Spec
CONSTANTS
  Boards = {1}
  MaxPerBoard = 2
  PruneBatch = 1
  Limit = 2
  MaxLen = 2
  Lens = {1}
  Word = 64
  MaxPosts = 4
  UseREU = TRUE
  Faults = {}
INVARIANTS
  IndexIsBounded
