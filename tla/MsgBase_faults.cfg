SPECIFICATION Spec
CONSTANTS
  Boards = {1}
  MaxPerBoard = 3
  PruneBatch = 2
  Limit = 2
  MaxLen = 2
  Lens = {1, 2}
  Word = 64
  MaxPosts = 3
  UseREU = TRUE
  Faults = {"crash", "write"}
INVARIANTS
  ThreadsAreTrees
  BodiesAreDisjoint
PROPERTIES
  RecordsAreSettled
