SPECIFICATION Spec
CONSTANTS
  Boards = {1, 2}
  MaxPerBoard = 4
  PruneBatch = 2
  Limit = 2
  MaxLen = 2
  Lens = {2}
  Word = 64
  MaxPosts = 4
  UseREU = TRUE
  Faults = {}
INVARIANTS
  EveryPostReadsBack
  CountIsLive
  HeaderIsExact
  RepliesAreCounted
  BankMirrorsIndex
PROPERTIES
  ImplementsMessageBoards
  OldestGoFirst
