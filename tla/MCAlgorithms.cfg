SPECIFICATION AllSpec
CHECK_DEADLOCK FALSE
CONSTANTS
  Elements = {1, 2, 3, 4, 5}
  NumNodes = 4
  MaxEdges = 4
  Events <- AllEvents
  MaxUpdates = 3
  Sizes = {1, 3}
  Alignments = {1, 2, 4}
  MaxPool = 15
  MaxBlocks = 3
  UIntSize = 16
  Limit = 32
  Funs <- Functions
  MemVals <- Words
  Width = 3
INVARIANTS
  SetsExact
  RelationsExact
  BlocksDisjoint
  AnnotationsExact
  SpinsEffectFree
  EntriesJump
