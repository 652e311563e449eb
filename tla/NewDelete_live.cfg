SPECIFICATION FairSpec
CONSTANTS
  Threads = {m, a}
  Main = m
  MaxRegion = 16
  SlabBlocks = 1
  ChunkBlocks = 1
  ArenaBlocks = 0
  MaxChunks = 2
  Fallbacks = 0
  Programs <- Growing
  NULL = NULL
PROPERTIES
  OperationsEnd
  OperationsAdvance
CHECK_DEADLOCK FALSE
