SPECIFICATION Spec
CONSTANTS
  Threads = {m, a}
  Main = m
  MaxRegion = 14
  SlabBlocks = 1
  ChunkBlocks = 1
  ArenaBlocks = 1
  MaxChunks = 1
  Fallbacks = 1
  Programs <- Growing
  NULL = NULL
PROPERTIES
  RecordsInsertOnly
CHECK_DEADLOCK FALSE
