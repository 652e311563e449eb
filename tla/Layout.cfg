SPECIFICATION Spec
CONSTANTS
  Classes <- MCClasses
  MAX_SMALL = 1024
  BlocksPerSlab = 256
  CHUNK_SIZE = 65536
  kHeaderOffset = 64
  Bases <- MCBases
  MaxRequest = 2100
INVARIANTS
  SmallestFit
  ChunkHoldsItsBlocks
CHECK_DEADLOCK FALSE
