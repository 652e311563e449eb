SPECIFICATION FeSpec
CONSTANTS
  Modulus = 64
  Capacity = 10
  Bases <- MCBases
  Sizes <- SizesInRange
  Alignments <- MCAlignments
  MaxObjects = 5
  Classes <- MCClasses
  MAX_SMALL = 4
  BlocksPerSlab = 2
  CHUNK_SIZE = 8
  kHeaderOffset = 2
  SlabBases <- MCSlabBases
  ChunkBases <- MCChunkBases
  Requests <- MCRequests
  AlignedRequests <- MCAlignedRequests
  DefaultAlignment = 4
  MaxLarge = 2
INVARIANTS
  ObjectsApart
  FragmentationIsPadding
  FeTypeOK
  BlocksApart
  ClassifyExact
  LiveBytesExact
