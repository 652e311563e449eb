SPECIFICATION WalkSpec
CONSTANTS
  BlocksPerSlab = 2
  Regions = {r1}
  OwnSlab = own
  Offsets <- MCOffsets
  NULL = NULL
  Data = Data
  MaxMoves = 6
INVARIANTS
  TypeOK
  FreeListLinked
  FreeOrLive
  WalkStaysInPool
PROPERTIES
  RefinesFreeStack
  UsedErrorBounded
  WalkEnds
