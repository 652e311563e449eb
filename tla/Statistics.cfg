SPECIFICATION Spec
CONSTANTS
  Addresses = {a, b}
  Blocks <- MCBlocks
  Large <- MCLarge
  MaxThreads = 3
  MaxRecords = 2
  NULL = NULL
SYMMETRY Symmetry
INVARIANTS
  TypeOK
  RegistryExact
  VisitedIsAlive
PROPERTIES
  SlightlyStale
CHECK_DEADLOCK FALSE
