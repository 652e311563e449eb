SPECIFICATION VisSpec
CONSTANTS
  kCapacity = 3
  Readers = {r}
  MaxCounts <- MCMaxCounts
  MaxPushes = 12
  Workers = {w, v}
  Window = r
  FeedLength = 2
  HoldMax = 1
  Burst = 1
  MaxBatches = 2
INVARIANTS
  FeedCurrent
CHECK_DEADLOCK FALSE
