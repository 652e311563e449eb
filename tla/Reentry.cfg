SPECIFICATION FairSpec
CONSTANTS
  Threads = {m, a}
  Main = m
  Builds <- SoundBuilds
  MaxChunks = 2
  Nobody = Nobody
  NoGuard = NoGuard
INVARIANTS
  TypeOK
  NoDeadlock
  NestedNewFallsBack
  NotReentered
  NothingLeftBehind
  GoneIsLeftAlone
PROPERTIES
  CallsReturn
CHECK_DEADLOCK FALSE
