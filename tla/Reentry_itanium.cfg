SPECIFICATION Spec
CONSTANTS
  Threads = {m, a}
  Main = m
  Builds <- ItaniumBuild
  MaxChunks = 2
  Nobody = Nobody
  NoGuard = NoGuard
INVARIANTS
  NoSelfDeadlock
CHECK_DEADLOCK FALSE
