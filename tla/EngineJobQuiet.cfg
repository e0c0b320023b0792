SPECIFICATION FairSpec
CONSTANTS
  Jobs = {j1, j2}
  Callers = {c1, c2}
  MaxBlocks = 1
  ChunkBlocks = 1
  Piper = TRUE
  DestroyDuring = "idle"
  EarlyClose = TRUE
  NoJob = NoJob
  Opener = Opener
CHECK_DEADLOCK FALSE
PROPERTY DestroyReturns
PROPERTY EngineFreed
PROPERTY ImplementsSharedEngine
PROPERTY CancelEndsRun
