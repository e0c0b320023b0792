SPECIFICATION Spec
CONSTANTS
  Jobs = {j1, j2}
  Callers = {c1, c2}
  MaxBlocks = 3
  ChunkBlocks = 2
  Piper = TRUE
  DestroyDuring = "running"
  EarlyClose = TRUE
  NoJob = NoJob
  Opener = Opener
CHECK_DEADLOCK FALSE
SYMMETRY Symmetry
INVARIANT EngineAccessSafe
INVARIANT OneSynthesis
INVARIANT TerminatesOwnJob
INVARIANT NoLostCancel
INVARIANT AtMostOneLateCallback
INVARIANT NoAudioAfterDestroy
PROPERTY ImplementsJobStream
