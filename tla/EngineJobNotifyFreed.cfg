SPECIFICATION Spec
CONSTANTS
  Jobs = {j1}
  Callers = {c1}
  MaxBlocks = 1
  ChunkBlocks = 1
  Piper = FALSE
  DestroyDuring = "running"
  EarlyClose = FALSE
  NoJob = NoJob
  Opener = Opener
CHECK_DEADLOCK FALSE
SYMMETRY Symmetry
INVARIANT NotifiedJobAlive
