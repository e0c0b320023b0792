SPECIFICATION PatientSpec
CONSTANTS
  MaxBlocks = 5
  Capacity = 2
CHECK_DEADLOCK FALSE
INVARIANT BlocksInOrder
INVARIANT EndsHonestly
INVARIANT RaisesLast
PROPERTY CloseReturns
PROPERTY StreamEnds
