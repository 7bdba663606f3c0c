SPECIFICATION Spec
CONSTANTS
  Lines = 4
  ErrLines = 2
  OutputCap = 1
  WrappedCap = 2
CHECK_DEADLOCK FALSE
INVARIANTS
  NoSendOnClosed
  InOrder
  LossAccounted
PROPERTIES
  StoppedCloses
  StoppedTurnEnds
