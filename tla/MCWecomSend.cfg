SPECIFICATION SendSpec
CONSTANTS
  Proactive = {p1}
  Upload = {u1}
  Stream = {s1}
  Cmds = 2
  MaxAcks = 2
  MaxAnswers = 3
  None = None
CHECK_DEADLOCK FALSE
INVARIANTS
  DeliveryNeverBlocks
  PendingIsWaiting
  SuccessHasBody
  LeftBodyIsLate
