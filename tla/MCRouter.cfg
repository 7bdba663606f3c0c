SPECIFICATION Spec
CONSTANTS
  Msg = {m1, m2}
  StopCmd = {}
  NewCmd = {new1}
  Session = {s1, s2}
  Process = {p1, p2, p3}
  FirstSession = s1
  None = None
SYMMETRY RouterSymmetry
CHECK_DEADLOCK FALSE
INVARIANTS
  MapConsistent
  GoneUnregistered
  LostOnlyByRemoveSession
  RouterTypeOK
  RunAtMostOnce
  ConversationStaysInSession
PROPERTIES
  ImplementsTurnQueue
