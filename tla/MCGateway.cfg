SPECIFICATION Spec
CONSTANTS
  Chan = {c1, c2}
  Request = {r1, r2}
  None = None
  MaxSocket = 1
  MaxAttempts = 0
CHECK_DEADLOCK FALSE
INVARIANTS
  RegisteredIsRunning
PROPERTIES
  RequestsEnd
