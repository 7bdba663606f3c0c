SPECIFICATION Spec
CONSTANTS
  Msg = {m1, m2}
  StopCmd = {stop1}
  NewCmd = {}
  Session = {s1}
  Process = {p1, p2}
  FirstSession = s1
  None = None
CHECK_DEADLOCK FALSE
INVARIANTS
  Conserved
PROPERTIES
  StopAdvancesQueue
