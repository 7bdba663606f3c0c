SPECIFICATION Spec
CONSTANTS
  Session = {s1, s2}
  Msg = {m1, m2, m3}
  NewCmd = {new1}
  FirstSession = s1
  MaxRestarts = 1
  Model = {"opus", "other"}
  Price <- OnePrice
  Usage <- TwoUsages
  Unknown = Unknown
  None = None
SYMMETRY IntakeSymmetry
CHECK_DEADLOCK FALSE
INVARIANTS
  EachWordOnce
  AnswersMeantAsSuch
  NothingLeftBehind
  StoredIsExact
PROPERTIES
  CostOnlyGrows
