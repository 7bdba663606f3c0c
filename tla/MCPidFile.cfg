SPECIFICATION Spec
CONSTANTS
  Pid = {p1, p2, p3}
  NoFile = NoFile
  Corrupt = Corrupt
  MaxStarts = 4
SYMMETRY PidSymmetry
INVARIANTS
  TypeOK
  TwoOnlyForCause
  RefusedOnlyForCause
CHECK_DEADLOCK FALSE
