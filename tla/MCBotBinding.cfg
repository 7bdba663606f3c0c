SPECIFICATION Spec
CONSTANTS
  Bot = {b1, b2}
  Session = {s1, s2, s3, s4}
  Creator = {c1, c2}
  NewCmd = {n1, n2}
  None = None
  MaxCrash = 1
SYMMETRY BindingSymmetry
CHECK_DEADLOCK FALSE
INVARIANTS
  NeverAnothersBot
  BoundWhenUndisturbed
