SPECIFICATION Spec
CONSTANTS
  c1 = c1
  c2 = c2
  None = None
  MAX_CONN = 1
  Client = {c1, c2}
  Methods = {4, 5}
  Requests = 2
  Spurious = 1
  Kinds = {0}
  Faults = FALSE
INVARIANT StreamsHavePlays
INVARIANT TakenIsServed
SYMMETRY Symmetry
CHECK_DEADLOCK FALSE
