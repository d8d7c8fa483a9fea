SPECIFICATION FairSpec
CONSTANTS
  c1 = c1
  None = None
  MAX_CONN = 1
  Client = {c1}
  Methods = {1, 2, 3, 4, 5, 6}
  Requests = 3
  Spurious = 0
  Kinds = {0, 1}
  Faults = TRUE
PROPERTY StoppedStreamEnds
PROPERTY PlayIsStreamed
PROPERTY SessionEndsClean
CHECK_DEADLOCK FALSE
