SPECIFICATION Spec
CONSTANTS
  Clients = 1
  Stream = 4
  BUFFER_SIZE = 3
  PIECE = 2
  Faults = TRUE
INVARIANTS WalkIsSafe ClientOrderKept FreedIsWritten
CHECK_DEADLOCK FALSE
