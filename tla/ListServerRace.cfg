SPECIFICATION Spec
CONSTANTS
  Clients = 1
  Stream = 3
  BUFFER_SIZE = 2
  PIECE = 1
  Faults = FALSE
INVARIANTS AddedIsQueued
CHECK_DEADLOCK FALSE
