SPECIFICATION Spec
CONSTANTS
  buffer_size = 3
  Byte = {0, 1, 2, 3, 4, 5, 6, 7, 8}
  BUFFER_SIZE = 2
  DiskFaults = TRUE
  Clients = 1
  Stream = 8
INVARIANT CountMatchesPointers
INVARIANT NothingLostInside
PROPERTY RingBuffKeepsOrder
PROPERTY AcceptedIsHanded
CHECK_DEADLOCK FALSE
