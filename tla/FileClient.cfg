SPECIFICATION ClientSpec
CONSTANTS
  FileSize = 7
  Reads = {2, 3, 4}
  Room = 3
  ClientFaults = TRUE
INVARIANT SocketHasPrefix
PROPERTY ClientEnds
CHECK_DEADLOCK FALSE
