SPECIFICATION FairSpec
CONSTANTS
  LOOP_BUF_LEN = 2
  WORD = 4
  Byte = {0, 1, 2, 3, 4}
  BUFFER_SIZE = 1
  Clients = 2
  Stream = 2
  DiskFaults = TRUE
INVARIANTS ClientOrderKept NothingLostInside
PROPERTIES DropsOnlyWhenFull AcceptedIsHanded SentIsRead
CHECK_DEADLOCK FALSE
