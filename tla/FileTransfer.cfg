SPECIFICATION Spec
CONSTANTS
  long = long
  short = short
  none = none
  Client = {long, short, none}
  NameOf <- MCNameOf
  FileOf <- MCFileOf
  NoFile = NoFile
  Disk <- MCDisk
  NL = 10
  BUFFERSIZE = 4
  Window = 2
  Faults = TRUE
INVARIANT NameIsWhole
INVARIANT NothingLostOnTheWay
PROPERTY ReceivedIsSent
PROPERTY EveryoneIsServed
CHECK_DEADLOCK FALSE
