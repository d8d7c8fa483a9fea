SPECIFICATION FairSpec
CONSTANTS
  MaxAddr = 3
  Segs <- MCSegs
  Ports <- MCPorts
  REPEATS = 2
  MSL = 1
  Router = 2
  Stales = 1
INVARIANT ReportedOnce
INVARIANT ReportIsTrue
INVARIANT AnsweredIsReported
INVARIANT AcceptedIsReset
INVARIANT ScopeIsProbed
PROPERTY ScanEnds
CHECK_DEADLOCK FALSE
