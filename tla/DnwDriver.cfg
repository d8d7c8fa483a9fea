SPECIFICATION FairSpec
CONSTANTS
  p1 = p1
  p2 = p2
  None = None
  Proc = {p1, p2}
  Image = 2
  Plugs = 2
INVARIANT SuccessIsDelivered
INVARIANT ImagesDoNotMix
INVARIANT UndefinedHasCause
INVARIANT NothingLeaked
PROPERTY ToolEnds
CHECK_DEADLOCK FALSE
