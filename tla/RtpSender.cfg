SPECIFICATION FairSpec
CONSTANTS
  Files <- MCFiles
  READ_LEN = 15
  SINGLE_NALU_DATA_MAX = 4
  SEQS = 3
INVARIANT PacketsAreUnits
INVARIANT BitsTellUnits
PROPERTY StreamEnds
CHECK_DEADLOCK FALSE
