SPECIFICATION LoopBufSpec
CONSTANTS
  LOOP_BUF_LEN = 4
  WORD = 8
  Byte = {0, 1}
  BUFFER_SIZE = 3
INVARIANT NeverOverrun
PROPERTY LoopBufIsFifo
