\* a claim of the repository that the code does not satisfy
SPECIFICATION MemSpec
CONSTANTS
  NFRAMES = 12
  MAX_PT_LEN = 5
  KSTACK_START_PAGE = 4
  FirstTextPage = 0
  OrigBrk = 1
  Programs <- MCPrograms
  MAX_PROCS = 3
  MaxExecs = 1
  MaxShrinks = 1
INVARIANTS
  ReapedFramesAreFree
CHECK_DEADLOCK FALSE
