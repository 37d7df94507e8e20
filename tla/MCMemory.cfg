\* One frame more than the kernel, idle, init and one child need: with the kernel heap,
\* a grown stack or a larger program the frames run out.
SPECIFICATION MemSpec
CONSTANTS
  NFRAMES = 12
  MAX_PT_LEN = 5
  KSTACK_START_PAGE = 4
  FirstTextPage = 0
  OrigBrk = 1
  Programs <- MCPrograms
  MAX_PROCS = 3
  MaxExecs = 1
  MaxShrinks = 1
INVARIANTS
  MemTypeOK
  NoSharedFrame
  FramesAccounted
  KernelHeapIsMapped
  BootIsIdentityMapped
  OwnKernelStack
PROPERTIES
  LoadedPagesStay
CHECK_DEADLOCK FALSE
