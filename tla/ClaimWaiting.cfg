\* a claim of the repository that the code does not satisfy
SPECIFICATION Spec
CONSTANTS
  MaxProcs = 4
  Ticks = {}
  Statuses = {0}
  FramesMayRunOut = FALSE
INVARIANTS
  ReadyAtMostOnce
