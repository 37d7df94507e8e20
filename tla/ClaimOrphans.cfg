\* a claim of the repository that the code does not satisfy
SPECIFICATION Spec
CONSTANTS
  MaxProcs = 5
  Ticks = {1}
  Statuses = {0}
  FramesMayRunOut = FALSE
INVARIANTS
  ParentIsAllocated
