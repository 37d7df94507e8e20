\* malloc, realloc, calloc and free in a heap that grows from four pages to six
SPECIFICATION HeapSpec
CONSTANTS
  WORD = 2
  HDR = 4
  PAGESIZE = 8
  WIDTH = 7
  LinkedEnds = {1, 2}
  Lens = {3, 9, 64}
  Arrays <- MCArrays
  Incrs = {7}
  MaxBreak = 48
  MaxOwned = 3
INVARIANTS
  HeapTypeOK
  SanityHolds
  BlocksAreOwned
  FreeBlocksAreMerged
  HeapIsMapped
  ContentsSurvive
PROPERTIES
  FailureChangesNothing
