\* a claim of the repository that the code does not satisfy
SPECIFICATION KernelSpec
CONSTANTS
  MaxProcs = 4
  Ticks = {}
  Statuses = {0}
  FramesMayRunOut = FALSE
  NumTerminals = 1
  MaxLine = 2
  ReadLens = {}
  WriteLens = {2}
  MaxTyped = 0
  MaxHeapFailures = 1
INVARIANTS
  WriterIsNotStuck
