\* three writers of one terminal, two chunks each: liveness
SPECIFICATION FairKernelSpec
CONSTANTS
  MaxProcs = 4
  Ticks = {}
  Statuses = {}
  FramesMayRunOut = FALSE
  NumTerminals = 1
  MaxLine = 2
  ReadLens = {}
  WriteLens = {3}
  MaxTyped = 0
  MaxHeapFailures = 0
PROPERTIES
  WriteEnds
  LockIsGranted
