\* two processes that read and write one terminal, lines longer than the buffer, a failed allocation
SPECIFICATION KernelSpec
CONSTANTS
  MaxProcs = 3
  Ticks = {}
  Statuses = {0}
  FramesMayRunOut = FALSE
  NumTerminals = 1
  MaxLine = 2
  ReadLens = {1, 2}
  WriteLens = {3}
  MaxTyped = 3
  MaxHeapFailures = 1
INVARIANTS
  TtyTypeOK
  NoProcessTwice
  NoProcessLost
  ReadersAreServed
  InputIsConserved
  OneWriter
  WritersAreWoken
