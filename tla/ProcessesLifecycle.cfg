\* idle, init and three forked processes: the refinement
SPECIFICATION Spec
CONSTANTS
  MaxProcs = 5
  Ticks = {}
  Statuses <- MCStatuses
  FramesMayRunOut = FALSE
PROPERTIES
  ImplementsLifecycle
