\* idle, init and two forked processes; every error path of the calls; liveness under the kernel's fairness
SPECIFICATION FairSpec
CONSTANTS
  MaxProcs = 4
  Ticks <- MCTicks
  Statuses = {0}
  FramesMayRunOut = TRUE
INVARIANTS
  TypeOK
  NoProcessTwice
  NoProcessLost
  CurrentIsRunning
  NoLostWakeup
  WokenWaiterReaps
  SavedNodesAreLinked
PROPERTIES
  ReadyRuns
  DelayEnds
