SPECIFICATION Spec
CONSTANTS
  scan = scan
  custom = custom
  paper = paper
  live = live
  i1 = i1
  i2 = i2
  w1 = w1
  w2 = w2
  Task <- MCOnlyScan
  Checkpoint <- MCCheckpoint
  OpeningScan = scan
  Mode <- MCMode
  LoopMode = paper
  Time = 1
  Loop <- MCLoop
  Worker <- MCWorker
  RunsFitLease = TRUE
  DbMayFail = TRUE
  MaxMinute = 1
  MaxRestarts = 1
VIEW MCView
SYMMETRY MCWorkersAlike
INVARIANT SingleRunPerTask
PROPERTY OncePerMinute
