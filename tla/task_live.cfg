SPECIFICATION FairSpec
CONSTANTS
  scan = scan
  custom = custom
  paper = paper
  live = live
  i1 = i1
  i2 = i2
  w1 = w1
  w2 = w2
  Task <- MCTask
  Checkpoint <- MCCheckpoint
  OpeningScan = scan
  Mode <- MCMode
  LoopMode = paper
  Time = 1
  Loop <- MCNoLoop
  Worker <- MCWorker
  RunsFitLease = TRUE
  DbMayFail = FALSE
  MaxMinute = 0
  MaxRestarts = 0
INVARIANTS  SingleRunPerCheckpoint
 
