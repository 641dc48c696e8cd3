SPECIFICATION Spec
CONSTANTS
  t1 = t1
  t2 = t2
  scan = scan
  flatten = flatten
  s1 = s1
  s2 = s2
  Thread <- MCThread
  PaperThread <- MCNoThread
  LockId <- MCOneLockId
  LockOf <- MCOneLock
  Setup <- MCTwoSetups
  RunsFitLease = TRUE
  DbMayFail = TRUE
  SharedSwitch = TRUE
  MaxRuns = 2
  MaxRestarts = 1
INVARIANTS SingleRunPerLock ContextBelongsToRunner SuccessWasCompleted RunKeepsCourse OneVerdictAfterHalt OnlyApprovedSubmitted
