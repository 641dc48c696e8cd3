SPECIFICATION FairSpec
CONSTANTS
  t1 = t1
  t2 = t2
  scan = scan
  flatten = flatten
  s1 = s1
  s2 = s2
  Thread <- MCThread
  PaperThread <- MCThread
  LockId <- MCOneLockId
  LockOf <- MCOneLock
  Setup <- MCOneSetup
  RunsFitLease = TRUE
  DbMayFail = FALSE
  SharedSwitch = FALSE
  MaxRuns = 2
  MaxRestarts = 0
INVARIANTS TypeOK ContextMatchesRow NoAbandonedRow OnlyApprovedSubmitted
PROPERTIES ImplementsRunTable KilledLeftByOperator EveryRunSettles EveryCallEnds
