SPECIFICATION Spec
CONSTANTS
  r1 = r1
  r2 = r2
  r3 = r3
  opening = opening
  flatten = flatten
  Run <- MCRun
  LockId <- MCLockId
  LockOf <- MCLockOf
  Timeout = 2
  MaxClock = 5
  RunsFitLease = TRUE
INVARIANTS NoOverlap LockInv
PROPERTIES LiveRowOutlastsOthers ImplementsLeaseLock
