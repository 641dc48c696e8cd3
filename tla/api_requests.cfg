SPECIFICATION Spec
CONSTANTS
    r1 = r1
    r2 = r2
    w1 = w1
    Call <- MCCall
    Reads <- MCReads
    NoCall = NoCall
    MaxRetries = 1
    MaxFailures = 2
    BodiesArrive = TRUE
INVARIANTS
    SendsBounded
    OneInFlight
    BreakerCounts
    StaleOnlyByOverlap
PROPERTY EveryCallSettles
