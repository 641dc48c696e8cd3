SPECIFICATION Spec
CONSTANTS
    Attempt = {a1, a2, a3}
    NoAttempt = NoAttempt
    MaxFrames = 2
INVARIANTS
    OneSocket
    NeverStranded
    ConnectedIsWatched
    OpenIsSubscribed
PROPERTY Reconnects
