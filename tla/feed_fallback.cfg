SPECIFICATION Spec
CONSTANTS
    Attempt = {a1, a2, a3}
    NoAttempt = NoAttempt
    MaxFrames = 2
PROPERTY FallbackRuns
