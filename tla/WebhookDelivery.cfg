CONSTANTS
    Events = {1}
    Endpoints = {e1}
    Runs = {r1, r2}
    Replays = {p1}
    JobAttempts = 2
    None = None
    Workers = {w1}
    BatchSize = 1
    MaxAttempts = 2
    MaxClaims = 2
SYMMETRY Symmetry
SPECIFICATION Spec
INVARIANTS TypeOK SuccessReceived FailedExhausted
CHECK_DEADLOCK FALSE
