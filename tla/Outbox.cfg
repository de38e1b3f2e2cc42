CONSTANTS
    Events = {1, 2}
    Endpoints = {e1}
    Runs = {}
    Replays = {}
    JobAttempts = 1
    None = None
    Workers = {w1, w2}
    BatchSize = 2
    MaxAttempts = 2
    MaxClaims = 2
SPECIFICATION FairSpec
INVARIANTS ProcessedHandedOver FailedAfterAttempts
PROPERTIES PromiseSpec EventSettled
CHECK_DEADLOCK FALSE
