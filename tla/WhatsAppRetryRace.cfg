\* Two retries of one failed message at the same time.
SPECIFICATION Spec
CONSTANTS
    Messages = {1}
    Attempts = {a1, a2}
    Requests = {r1, r2}
    Overrides = {}
    JobAttempts = 1
    MaxGrants = 2
    None = None
PROPERTIES
    SentNeverRetried
CHECK_DEADLOCK FALSE
