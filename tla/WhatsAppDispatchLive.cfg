\* Two messages of different age competing for the cron; no requests.
SPECIFICATION FairSpec
CONSTANTS
    Messages = {1, 2}
    Attempts = {a1, a2}
    Requests = {}
    Overrides = {}
    JobAttempts = 1
    MaxGrants = 1
    None = None
PROPERTIES
    QueuedTaken
    SendingResolved
CHECK_DEADLOCK FALSE
