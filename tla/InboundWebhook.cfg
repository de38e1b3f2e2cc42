CONSTANTS
    batch = batch
    m1 = m1
    m2 = m2
    ana = ana
    Events = {batch}
    Messages = {m1, m2}
    Customers = {ana}
    Conversations = {c1, c2}
    Items <- MCItems
    From <- MCFrom
    Runs = {r1, r2}
    JobAttempts = 1
    MaxReplays = 1
    None = None
SPECIFICATION FairSpec
INVARIANTS TypeOK CountedOnce FailedForGood
PROPERTIES  AcknowledgedStored
CHECK_DEADLOCK FALSE
