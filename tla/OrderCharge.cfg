CONSTANTS
    Orders = {o1}
    Amounts = {0, 100}
    Tasks = {t1, t2}
    MaxRetries = 2
    MaxEvents = 3
    MaxFaults = 1
    None = None
SPECIFICATION FairSpec
INVARIANTS TypeOK ChargedIsDone RecordsTellTheTruth ChargesBounded OneStartPerWindow
PROPERTIES BillingSpec DoneCharged
CHECK_DEADLOCK FALSE
