CONSTANTS
    Orders = {o1}
    Amounts = {100}
    Tasks = {t1, t2}
    MaxRetries = 2
    MaxEvents = 0
    MaxFaults = 0
    None = None
SPECIFICATION Spec
INVARIANT OneCharge
CHECK_DEADLOCK FALSE
