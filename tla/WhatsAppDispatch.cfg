\* One message, one request at a time: crashes, hung workers, retries of jobs.
SPECIFICATION Spec
CONSTANTS
    Messages = {1}
    Attempts = {a1, a2}
    Requests = {r1}
    JobAttempts = 2
    Overrides = {"QUEUED", "FAILED", "CANCELED"}
    MaxGrants = 2
    None = None
SYMMETRY Symmetry
INVARIANTS
    TypeOK
    CopiesWithinGrants
    ProviderIdIsACopy
PROPERTIES
    LedgerSpec
    UncertainDecidedByRequest
CHECK_DEADLOCK FALSE
