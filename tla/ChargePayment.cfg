CONSTANTS
    Charges = {c1, c2}
    Amounts = {100}
    ClientKeys = {k1}
    Requests = {r1, r2}
    Editors = {x1}
    None = None
SYMMETRY Symmetry
SPECIFICATION Spec
INVARIANTS TypeOK PaidOnce CompletedPaid
PROPERTIES LedgerSpec ReplayPaid
