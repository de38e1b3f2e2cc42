CONSTANTS
    Charges = {c1}
    Amounts = {100, 250}
    ClientKeys = {k1}
    Requests = {r1}
    Editors = {x1}
    None = None

SPECIFICATION Spec
PROPERTY PaymentMatchesCharge
