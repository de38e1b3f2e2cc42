CONSTANTS
    Executions = {1, 2, 3}
    Calls = {c1, c2, c3}
    None = None
SPECIFICATION Spec
INVARIANTS
    TypeOK
    CarriedOnce
    StandsInFront

    
SYMMETRY Symmetry
CHECK_DEADLOCK FALSE
