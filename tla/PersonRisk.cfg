CONSTANTS
    Persons = {p1}
    Points = {10, 50}
    Tasks = {t1, t2}
    MaxChanges = 1
    None = None
SPECIFICATION FairSpec
INVARIANTS TypeOK RowMatchesEvidence CorrectivesBounded
PROPERTIES NoStepBack 
CHECK_DEADLOCK FALSE
