SPECIFICATION Spec
CONSTANTS
    c1 = c1
    c2 = c2
    Calls = {c1, c2}
    MaxRetries = 2
INVARIANTS
    TypeOK
    GivesUpLast
PROPERTIES
    KeepsPromise
CHECK_DEADLOCK FALSE
