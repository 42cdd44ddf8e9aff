SPECIFICATION Spec
CONSTANTS
    c1 = c1
    c2 = c2
    CPUs = {c1, c2}
    Calls <- MCCalls
    Slots = 2
    MaxFilename = 3
    MaxArgs = 2
    MaxArgLen = 2
    MaxExecs = 3
INVARIANTS
    TypeOK
    RecordIsFaithful
    ReservationsAreHeld
    EachExecInOnePlace
    ReadWhereWritten
PROPERTIES
    InOrder
    Delivered
