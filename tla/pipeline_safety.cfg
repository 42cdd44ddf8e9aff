SPECIFICATION Spec
CONSTANTS
    e1 = e1
    e2 = e2
    e3 = e3
    e4 = e4
    w1 = w1
    w2 = w2
    Events = {e1, e2, e3, e4}
    Short = {}
    Suspicious = {e1, e2, e3, e4}
    Kill = {}
    Workers = {w1, w2}
    QueueSize = 1
    NoEvent = NoEvent
    Torn = Torn
    Replayer = Replayer
    Faults = {"append", "rename"}
SYMMETRY Symmetry
INVARIANTS
    TypeOK
    NoSilentLoss
    OnePlace
    NoStrandedReplay
    SpillBalance
PROPERTIES
    SpillIsDurable
    KeepsPromise
