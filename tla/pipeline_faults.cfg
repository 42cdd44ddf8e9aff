SPECIFICATION Spec
CONSTANTS
    e1 = e1
    e2 = e2
    malformed = malformed
    w1 = w1
    w2 = w2
    Events = {e1, e2, malformed}
    Short = {malformed}
    Suspicious = {e1, e2, malformed}
    Kill = {e1, e2}
    Workers = {w1, w2}
    QueueSize = 1
    NoEvent = NoEvent
    Torn = Torn
    Replayer = Replayer
    Faults = {"append", "torn", "read", "rename", "reopen", "open", "audit", "crash", "nosensor"}
SYMMETRY Symmetry
INVARIANTS
    OnePlace
    LossMeansLogBroken
PROPERTIES
    HandOver
    SpillLossExplained
