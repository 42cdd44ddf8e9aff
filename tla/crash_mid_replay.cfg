SPECIFICATION Spec
CONSTANTS
    e1 = e1
    e2 = e2
    e3 = e3
    w1 = w1
    Events = {e1, e2, e3}
    Short = {}
    Suspicious = {e1, e2, e3}
    Kill = {}
    Workers = {w1}
    QueueSize = 1
    NoEvent = NoEvent
    Torn = Torn
    Replayer = Replayer
    Faults = {"crash"}
PROPERTIES
    SpillIsDurable
