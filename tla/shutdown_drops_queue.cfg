SPECIFICATION Spec
CONSTANTS
    e1 = e1
    e2 = e2
    w1 = w1
    Events = {e1, e2}
    Short = {}
    Suspicious = {e1, e2}
    Kill = {}
    Workers = {w1}
    QueueSize = 1
    NoEvent = NoEvent
    Torn = Torn
    Replayer = Replayer
    Faults = {}
INVARIANTS
    NeverSilentlyDropped
