SPECIFICATION Spec
CONSTANTS
    Grain = 2
    CPUs = 2
    MaxAwake = 4
    MaxAsleep = 2
    MaxEvents = 3
INVARIANTS
    StampsOrderEvents
    StampAccurate
CHECK_DEADLOCK FALSE
