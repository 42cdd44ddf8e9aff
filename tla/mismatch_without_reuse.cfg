SPECIFICATION Spec
CONSTANTS
    bash = bash
    nc = nc
    broker = broker
    Pid = 4242
    Comms = {bash, nc}
    Observed = bash
    Brokers = {broker}
    Hunters = {}
    Privileged = {broker}
    MaxProcesses = 1
INVARIANTS
    MismatchMeansReuse
CHECK_DEADLOCK FALSE
