SPECIFICATION ResponseSpec
CONSTANTS
    call = call
    broker = broker
    bash = bash
    nc = nc
    TheCall = call
    TheBroker = broker
    MaxRetries = 1
    Techniques = {"T1059"}
    Floor = 85
    Top = 100
    Replies <- MCReplies
    Pid = 4242
    Comms = {bash, nc}
    Observed = bash
    Brokers = {broker}
    Hunters = {0, 1}
    Privileged = {0, broker}
    MaxProcesses = 3
INVARIANTS
    ResponseTypeOK
    KillsAuthorised
    HunterFirst
    StrangersSpared
    DoneMeansDead
PROPERTIES
    KillCarriedOut
CHECK_DEADLOCK FALSE
