SPECIFICATION UdtSocketsSpec
CONSTANTS
    MaxSocks = 1
    Acceptors = {a1}
    BackLog = 1
INVARIANTS
    NoDeadlock

CHECK_DEADLOCK FALSE
