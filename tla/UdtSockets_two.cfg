SPECIFICATION UdtSocketsSpec
CONSTANTS
    MaxSocks = 2
    Acceptors = {a1}
    BackLog = 1
INVARIANTS
    QueuedAlive
    RefCountExact
    NoLostAccept
    NoSilentListener
    LostOnlyIfBroken

CHECK_DEADLOCK FALSE
