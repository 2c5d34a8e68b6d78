SPECIFICATION UdtConnectSpec
CONSTANTS
    Clients = {"a", "b"}
    SocketID <- MCSocketID
    SynRecving <- MCSynRecving
    Address <- MCAddress
    Isns = {1, 2}
    Backlog = 1
    StoreMax = 1
    MaxAttempts = 2
    MaxSockets = 2
    MaxMinute = 0
CONSTRAINT MCBound
INVARIANTS
    FailedMayRetry
CHECK_DEADLOCK FALSE
