SPECIFICATION UdtConnectSpec
CONSTANTS
    Clients = {"a", "b"}
    SocketID <- MCSocketID
    SynRecving <- MCSynRecving
    Address <- MCAddress
    Isns = {1, 2}
    Backlog = 1
    StoreMax = 1
    MaxAttempts = 2
    MaxSockets = 2
    MaxMinute = 1
CONSTRAINT MCBound
INVARIANTS
    SocketsMatch
    BacklogKept
    ConnectorsKept
    OutcomeSound
CHECK_DEADLOCK FALSE
