SPECIFICATION UdtSocketsSpec
CONSTANTS
    MaxSocks = 1
    Acceptors = {a1, a2}
    BackLog = 1
INVARIANTS
    TablesSound
    AnnouncementsArrive
PROPERTIES
    ListenerRemoved
    AcceptEnds
CHECK_DEADLOCK FALSE
