SPECIFICATION FairSpec
CONSTANTS
    Peers = {p1}
    Blocks = 11
    Modulus = 6
    QueueSize = 2
    MaxSends = 2
    MaxRequests = 2
    MaxAge = 1
    MaxFaults = 1
    NoPacket = NoPacket
INVARIANTS
    TypeOK
    NoPacketStranded
    LockStep
    FileIntegrity
PROPERTY
    EverySessionEnds
CHECK_DEADLOCK FALSE
