SPECIFICATION FairSpec
CONSTANTS
    Stages <- AllStages
    Txns = {1, 2, 3}
    PacketTypes = {"DISCOVER", "REQUEST", "DECLINE"}
    Discovers = {"DISCOVER"}
    ChanSize = 2
    SubnetConf <- EnabledSubnet
    NodeConf <- EnabledNode
    MaxChanges = 1
    MaxFaults = 1
    None = None
INVARIANTS
    TypeOK
    TableMatchesRoutines
    BootfileIsBound
    ImageIsWhole
PROPERTIES
    MachineBoots
    
CHECK_DEADLOCK FALSE
