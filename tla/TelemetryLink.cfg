SPECIFICATION Spec
CONSTANTS
    Clients = {"browser"}
    Kinds = {"GLOBAL_POSITION_INT", "BATTERY_STATUS"}
    Position = "GLOBAL_POSITION_INT"
    Battery = "BATTERY_STATUS"
    MaxMessages = 3
    MaxUdp = 2
    MaxInbox = 2
    MaxDrops = 2
    MaxRestarts = 1
INVARIANTS
    TypeOK
    FlagWillBeCorrected
PROPERTIES
    ImplementsLiveView
    ShownOnlyWhileConnected
    EveryClientCatchesUp
