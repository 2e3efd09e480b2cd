SPECIFICATION Spec
CONSTANTS
    Relays = {"thermal"}
    Clients = {"browser1"}
    Cap = 10
    MaxChanges = 2
    MaxCuts = 2
    MaxJoins = 2
INVARIANTS
    TypeOK
    DarkBounded
PROPERTIES
    VideoArrives
CHECK_DEADLOCK FALSE
