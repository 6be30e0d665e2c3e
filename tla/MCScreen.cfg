SPECIFICATION FairSpec
CONSTANTS
    Name = {"a", "b", "g", "h", "local"}
    NodeName = {"m", "n"}
    AutoOf <- MCAutoOf
    NodeOf <- MCNodeOf
    Scopes <- MCScopes
    MaxPending = 2
INVARIANTS
    TypeOK
    ScreenAgrees
PROPERTIES
    RowHit
    ScreenCatchesUp
    LeaverQuits
CHECK_DEADLOCK FALSE
