\* Programs on one host, in PID and in systemd mode.
SPECIFICATION FairSpec
CONSTANTS
    Pid = {1, 2, 3, 4, 5, 6}
    NoPid = 0
    Cli = {"c"}
    MaxCrashes = 1
    Scopes <- MCScopes
INVARIANTS
    TypeOK
    SoleTracked
    DoneMeansDone
    ConfigAgrees
PROPERTIES
    OperationsEnd
CHECK_DEADLOCK FALSE
