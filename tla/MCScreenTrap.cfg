\* The filter of the Rules tab, on its page of local rules.
SPECIFICATION FairSpec
CONSTANTS
    Name = {"a", "local"}
    NodeName = {"m"}
    AutoOf <- MCAutoOf
    NodeOf <- MCNodeOf
    Scopes <- MCTrap
    MaxPending = 1
PROPERTY LeaverAlwaysQuits
CHECK_DEADLOCK FALSE
