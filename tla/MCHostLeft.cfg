\* `uninstall' of a host whose config.toml names no manager.
SPECIFICATION LeftSpec
CONSTANTS
    Pid = {1, 2, 3, 4, 5, 6}
    NoPid = 0
    Cli = {"c"}
    MaxCrashes = 1
    Scopes <- MCLeft
INVARIANTS
    UninstallAlwaysLeavesNone
CHECK_DEADLOCK FALSE
