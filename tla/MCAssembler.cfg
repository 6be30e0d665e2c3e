\* Assemble on every small input (MCInputs).
SPECIFICATION CallSpec
CONSTANTS
    Name = {"a", "b", "c", "local"}
    NodeName = {"n", "m"}
    AutoOf <- MCAutoOf
    NodeOf <- MCNodeOf
    Template <- MCTemplate
    Slot = {1, 2}
    Inputs <- MCInputs
INVARIANTS
    TopIsClosed
    GroupsAreClosed
    TopIsActive
    NamesAreUnique
    ReferencesResolve
\* The call returns once and the behaviour ends.
CHECK_DEADLOCK FALSE
