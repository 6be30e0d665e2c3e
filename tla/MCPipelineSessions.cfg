\* Sessions and CLI verbs in turn: with failing I/O, or with one name for both kinds.
SPECIFICATION Spec
CONSTANTS
    Name = {"a", "b", "local"}
    NodeName = {"n", "m"}
    AutoOf <- MCAutoOf
    NodeOf <- MCNodeOf
    Template <- MCTemplate
    Slot = {1, 2}
    Scopes <- MCSessions
INVARIANTS
    GroupsLoad
    RoutingSound
    DocSound
