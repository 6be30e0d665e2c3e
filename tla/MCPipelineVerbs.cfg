\* One CLI verb after another: sources and cache, or groups and nodes.
SPECIFICATION Spec
CONSTANTS
    Name = {"a", "b", "local"}
    NodeName = {"n", "m"}
    AutoOf <- MCAutoOf
    NodeOf <- MCNodeOf
    Template <- MCTemplate
    Slot = {1, 2}
    Scopes <- MCVerbs
INVARIANTS
    TypeOK
    SourcesSound
    EmittedFromDisk
    NodesSound
