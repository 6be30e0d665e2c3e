\* Three mutating verbs that all take the lock.
SPECIFICATION FairSpec
CONSTANTS
    Lockers = {v1, v2, v3}
    Uninstallers = {}
    Bypassers = {}
    Readers = {}
    Sessions = {}
    Inode = {i1}
    FirstFiles <- MCAnyFile
    NoFile = NoFile
    NoOwner = NoOwner
    MaxEdits = 1
    MaxStale = 1
INVARIANTS
    TypeOK
    MutualExclusion
    NoLostUpdate
PROPERTIES
    ImplementsAtomicStore
