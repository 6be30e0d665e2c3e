\* A verb and an uninstall that take the lock, a reader and a session that do not.
SPECIFICATION FairSpec
CONSTANTS
    Lockers = {v1}
    Uninstallers = {u}
    Bypassers = {}
    Readers = {r}
    Sessions = {s}
    Inode = {i1, i2}
    FirstFiles <- MCAnyFile
    NoFile = NoFile
    NoOwner = NoOwner
    MaxEdits = 1
    MaxStale = 1
PROPERTIES
    VerbsEnd
