\* A user who waits for each change to be applied, and one who does not.
SPECIFICATION FairSpec
CONSTANTS
    NodeName = {"n", "m"}
    Active = "a"
    Workers = {w1, w2}
    Scopes <- MCUsers
INVARIANTS
    NamesStayDistinct
    EditsSound
PROPERTIES
    SavedAsIntended
    AppliedAtLast
