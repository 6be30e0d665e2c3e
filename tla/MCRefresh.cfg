\* Refreshes beside deletions, failing writes, kills and a user who may leave.
SPECIFICATION FairSpec
CONSTANTS
    A = A
    B = B
    X = X
    Y = Y
    Name = {A, B}
    Url = {X, Y}
    None = None
    Worker = {w1, w2}
    Scopes <- MCScopes
INVARIANTS
    TypeOK
    CacheOwned
PROPERTIES
    ImplementsFeed
    RefreshEnds
    AppliedAtLast
