\* The loops, the readers and a delay test, while mihomo comes and goes.
SPECIFICATION FairSpec
CONSTANTS
    traffic = traffic
    connections = connections
    proxies = proxies
    Streams = {traffic, connections}
    Polls = {proxies}
    Readers = 3
    Capacity = 1
    Tests = {t1, t2}
    Member = {m, n}
    Used <- MCUsed
INVARIANTS
    TypeOK
    ReadersOwned
    TestsAnswer
PROPERTIES
    AllGetOn
CHECK_DEADLOCK FALSE
