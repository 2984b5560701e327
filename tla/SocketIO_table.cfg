\* Three sessions, with and without the library's Serve loop.
SPECIFICATION FairSpec
CONSTANTS
    c1 = c1
    c2 = c2
    c3 = c3
    Conns <- MCConns
    MaxEvents = 2
CHECK_DEADLOCK FALSE
INVARIANTS
    TypeOK
    TableMatchesConnected
    CountsAgree
    ConnectedNeverKills
    FailsOnlyOnceClosed
PROPERTIES
    GoneLeaveTable
