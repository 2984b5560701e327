\* Two connections: their table and its upkeep.
SPECIFICATION FairSpec
CONSTANTS
    c1 = c1
    c2 = c2
    Conns <- MCConns
    MaxMessages = 2
    MaxPings = 1
    MaxBroadcasts = 1
CHECK_DEADLOCK FALSE
INVARIANTS
    TypeOK
    TableMatchesServed
PROPERTY
    DeadIsForgotten
