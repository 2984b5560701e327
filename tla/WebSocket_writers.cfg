\* Expected to fail: a ping and a response are written at once.
SPECIFICATION Spec
CONSTANTS
    c1 = c1
    c2 = c2
    Conns = {c1}
    MaxMessages = 1
    MaxPings = 1
    MaxBroadcasts = 0
CHECK_DEADLOCK FALSE
INVARIANT
    ResponsesIntact
