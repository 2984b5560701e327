\* Expected to fail: health answers 200 while the client reconnects.
SPECIFICATION HealthSpec
CONSTANTS
    Msgs = {m1}
    Requests <- MCRequests
    Word = {"a", "b"}
    Stripped = {"+"}
    MaxTenantLen = 64
    MaxBreaks = 1
CHECK_DEADLOCK FALSE
INVARIANT
    HealthFailsIfDisconnected
