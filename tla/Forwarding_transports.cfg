\* Expected to fail: three transports never name a tenant.
SPECIFICATION Spec
CONSTANTS
    m1 = m1
    m2 = m2
    Msgs <- MCMsgs
    Requests <- MCRequests
    Word = {"a", "b"}
    Stripped = {"+"}
    MaxTenantLen = 64
    MaxBreaks = 1
CHECK_DEADLOCK FALSE
INVARIANT
    AllDevicesPublish
