\* The forwarding path at either QoS, every request shape.
SPECIFICATION FairSpec
CONSTANTS
    m1 = m1
    m2 = m2
    Msgs <- MCMsgs
    Requests <- MCRequests
    Word = {"a", "b"}
    Stripped = {"+"}
    MaxTenantLen = 64
    MaxBreaks = 2
CHECK_DEADLOCK FALSE
INVARIANTS
    TypeOK
    PublishedUnderOwnTenant
    RefusedNeverPublished
    AcceptedIsHeld
    AcceptedUnlessOutage
    CopiesBounded
PROPERTIES
    SentAgainOnlyOnReconnect
    KeepsPromise
    AnsweredOrStranded
    AcceptedIsDelivered
