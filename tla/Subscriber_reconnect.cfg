\* Without operators: what a reconnection restores.
SPECIFICATION FairSpec
CONSTANTS
    InitialTopics <- MCInitialTopics
    ExtraTopics <- MCExtraTopics
    Slots = 1
    MaxMsgs = 3
    MaxBreaks = 1
    MaxOps = 0
CHECK_DEADLOCK FALSE
INVARIANT
    SubscriptionsMatch
PROPERTIES
    Resubscribes
    HandledUnlessStuck
