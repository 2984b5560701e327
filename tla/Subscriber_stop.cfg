\* Expected to fail: Stop waits behind publishes nobody takes.
SPECIFICATION FairSpec
CONSTANTS
    InitialTopics <- MCInitialTopics
    ExtraTopics <- MCExtraTopics
    Slots = 2
    MaxMsgs = 4
    MaxBreaks = 0
    MaxOps = 0
CHECK_DEADLOCK FALSE
PROPERTY
    StopReturns
