\* Add, Remove and Stop against OnConnect and the handler.
SPECIFICATION Spec
CONSTANTS
    InitialTopics <- MCInitialTopics
    ExtraTopics <- MCExtraTopics
    Slots = 2
    MaxMsgs = 1
    MaxBreaks = 1
    MaxOps = 1
CHECK_DEADLOCK FALSE
INVARIANTS
    TypeOK
    StopIsFinal
    AddedIsSubscribed
