\* The start and the shutdown of every configuration.
SPECIFICATION FairSpec
CONSTANTS
    r1 = r1
    r2 = r2
    Requests <- MCRequests
    MaxSignals = 2
INVARIANTS
    TypeOK
    ServedOnlyWhenWired
    ClientOutlivesRequests
    FlushedLast
PROPERTIES
    ShutdownEnds
    StartupEnds
