\* Expected to fail: the server goroutine ends the process.
SPECIFICATION Spec
CONSTANTS
    r1 = r1
    r2 = r2
    Requests <- MCRequests
    MaxSignals = 1
INVARIANT
    GracefulShutdown
