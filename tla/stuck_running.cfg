\* One run is executing when the server stops.
SPECIFICATION Spec
CONSTANTS
    t1 = t1
    t2 = t2
    NumRuns = 1
    Threads <- TwoThreads
    ThreadOf <- Alternate
    Concurrency = 1
    MaxRetries = 1
    MaxStops = 1
    Crashing = FALSE
    Failing = FALSE
INVARIANT
    CancelledIsAvailable
CHECK_DEADLOCK FALSE
