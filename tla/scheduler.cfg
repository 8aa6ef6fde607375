\* Two runs, stops and crashes with two restarts.
SPECIFICATION FairSpec
CONSTANTS
    t1 = t1
    t2 = t2
    NumRuns = 2
    Threads <- TwoThreads
    ThreadOf <- Alternate
    Concurrency = 1
    MaxRetries = 1
    MaxStops = 2
    Crashing = TRUE
    Failing = TRUE
INVARIANTS
    StoredResultsStay
    WebhooksOnce
PROPERTIES
    QueueKeepsPolling
    StopCompletes
CHECK_DEADLOCK FALSE
