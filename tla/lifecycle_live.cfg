\* Two threads, so that the head of the queue can block the other thread.
SPECIFICATION FairSpec
CONSTANTS
    t1 = t1
    t2 = t2
    c1 = c1
    none = none
    NumRuns = 2
    Threads <- TwoThreads
    NoThread <- none
    Requests <- OneRequest
    MaxRetries = 1
    Strategies <- Enqueue
    GraphOutcomes <- JustRetry
    Deleting = FALSE
    Streaming = FALSE
PROPERTIES
    EveryRunSettles
    DoneAnnounced
    CancelCompletes
CHECK_DEADLOCK FALSE
