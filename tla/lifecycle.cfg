\* One thread, two runs and one cancellation; every client behaviour.
SPECIFICATION Spec
CONSTANTS
    t1 = t1
    t2 = t2
    c1 = c1
    none = none
    NumRuns = 2
    Threads <- OneThread
    NoThread <- none
    Requests <- OneRequest
    MaxRetries = 1
    Strategies <- AllStrategies
    GraphOutcomes <- SomeOutcomes
    Deleting = TRUE
    Streaming = TRUE
INVARIANTS
    OneRunningPerThread
    RunningIsOwned
    DoneIsFinal
    BusyCoversInflight
PROPERTIES
    ContractHolds
CHECK_DEADLOCK FALSE
