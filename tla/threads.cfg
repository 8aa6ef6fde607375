\* One thread and one fresh identifier, two runs, one update at a time, two
\* checkpoints, two calls and one retry.
SPECIFICATION Spec
CONSTANTS
    t1 = t1
    f1 = f1
    r1 = r1
    r2 = r2
    p1 = p1
    none = none
    Given <- OneGiven
    Fresh <- OneFresh
    Runs <- TwoRuns
    Stateless <- OneStateless
    Evented <- OneEvented
    Posts <- OnePost
    NoRun <- none
    NoThread <- none
    MaxCheckpoints = 2
    MaxCalls = 2
    MaxAttempts = 2
INVARIANTS
    RollbackErases
PROPERTIES
    RollbackRestores
    RowShowsState
CHECK_DEADLOCK FALSE
