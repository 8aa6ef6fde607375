\* Two assistants and one deletion, with up to three versions and one run, or
\* with one version and three runs on two threads.
SPECIFICATION MCFairSpec
CONSTANTS
    a1 = a1
    a2 = a2
    g1 = g1
    c1 = c1
    k1 = k1
    t1 = t1
    t2 = t2
    Nil = Nil
    Ids <- TwoIds
    Graphs <- OneGraph
    Configs <- TheConfigs
    Keys <- TheKeys
    MaxVersion = 3
    NumRuns = 3
    Threads <- TwoThreads
    Deletions = {"d1"}
INVARIANTS
    RowIsItsVersion
    RunsHaveThreads
PROPERTIES
    HistoryHolds
    DeletionEnds
CHECK_DEADLOCK FALSE
