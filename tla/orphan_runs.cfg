\* Three runs of two assistants, on two threads.
SPECIFICATION MCSpec
CONSTANTS
    a1 = a1
    a2 = a2
    g1 = g1
    c1 = c1
    k1 = k1
    t1 = t1
    t2 = t2
    Nil = Nil
    Ids <- TwoIds
    Graphs <- OneGraph
    Configs <- TheConfigs
    Keys <- TheKeys
    MaxVersion = 2
    NumRuns = 3
    Threads <- TwoThreads
    Deletions = {"d1"}
INVARIANT CascadeIsComplete
CHECK_DEADLOCK FALSE
