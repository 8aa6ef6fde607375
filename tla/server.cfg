\* Two sessions, a kill and an unreadable file; two runs to report over three
\* moments.  Two graphs over three starts.  Two calls from two threads over two sessions.
SPECIFICATION MCSpec
CONSTANTS
    MaxRuns = 2
    MaxClock = 2
    MaxTries = 3
    MaxSessions = 2
    MaxKills = 1
    MaxSpoils = 1
    MaxPolls = 1
    MaxDeaths = 1
    Graphs = {g1, g2}
    Settings = {s1, s2}
    MaxStarts = 3
    Nil = Nil
    Calls = {c1, c2}
    Threads = {t1, t2}
    Namespaces = {n1, n2}
    Keys = {k1}
    Values = {v1}
    Nothing = Nothing
INVARIANTS
    Reported
    SavedInOrder
    ServesAsLeft
    ItemsKept
PROPERTIES
    ServerStartsAgain
CHECK_DEADLOCK FALSE
