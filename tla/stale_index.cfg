\* Two requests of one user under way together.
SPECIFICATION MCSpec
CONSTANTS
    Users = {u1, u2}
    Slots = {1, 2}
    Named = {t1, t2}
    Copies = {c1}
    Registrations <- Considered
    Nobody = Nobody
    NoCall = NoCall
    Limit = 1
    MaxRows = 2
    MaxCalls = 4
    Requests = {r1, r2}
    Threads = {t1}
    Assistants = {a1}
    Settings = {v1}
    NoValue = NoValue
    NoRow = NoRow
    Configurable = {checkpoint_id, user_id}
    TopLevel = {tags}
    CheckpointId = checkpoint_id
    UserId = user_id
    MaxPatches = 1
    Size = 3
    Runs = {j1}
    Reads = {s1}
    MaxTries = 2
    MaxPuts = 1
    MaxFaults = 2
    People = {p1, p2}
    Incoming = {q1, q2}
    Jobs = {k1, k2}
    Studio = Studio
    Anonymous = Anonymous
    NoUser = NoUser
    MaxDepth = 1
PROPERTIES
    DeletesNamed
CHECK_DEADLOCK FALSE
