\* A creator and a joiner, three chunks, one retry; two attempts of an execution;
\* three events of a graph; two events, an error and a comment on the wire; two clients
\* who call over and over, for two runs.
SPECIFICATION MCSpec
CONSTANTS
    creator = creator
    joiner = joiner
    Creators <- OneCreator
    Joiners <- OneJoiner
    MaxChunks = 3
    MaxRetries = 1
    MaxAttempts = 2
    Messages = {m1}
    Checkpoint = Checkpoint
    Streams <- Considered
    MaxSteps = 3
    MaxEvents = 2
    MaxBeats = 1
    MaxRaw = 6
    Stateless = FALSE
    Requests = {q1, q2}
    Works = {w1, w2}
    MaxVersions = 2
INVARIANTS
    OutcomeIsTrue
    Released
    EmitsWhatIsAsked
    AsSplitlines
    PartsAreEvents
    NotForgotten
    AnswersAreTrue
PROPERTIES
    ReadsTheLog
    AllReadersLeave
CHECK_DEADLOCK FALSE
