SPECIFICATION Spec
CONSTANTS
    Executions = {e1, e2}
    Sessions = {chat, s1}
    Chat = chat
    None = None
    Backend = "localCli"
    Memories = {"postgres", "redis", "simple"}
    Streaming = {TRUE}
    Faults = {"connect", "poll", "unlock", "memory", "setup", "stream", "durable", "transcript",
              "record", "wait"}
    MaxRounds = 1
SYMMETRY MCSymmetry
INVARIANTS
    TypeOK
    Exclusive
    LeakIsResolveFailure
    AnswerNeverDropped
    AskedNeverDone
    StreamTellsOutcome
CHECK_DEADLOCK FALSE
