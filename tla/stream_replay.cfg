SPECIFICATION FairSpec
CONSTANTS
    Clients = {c1}
    NoClient = NoClient
    Limit = 1
    MaxFrames = 1
    MaxRuns = 2
INVARIANTS
    TerminalIsQuiet
    TailComplete
    DeliveredIsPersisted
PROPERTIES
    ResponsesEnd
CHECK_DEADLOCK FALSE
