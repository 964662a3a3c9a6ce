SPECIFICATION FairSpec
CONSTANTS
    Clients = {c1, c2}
    NoClient = NoClient
    Limit = 1
    MaxFrames = 0
    MaxRuns = 1
PROPERTIES
    ResponsesEnd
CHECK_DEADLOCK FALSE
