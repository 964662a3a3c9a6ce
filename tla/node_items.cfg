SPECIFICATION FairSpec
CONSTANTS
    w1 = w1
    w2 = w2
    Writer = {w1, w2}
    NoRow = NoRow
    Free = Free
    Items <- MCItems
    Lenient = {w1}
    WithPlane = {w1}
    MaxFaults = 1
INVARIANTS
    RecordMatches
    ReturnsAreDurable
    OneOutcome
    PlaneAgrees
PROPERTY NodesEnd
CHECK_DEADLOCK FALSE
