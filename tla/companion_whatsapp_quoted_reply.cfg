SPECIFICATION Spec
CONSTANTS
    r1 = r1
    Requests = {r1, r2}
    Answers = {"answer"}
    RecipientOf <- MCOneRecipient
    KindOf <- MCApprovals
    Handlers = {h1, h2}
    Nodes <- MCWhatsAppNode
    Deliveries <- MCApprove
    DefaultMaxAge = 2
    MaxMaxAge = 3
    ConsumedMaxAge = 2
    MaxClock <- MCMaxClock
INVARIANTS
    RepeatedReplyAcceptedOnce
CHECK_DEADLOCK FALSE
