SPECIFICATION Spec
CONSTANTS
    Executions = {e1, e2}
    Sessions = {chat, s1, s2}
    Chat = chat
    None = None
    Backend = "managedAgent"
    Memories = {"postgres"}
    Streaming = {FALSE}
    Faults = {}
    MaxRounds = 1
INVARIANTS
    AnswerReachesAsker
CHECK_DEADLOCK FALSE
