SPECIFICATION FairSpec
CONSTANTS
    Executions = {e1, e2}
    Sessions = {chat, s1, s2}
    Chat = chat
    None = None
    Backend = "managedAgent"
    Memories = {"postgres"}
    Streaming = {FALSE}
    Faults = {"unlock", "memory", "record", "wait"}
    MaxRounds = 1
INVARIANTS
    ReadIsCurrent
    PausedIsAnswerable
PROPERTIES
    LockComesFree
CHECK_DEADLOCK FALSE
