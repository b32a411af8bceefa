SPECIFICATION FairSpec
CONSTANTS
    a = a
    b = b
    Tools = {a, b}
    Presenter = a
    MaxTurns = 2
    MaxSpent = 5
    MaxWire = 0
    None = None
CHECK_DEADLOCK FALSE
INVARIANTS
    HandledIsWritten
    ToolsAsTold
PROPERTIES
    KeepsReplyLog
    SendSettles
