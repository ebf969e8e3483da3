CONSTANTS
    WindowSize = 20
    MaxPacketSize = 10
    IdSpace = 16
    MsgQueueSize = 1
    Plans <- QueuedValue
SPECIFICATION Spec
INVARIANTS
    NothingBehindNewKeys
CHECK_DEADLOCK FALSE
