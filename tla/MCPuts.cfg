CONSTANTS
    Tries = 3
    AnswerCount = 2
    TcpTraces <- TcpTracesValue
    Fuzzers = {f1, f2, f3}
    PutsPerTrace = 2
    Pieces = 2
    ReadSizes = {1, 2, 3, 100}
    WindowSize = 20
    MaxPacketSize = 10
    IdSpace = 16
    MsgQueueSize = 1
    Plans <- PlansValue
SPECIFICATION PutsSpec
INVARIANTS
    
    WindowsAgree
    DataIsDelivered
    TcpAnswersInOrder
    TcpProcessIsManaged
    StreamsArePaired
    SshSeedWorks
PROPERTIES
    PutsGetOn
CHECK_DEADLOCK FALSE
