SPECIFICATION StreamSpec
CONSTANTS
    Byte <- MCByte
    Msgs <- MCMsgs
    Wire <- MCWire
    HeaderSize <- MCHeaderSize
    MaxPayload <- MCMaxPayload
    Zero <- MCZero
    HeaderOf <- MCHeaderOf
    MaxInjected = 12
    MaxSent = 3
INVARIANTS
    TypeOK
    InboundFifo
    OutboundConserved
    NoneMeansDrained
    JamsOnlyDesynced
PROPERTIES
    DesyncIsFinal
    TakeReturns
    ImplementsChannel
CHECK_DEADLOCK FALSE
