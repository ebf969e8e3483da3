SPECIFICATION Spec
CONSTANTS
    Byte <- MCByte
    Msgs <- MCGoodMsgs
    Wire <- MCWire
    HeaderSize <- MCHeaderSize
    MaxPayload <- MCMaxPayload
    Zero <- MCZero
    HeaderOf <- MCHeaderOf
    MaxInjected = 0
    MaxSent = 2
INVARIANT
    UnprocessedOutputIsKept
CHECK_DEADLOCK FALSE
