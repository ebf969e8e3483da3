SPECIFICATION DataSpec
CONSTANTS
    Claims <- MCClaims
    MaxClaims = 3
    Items <- MCItems
    Queries <- MCQueries
    MaxKnowledge = 4
    UnknownLength = 70
    TimestampLength = 12
    Messages <- MCMessages
    Binders <- MCBinders
    CutPoints <- MCCutPoints
    MaxUses = 1
    FlowMessages <- MCFlowMessages
    EncodingOf <- EncodeHandshake
    ReadingOf <- MCReadingOf
    FragmentSizes = {31, 32, 40}
    MaxFlow = 2
    MAX_HANDSHAKE_SIZE = 100
INVARIANTS
    BestMatchIsReturned
CHECK_DEADLOCK FALSE
