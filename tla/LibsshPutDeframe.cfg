CONSTANTS
    Pieces = 2
    ReadSizes = {1, 100}
SPECIFICATION SshSpec
INVARIANT MessagesAreReconstructed
CHECK_DEADLOCK FALSE
