SPECIFICATION FairSpec
CONSTANTS
    Traces <- MCTraces
    Prior <- MCPrior
    Descriptors <- MCDescriptors
    Steps <- MCSteps
    Roots = {"mutualAuth"}
    AgentName <- MCNames
    DataType = {"Message", "Random", "OpaqueMessage", "Finished"}
    Message <- MCMessage
    ClaimForms <- MCClaimForms
    NewStream = TRUE
    CallbackOnCtx = TRUE
    MaxSent = 1
    MaxClaims = 2
PROPERTY
    ReuseOnlyIfWanted
CHECK_DEADLOCK FALSE
