SPECIFICATION FairSpec
CONSTANTS
    Traces <- MCTraces
    Prior <- MCPrior
    Descriptors <- MCDescriptors
    Steps <- MCSteps
    Roots = {"resumption", "stray", "nested"}
    AgentName <- MCNames
    DataType = {"Message", "Random", "OpaqueMessage", "Finished"}
    Message <- MCMessage
    ClaimForms <- MCClaimForms
    NewStream = TRUE
    CallbackOnCtx = FALSE
    MaxSent = 1
    MaxClaims = 2
INVARIANTS
    TypeOK
    OneAgentPerKind
    ClaimsAreRecorded
    OutputBecomesKnowledge
    SessionIsolation
    StepsRunAsDeclared
    NothingRunsOnAViolation
PROPERTIES
    Terminates
CHECK_DEADLOCK FALSE
