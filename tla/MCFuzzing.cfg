SPECIFICATION FuzzingSpec
CONSTANTS
    Function = {"c", "d", "h", "f"}
    Variable = {"v"}
    Type = {"A", "B"}
    ReturnType <- MCReturnType
    Arguments <- MCArguments
    Agent = {"n0", "n1"}
    Seeds <- MCSeeds
    Zoos <- Zoo
    MAX_DEPTH = 2
    min_trace_length = 1
    max_trace_length = 2
    min_term_size = 0
    max_term_size = 5
    refresh_zoo_after = 2
    Workers = {w1}
    Inputs <- MCInputs
    Corpora <- MCCorpora
    MaxIterations = 2
    MaxMutations = 16
    MaxIters = 2
    UsizeMax = 1000
    MaxRestarts = 1
    Runs <- RunsValue
INVARIANTS
    TypeOK
    RecipesAreBounded
    SeedsAreLoadedOnce
    StatisticsAreRight
    SeedsAreJudged
    TranscriptsAreClaimed
    ErrorLeavesAlert
PROPERTIES
    TypesMatchButForNestedSwaps
    FuzzWorkersGoOn
    FuzzSeedsEnd
CHECK_DEADLOCK FALSE
