SPECIFICATION Spec
CONSTANTS
    Function = {"c", "d", "h", "f"}
    Variable = {"v"}
    Type = {"A", "B"}
    ReturnType <- MCReturnType
    Arguments <- MCArguments
    Agent = {"n0", "n1"}
    Seeds <- MCSeeds
    Zoos <- Zoo
    MAX_DEPTH = 2
    min_trace_length = 1
    max_trace_length = 2
    min_term_size = 0
    max_term_size = 5
    refresh_zoo_after = 2
INVARIANT TypesMatch
