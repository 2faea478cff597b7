SPECIFICATION BenchmarkSpec
CONSTANTS
    Context = 3
    MaxGeneration = 3
    MaxRounds = 2
    Ids <- MCIds
    Known <- MCKnown
    PromptSet <- MCPrompts
    LogitsOf <- MCLogits
    Row <- MCRow
    Real <- MCReal
    Greedy <- MCGreedy
    Unknown = Unknown
    None = None
INVARIANTS
    BenchmarkInv
    RoundsAreAlike
    ModesAgree
    OnlySingleDecodeLacksRoom
