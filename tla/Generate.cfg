SPECIFICATION GenerateSpec
CONSTANTS
    Context = 3
    MaxNew = 3
    Ids <- MCIds
    Known <- MCKnown
    PromptSet <- MCPrompts
    LogitsOf <- MCLogits
    Row <- MCRow
    Real <- MCReal
    Greedy <- MCGreedy
    Unknown = Unknown
    None = None
INVARIANTS
    GenerateInv
    OutputIsGreedy
    DumpDescribesOutput
    CapacityCheckIsExact
