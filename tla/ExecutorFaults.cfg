SPECIFICATION Spec
CONSTANTS
    TotalThreads = 3
    SizeMax = 4
    Submitters = {s1, s2}
    Requests <- FaultRequests
    Buffers <- OneBuffer
    Inputs <- MCInputs
    MinWeightFloatsPerThread = 1
    Throwing <- AnyFault
    NULL = NULL
SYMMETRY Symmetry
INVARIANTS
    OutputInv
    ErrorBelongsToOwnJob
    NoOrphanWorker
    IInv
