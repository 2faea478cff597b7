SPECIFICATION Spec
CONSTANTS
    TotalThreads = 2
    SizeMax = 3
    Submitters = {s1, s2}
    Requests <- MCRequests
    Buffers <- MCBuffers
    Inputs <- MCInputs
    MinWeightFloatsPerThread = 1
    Throwing <- MCThrowing
    NULL = NULL
    TornValue = Torn
PROPERTY
    ImplementsService
