SPECIFICATION FairSpec
CONSTANTS
    TotalThreads = 3
    SizeMax = 4
    Submitters = {s1}
    Requests <- TwoRequests
    Buffers <- OneBuffer
    Inputs <- MCInputs
    MinWeightFloatsPerThread = 1
    Throwing <- AnyFault
    NULL = NULL
PROPERTIES
    CallReturns
    StopTerminates
