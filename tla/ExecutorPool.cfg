SPECIFICATION Spec
CONSTANTS
    TotalThreads = 3
    SizeMax = 6
    Submitters = {s1, s2}
    Requests <- PoolRequests
    Buffers <- OneBuffer
    Inputs <- MCInputs
    MinWeightFloatsPerThread = 1
    Throwing <- NoFault
    NULL = NULL
SYMMETRY Symmetry
INVARIANTS
    ShardsInBounds
    BorrowedDataAlive
    NoWriteRace
    CompleteOutput
    CompletedExact
PROPERTY
    NoJobSkipped
