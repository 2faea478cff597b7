SPECIFICATION Spec
CONSTANTS
    SizeMax = 511
    HeaderBytes = 8
    FloatBytes = 4
    StreamMax = 400
    Headers <- MCHeaders
    FileSizes <- MCFileSizes
    NoHeader = NoHeader
INVARIANTS
    LoaderInv
    StorageComplete
    WeightAddressesInside
