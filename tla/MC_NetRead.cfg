CONSTANTS
    d1 = d1
    d2 = d2
    Data <- MCData
    MaxStream = 4
    BuffMax = 2
    MaxSizes = {0, 3}
    Timeouts = {0, 1}
    MaxIntr = 1
    Null = Null
SPECIFICATION Spec
INVARIANTS
    InOrder
    BoundedBuffer
    NullOnlyIfNothingRead
PROPERTY
    GetDataReturns
