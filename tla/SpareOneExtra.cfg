SPECIFICATION LiveSpec
CONSTANTS
    MinImages = 2
    Extra = 1
    Kept = 1
    Budget = 1
    MultiPresent = FALSE
    AnyOrder = FALSE
    MaxLost = 1
PROPERTIES
    AcquireReturns
