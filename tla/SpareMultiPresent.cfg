SPECIFICATION Spec
CONSTANTS
    MinImages = 2
    Extra = 2
    Kept = 1
    Budget = 2
    MultiPresent = TRUE
    AnyOrder = FALSE
    MaxLost = 1
INVARIANTS
    SwapchainExclusive
