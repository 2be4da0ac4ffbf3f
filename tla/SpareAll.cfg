SPECIFICATION LiveSpec
CONSTANTS
    MinImages = 1
    Extra = 2
    Kept = 0
    Budget = 2
    MultiPresent = FALSE
    AnyOrder = FALSE
    MaxLost = 1
INVARIANTS
    TypeOK
    NoImageTwice
    NoImageForgotten
    FenceUnraced
    SwapchainExclusive
PROPERTIES
    PresenterGetsTurns
    AcquireReturns
