SPECIFICATION FairSpec
CONSTANTS
    Apps = {a1, a2}
    Swapchains = {s1, s2}
    AppQueues = {q1, q2}
    Own = own
    None = none
    QueryMayFail = FALSE
    InFlight = 2
    MaxCalls = 3
INVARIANTS
    QueueExclusive
    NothingFreedInUse
PROPERTIES
    KeepsContract
    CallsReturn
CHECK_DEADLOCK FALSE
