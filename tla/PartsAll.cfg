SPECIFICATION PartsSpec
CONSTANTS
    LateFrames = 3
    EarlyFrames = 2
    Steps = 3
    FloorMs = 16
    FrameTimes = {8, 15, 20}
    Delays = {2, 10, 40}
    Ahead = 2
    Slots = 2
    Top = 3
    Few = 2
    Transient = FALSE
    MaxFrames = 5
    Modes = {"fifo", "relaxed", "mailbox", "immediate"}
    MaxChain = 3
    Strange = TRUE
    Room = 2
    MaxModes = 3
    Families = {1, 2}
    Compute = {1, 2}
    Graphics = {1}
    Count <- MCCount
    Creators = {a1, a2}
    Background = bg
    Serialised = TRUE
    MaxSets = 4
    Devices = {d1, d2, d3}
    Keys = {k1, k2}
    Nobody = nobody
    Images = 2
    MaxImages = 16
    PresentFamilies = {1, 2, 3}
    Capable = {1, 2}
INVARIANTS
    MadeOfHistory
    LayoutsAsRecorded
    ReadsItsOwn
    ChainCarried
    
    RemembersDevice
    NeverInTheWay
    GivenWhole
    NothingCompiledOutlives
    FindsOwn
    GeneratesWhole
    NothingLeft
PROPERTIES
    StepsAreSpaced
    StreaksRestart
    ThinnedEvenly
    Recovers
    ThinsOut
CHECK_DEADLOCK FALSE
