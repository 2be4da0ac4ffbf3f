SPECIFICATION RecordingSpec
CONSTANTS
    Slots = 2
    Top = 3
    Few = 2
    Transient = TRUE
    MaxFrames = 4
INVARIANTS
    MadeOfHistory
CHECK_DEADLOCK FALSE
