SPECIFICATION CompileSpec
CONSTANTS
    Creators = {a1, a2}
    Background = bg
    Serialised = FALSE
    MaxSets = 4
INVARIANTS
    GivenWhole
CHECK_DEADLOCK FALSE
