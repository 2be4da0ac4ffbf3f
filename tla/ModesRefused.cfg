SPECIFICATION ModesSpec
CONSTANTS
    Modes = {"fifo", "relaxed", "mailbox", "immediate"}
    MaxChain = 3
    Strange = TRUE
    Room = 3
    MaxModes = 3
INVARIANTS
    KeptAsAsked
