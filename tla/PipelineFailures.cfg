SPECIFICATION FairSpec
CONSTANTS
    ImageCount = 2
    MaxJobs = 1
    Async = TRUE
    Pacing = TRUE
    Paths = {"threaded", "inline", "unfit"}
    Results = {"ok"}
    ThreadsMayFail = TRUE
    MaxFrames = 5
    MaxFailures = 3
INVARIANTS
    PresentsCanComplete
    FreedIsQuiet
    NoLostWakeup
PROPERTIES
    WaitIdleReturnsIdle
    
    CallsReturn
    
