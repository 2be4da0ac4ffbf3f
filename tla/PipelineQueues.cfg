SPECIFICATION Spec
CONSTANTS
    ImageCount = 3
    MaxJobs = 3
    Async = TRUE
    Pacing = TRUE
    Paths = {"threaded", "inline"}
    Results = {"ok"}
    ThreadsMayFail = FALSE
    MaxFrames = 7
    MaxFailures = 2
INVARIANTS
    InFlightExact
    PacingFenceIsOwn
    SemAppBinary
    InlineRunsAlone
