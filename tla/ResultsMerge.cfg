SPECIFICATION ResultsSpec
CONSTANTS
    ImageCount = 2
    MaxJobs = 1
    Async = TRUE
    Pacing = FALSE
    Paths = {"threaded", "inline"}
    Results = {"ok", "suboptimal", "error"}
    ThreadsMayFail = FALSE
    MaxFrames = 3
    MaxFailures = 1
INVARIANTS
    DeferredIsWorst
