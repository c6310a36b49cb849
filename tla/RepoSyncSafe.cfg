CONSTANTS
    Agents = {a1}
    Runs <- ThreeRuns
    Broken = {}
    PerPage = 2
    MaxRunsPerBatch = 2
    MaxMutexRetries = 1
    Second = 1
    Backfill = 1
    ServerWindow = 2
    SlowAnswer = "server_error"
    Faults <- HalvingFaults
    Bursts = FALSE
    LiveUpdates = TRUE
    StartClock = 6
    MaxClock = 7
SPECIFICATION EitherSpec
INVARIANTS TypeOK CoveredPrefix CompletePrefix
