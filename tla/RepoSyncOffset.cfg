CONSTANTS
    Agents = {a1}
    Runs <- ThreeRuns
    Broken = {}
    PerPage = 2
    MaxRunsPerBatch = 2
    MaxMutexRetries = 1
    Second = 1
    Backfill = 1
    ServerWindow = 2
    SlowAnswer = "server_error"
    Faults <- NoFaults
    Bursts = TRUE
    LiveUpdates = TRUE
    StartClock = 2
    MaxClock = 3
SPECIFICATION Spec
INVARIANT CoveredPrefix
