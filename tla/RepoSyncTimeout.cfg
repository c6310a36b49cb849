CONSTANTS
    Agents = {a1}
    Runs <- ThreeRuns
    Broken = {3}
    PerPage = 2
    MaxRunsPerBatch = 2
    MaxMutexRetries = 1
    Second = 1
    Backfill = 2
    ServerWindow = 1
    SlowAnswer = "timeout"
    Faults <- NoFaults
    Bursts = TRUE
    LiveUpdates = FALSE
    StartClock = 3
    MaxClock = 4
SPECIFICATION FairSpec
PROPERTY DueIsServed
