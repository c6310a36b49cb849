CONSTANTS
    Agents = {a1, a2}
    Runs <- TwoRuns
    Broken = {}
    PerPage = 2
    MaxRunsPerBatch = 2
    MaxMutexRetries = 1
    Second = 1
    Backfill = 1
    ServerWindow = 1
    SlowAnswer = "timeout"
    Faults <- ProcessFaults
    Bursts = FALSE
    LiveUpdates = TRUE
    StartClock = 3
    MaxClock = 4
SPECIFICATION Spec
PROPERTY GapFreeSync
