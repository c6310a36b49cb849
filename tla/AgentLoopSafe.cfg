CONSTANTS
    Repos <- TwoRepos
    Jobs <- TwoJobs
    RepoOf <- OneEach
    MaxReported = 1
    MaxLogsPerRequest = 1
    MaxLogRequests = 2
    Trouble <- FirstFails
    Unreadable = {}
    Unstorable = {2}
    Once = FALSE
    Faults <- AllFaults
SPECIFICATION FairSpec
INVARIANTS TypeOK StopperEndsCycle OneOutcomePerRepo WantsOwed
PROPERTY CycleEnds
