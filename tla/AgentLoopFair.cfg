CONSTANTS
    Repos <- TwoRepos
    Jobs <- ThreeJobs
    RepoOf <- Interleaved
    MaxReported = 2
    MaxLogsPerRequest = 1
    MaxLogRequests = 1
    Trouble <- FirstFails
    Unreadable = {}
    Unstorable = {}
    Once = FALSE
    Faults = {"hello_lost", "log_lost"}
SPECIFICATION FairSpec
PROPERTIES DueServed LogsDrained OutcomesReported
