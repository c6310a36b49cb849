CONSTANTS
    Repos <- TwoRepos
    Jobs <- ThreeJobs
    RepoOf <- Interleaved
    MaxReported = 2
    MaxLogsPerRequest = 1
    MaxLogRequests = 1
    Trouble <- NoTrouble
    Unreadable = {1}
    Unstorable = {}
    Once = FALSE
    Faults = {}
SPECIFICATION FairSpec
PROPERTY LogsDrained
