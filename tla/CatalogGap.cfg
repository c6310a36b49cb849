CONSTANTS
    HelloWindows = {0}
    PushWindows = {0}
    GitLabHeaders <- Headers
    PollIntervals = {10}
    InlinePauses = {0}
    RequestTimes = {0}
    MaxRequests = 1
    Pipelines = {1, 2}
    MaxTime = 3
    MaxEvents = 3
    MaxListed = 6
    PageSize = 2
    MaxEntries = 4
    MaxEdits = 2
    MaxChars = 2
    Chunk = 5
    MaxTrace = 14
SPECIFICATION Spec
INVARIANT CatalogComplete
CHECK_DEADLOCK FALSE
