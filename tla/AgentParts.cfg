CONSTANTS
    HelloWindows = {0, 3600}
    PushWindows = {0, 90}
    GitLabHeaders <- Headers
    PollIntervals = {10, 20}
    InlinePauses = {0, 30}
    RequestTimes = {0, 30, 150}
    MaxRequests = 2
    Pipelines = {1, 2}
    MaxTime = 3
    MaxEvents = 3
    MaxListed = 6
    PageSize = 2
    MaxEntries = 4
    MaxEdits = 2
    MaxChars = 2
    Chunk = 5
    MaxTrace = 14
SPECIFICATION Spec
INVARIANTS ProcTypeOK RetriesPaced ThrottleBounded ExitsOnlyWhenAsked HealthyWhileWorking BuildTypeOK StaleIsRelisted ListTypeOK QuietExact NothingMissed TailTypeOK TailExact
PROPERTIES HellosGoOn OutageShows SignalStops EventuallyCurrent
CHECK_DEADLOCK FALSE
