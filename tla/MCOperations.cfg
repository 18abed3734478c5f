SPECIFICATION UpdatesSpec
CONSTANTS
    query = query
    load = load
    mcp = mcp
    base = base
    derived = derived
    other = other
    None = None
    Ops <- AllOps
    Named <- NamedOps
    Captures <- CapturingOps
    Publishes <- PublishingOps
    Keys <- AllKeys
    Parts <- KeyParts
    SourceOf <- KeySource
    Schedules <- SchedulingOps
    Prepares <- PreparingOps
    MaxPending = 1
    MaxGenerations = 2
    MaxRevision = 2
    MaxDownloads = 2
    MaxCloses = 2
CONSTRAINT FewActors
INVARIANTS UpdatesTypeOK UpdateQuiet RunningCounted AnswerTrue CancelExact InstallQuiet ClaimsExact ActiveAlive DownloadOwned DialogueSettles
PROPERTIES FailureReal
CHECK_DEADLOCK FALSE
