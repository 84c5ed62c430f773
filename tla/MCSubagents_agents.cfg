SPECIFICATION FairSpec
CONSTANTS
    a1 = a1
    a2 = a2
    a3 = a3
    Agents = {a1, a2, a3}
    Root = root
    NoThread = NoThread
    MaxTurns = 2
    MaxGeneration = 2
    MaxAttempts = 2
    MaxRetainedTurns = 2
    Scenarios <- MCScenarios
    AnswersInTime = TRUE
    MaxDeferredThreads = 2
    MaxEventsPerThread = 2
    MaxBytesPerThread = 8
    MaxBytesTotal = 8
INVARIANTS RetentionIsSound RegistryAgrees
PROPERTIES HistoryStands InterruptResolves
CHECK_DEADLOCK FALSE
