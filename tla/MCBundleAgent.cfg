CONSTANTS
    NumMsgs = 2
    MaxRestarts = 2
    JournalMayFail = FALSE
    HealthCheck = {}
    BundleSize = 1
    QueueCapacity = 2
    Worker = {w1}
    Dispatcher = disp
    WorkQueueCapacity = 1
    MaxRetries = 0
    MaxPublished = 5
    outputCount <- MCOutputCount
CHECK_DEADLOCK FALSE
SPECIFICATION FairSpec
INVARIANTS NeverTwice ItemsInOrder DoneIsPublished RepeatsOnlyAfterRestart
PROPERTIES ReadyIsAnswered StartupEnds
