CONSTANTS
    NumMsgs = 2
    MaxRestarts = 1
    JournalMayFail = FALSE
    HealthCheck = {}
    BundleSize = 1
    QueueCapacity = 1
    Worker = {w1}
    Dispatcher = disp
    WorkQueueCapacity = 1
    MaxRetries = 1
    MaxPublished = 5
    outputCount <- MCOutputCount
CHECK_DEADLOCK FALSE
SPECIFICATION FairSpec
PROPERTIES StartupEnds
