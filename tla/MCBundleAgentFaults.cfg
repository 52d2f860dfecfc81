CONSTANTS
    NumMsgs = 3
    MaxRestarts = 1
    JournalMayFail = TRUE
    HealthCheck <- MCThird
    BundleSize = 2
    QueueCapacity = 2
    Worker = {w1}
    Dispatcher = disp
    WorkQueueCapacity = 1
    MaxRetries = 1
    MaxPublished = 3
    outputCount <- MCOutputCount
CHECK_DEADLOCK FALSE
SPECIFICATION Spec
INVARIANTS NothingForgotten PublishedResultIsKept
PROPERTIES CommitNeedsRecord
