CONSTANTS
    NumMsgs = 5
    kind <- MCKind
    MaxFaults = 2
SPECIFICATION FairSpec
INVARIANTS AckBeforeResult RepeatsAreReplays NothingDropped
PROPERTIES MessagesAreAnswered ReportsArePublished StopEnds
CHECK_DEADLOCK FALSE
