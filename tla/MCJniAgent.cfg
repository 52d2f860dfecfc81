CONSTANTS
    NumMsgs = 4
    kind <- MCKind
    MaxRestarts = 3
SPECIFICATION FairSpec
INVARIANTS CommittedIsAnswered RepeatsArePaidByRestarts
PROPERTIES InputIsDrained
CHECK_DEADLOCK FALSE
