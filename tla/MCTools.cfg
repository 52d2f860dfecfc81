CONSTANTS
    NumQueues = 1
    GwQueue = 1
    TestCount = 2
    Capacity = 1
    Char <- MCChar
    Fields <- MCFields
    Given <- MCGiven
    Sender = {s1, s2}
    NumMsgs = 2
    Kinds <- MCKinds
    MaxFaults = 2
SPECIFICATION Spec
INVARIANTS FullCostsNoMessage RatesNeverOvercount FilledFieldHasItsLength
INVARIANTS NothingLostBeforeRecovery RepeatsArePaidByFaults ReceivedIsNeverLost
PROPERTIES KeysAreHandled FailureErasesOnlyOverlong
CHECK_DEADLOCK FALSE
