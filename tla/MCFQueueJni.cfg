CONSTANTS
    JavaThread = {t1, t2}
    Queue = {q1, q2}
    NoQueue = noqueue
    Slots = 2
    MaxSeq = 2
SPECIFICATION Spec
INVARIANTS PendingMeansLocked LockedHasOwner OnlyReuseTakesTokens
