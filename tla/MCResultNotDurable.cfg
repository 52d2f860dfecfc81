CONSTANTS
    Thread = {t1, t2}
    a = a
    b = b
    s1 = s1
    s2 = s2
    Record <- MCRecord
    Id = {a}
    Result = {res}
    NoResult = noresult
    Stripe = {s1, s2}
    stripeOf <- MCOneId
    NoOp = noop
    Nobody = nobody
    BatchMax = 2
    MaxRecords = 3
SYMMETRY Symmetry
SPECIFICATION StoreSpec
INVARIANTS ResultIsDurable
