CONSTANTS
    Thread = {t1, t2}
    Record = {r1, r2}
    Nobody = nobody
    BatchMax = 2
    MaxRecords = 4
SPECIFICATION FairSpec
INVARIANTS TypeOK AckedIsForced WaiterHasOneRequest GoneWriterLeavesNothing
PROPERTIES AppendsOnRecordBoundary ImplementsLog CallsReturn CloseEnds
