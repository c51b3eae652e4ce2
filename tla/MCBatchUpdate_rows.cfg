SPECIFICATION FairSpec
CONSTANTS
    a = a
    b = b
    Records = {a, b}
    RowCount = 3
    Batches <- Triples
    MaxAttempts = 2
    FailureThreshold = 2
    OpenTime = 1
    HalfOpenThreshold = 1
    InitialLimit = 1
    MaxLimit = 2
    GrowEvery = 1
INVARIANT TypeOK
PROPERTIES
    KeepsTheLedger
    NoAttemptAfterCancel
    JobEnds
CHECK_DEADLOCK FALSE
