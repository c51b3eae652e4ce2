SPECIFICATION FairSpec
CONSTANTS
    Jobs = {j1, j2}
    RecentLimit = 1
    MaxFound = 4
    MaxRecords = 3
    PageSize = 2
    SampleSize = 3
INVARIANTS
    TypeOK
    TargetWhole
    VerdictTrue
    TempsLeftByRefusalOnly
    CancelledWithoutFile
PROPERTIES
    NoRequestAfterCancel
    ExportEnds
CHECK_DEADLOCK FALSE
