SPECIFICATION FairSpec
CONSTANTS
    Records = {r1, r2}
    None = None
    MaxVersion = 2
    MaxErrors = 1
INVARIANTS
    TypeOK
    NoLostUpdateWhileWaiting
    PageAndHostAgree
PROPERTIES
    EveryRequestEnds
CHECK_DEADLOCK FALSE
