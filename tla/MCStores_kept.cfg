SPECIFICATION StoresSpec
VIEW StoresView
SYMMETRY Interchangeable
CONSTANTS
    Calls = {c1, c2}
    Layouts = {l1, l2, l3}
    MaxIndexed = 2
    Nothing = Nothing
    Accounts = {a1, a2}
    Ttl = 1
    MaxTime = 1
    MaxCalls = 2
    MaxToggles = 2
    MaxEvents = 1
    Ops = {o1, o2}
    Queries = {q1}
    Profiled = {q1}
    NoScope = NoScope
    MaxRestarts = 1
INVARIANTS
    TypeOK
    OldOnlyFromDisk
    NotModifiedMeansCurrent
    IndexNamesFiles
    ForeignIsLateOrFromDisk
    KeptIsFound
    KeepsItsWord
CHECK_DEADLOCK FALSE
