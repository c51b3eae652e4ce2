CONSTANTS
    Requests = {r1, r2}
    Connects = {}
    Disconnects = {}
    Passwords = {w1}
    None = None
    MaxAge = 1
    Lead = 1
    FirstWait = 1
    MaxWait = 2
    ConnectAttempts = 2
    Budget <- Traffic
SPECIFICATION Spec
VIEW OrphanView
SYMMETRY RequestSymmetry
INVARIANTS
    TypeOK
    NoOrphan
    RetireSparesStored
