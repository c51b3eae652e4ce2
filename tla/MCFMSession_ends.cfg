CONSTANTS
    Requests = {r1, r2}
    Connects = {}
    Disconnects = {}
    Passwords = {w1}
    None = None
    MaxAge = 1
    Lead = 0
    FirstWait = 1
    MaxWait = 2
    ConnectAttempts = 2
    Budget <- Spurious
SPECIFICATION FairSpec
PROPERTIES
    EverythingEnds
