CONSTANTS
    Requests = {r1}
    Connects = {}
    Disconnects = {d1}
    Passwords = {w1}
    None = None
    MaxAge = 1
    Lead = 1
    FirstWait = 1
    MaxWait = 2
    ConnectAttempts = 2
    Budget <- Quiet
SPECIFICATION Spec
INVARIANTS
    LogoutUsesItsOwnToken
