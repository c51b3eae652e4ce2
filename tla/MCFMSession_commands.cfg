CONSTANTS
    Requests = {r1}
    Connects = {c1}
    Disconnects = {d1}
    Passwords = {w1}
    None = None
    MaxAge = 1
    Lead = 1
    FirstWait = 0
    MaxWait = 0
    ConnectAttempts = 2
    Budget <- Restart
SPECIFICATION Spec
VIEW LockoutView
INVARIANTS
    OneAutomaticSignIn
    NobodyWaitsForNothing
