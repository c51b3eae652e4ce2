SPECIFICATION Spec
CONSTANTS
    Records = {r1, r2}
    None = None
    MaxVersion = 2
    MaxErrors = 1
INVARIANT NoLostUpdate
CHECK_DEADLOCK FALSE
