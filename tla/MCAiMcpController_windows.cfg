SPECIFICATION Spec
CONSTANTS
    Windows = {w1, w2}
    Slots = {s1}
    None = None
    MaxEpoch = 2
    MaxChanges = 2
INVARIANTS
    TypeOK
    NoServerLeaked
    SettingOffEndsAlone
    RunsByInvitation
CHECK_DEADLOCK FALSE
SYMMETRY WindowSymmetry
