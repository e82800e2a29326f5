SPECIFICATION Spec
CONSTANTS
    File = {f, g}
    Caller = {c1, c2}
    MaxSize = 1
    MaxSaves = 2
    MaxWalks = 3
PROPERTY HitIsCurrent
CHECK_DEADLOCK FALSE
