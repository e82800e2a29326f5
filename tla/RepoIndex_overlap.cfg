SPECIFICATION Spec
CONSTANTS
    File = {a, b}
    Text <- AnyText
    Thread = {t1, t2}
    MaxClock = 3
    MaxRestarts = 0
INVARIANT GilIsSufficient
CHECK_DEADLOCK FALSE
