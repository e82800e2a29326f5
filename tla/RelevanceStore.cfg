SPECIFICATION Spec
CONSTANTS
    Path = {p}
    Mount <- SamePath
    File = {f, g}
    Thread = {t1, t2}
    MaxFeedback = 3
    MaxRankings = 1
    MaxRestarts = 1
INVARIANTS TypeOK 
PROPERTY CounterSpec
SYMMETRY AnyThread
CHECK_DEADLOCK FALSE
