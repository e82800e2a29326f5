SPECIFICATION Spec
CONSTANTS
    File = {a, b}
    Text <- AnyText
    Thread = {t1, t2}
    MaxClock = 2
    MaxRestarts = 1
INVARIANTS TypeOK CurrentLabelMeansCurrentIndex ReverseEdgesExact
PROPERTY LateLabelIsStale
SYMMETRY AnyThread
CHECK_DEADLOCK FALSE
