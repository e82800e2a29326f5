SPECIFICATION Spec
CONSTANTS
    NoFile = NoFile
    Path = {p}
    Mount <- SamePath
    Agent = {main, sub}
    Main = main
    Readers = {main}
    File = {f}
    Hour = 1
    MaxTime = 1
    MaxSaves = 1
PROPERTY DedupedIsInContext
CHECK_DEADLOCK FALSE
