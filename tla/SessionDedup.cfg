SPECIFICATION FairSpec
CONSTANTS
    NoFile = NoFile
    Path = {p}
    Mount <- SamePath
    Agent = {main, sub}
    Main = main
    Readers = {main}
    File = {f}
    Hour = 2
    MaxTime = 3
    MaxSaves = 2
INVARIANTS TypeOK RegistryMatchesSessions
PROPERTIES DedupedWasTried UnchangedBuiltOncePerHour ExpiredSessionsCollected
CHECK_DEADLOCK FALSE
