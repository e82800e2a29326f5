SPECIFICATION RepoSpec
CONSTANTS
    NoFile = NoFile
    Absent = Absent
    NoGit = NoGit
    File <- Paths
    Code <- CodePaths
    Part <- Strings
    TsExtensions <- Extension
    SkipDirs <- SkippedDirs
    NoSeedDirs <- NoSeedFrom
    Endings <- NameEndings
    MaxFiles = 5
    TopSymbols = 1
    FillerShare = 2
    Gap = 3
    PlainLines = 6
    StopWords = {"get"}
    Task = {"f", "get"}
    NameTokens = 6
    Starts <- AllStarts
    TokenBudget = 10
    Headers = {1}
    Diffs <- SomeDiffs
    Graphs <- Naturals0
    Sizes <- Naturals0
    Scores = {3, 30}
INVARIANTS WithinBudget RankOrder CarriedOnce ImportersFound DiffNamesSeeds SymbolsWhole InterestShown
PROPERTY Assembles
CHECK_DEADLOCK FALSE
