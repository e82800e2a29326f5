SPECIFICATION FairSpec
CONSTANTS
    File = {f, g, h}
    Caller = {c1, c2}
    MaxSize = 2
    MaxSaves = 3
    MaxWalks = 3
INVARIANTS TypeOK CacheBounded
PROPERTIES OnlyRacedHitsAreOld EveryCallReturns
CHECK_DEADLOCK FALSE
