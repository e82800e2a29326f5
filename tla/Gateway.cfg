SPECIFICATION Spec
CONSTANTS
    a = a
    b = b
    p = p
    q = q
    NoRepo = NoRepo
    NoFile = NoFile
    Repo = {p, q}
    File = {a, b}
    Scanned = {a}
    Thread = {t1, t2}
    MaxIndexes = 1
    Edited <- FilesOfP
    Asked <- AskedOfBoth
    MaxSaves = 2
    MaxRequests = 3
    MaxRestarts = 1
SYMMETRY AnyThread
INVARIANTS TypeOK RankedFresh NoSaveLost RowsKeepUp
CHECK_DEADLOCK FALSE
