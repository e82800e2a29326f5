SPECIFICATION Spec
CONSTANTS
    a = a
    b = b
    p = p
    q = q
    NoRepo = NoRepo
    NoFile = NoFile
    Repo = {p}
    File = {a, b}
    Scanned = {a, b}
    Thread = {t1}
    MaxIndexes = 1
    Edited <- FilesOfP
    Asked <- AskedOfP
    MaxSaves = 2
    MaxRequests = 2
    MaxRestarts = 1
INVARIANT Bm25KicksIn
CHECK_DEADLOCK FALSE
