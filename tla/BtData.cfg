SPECIFICATION PartsSpec
CONSTANTS
    Parts = {"storage", "failing", "verify", "peers", "utp", "closing"}
    N = 3
    a = a
    b = b
    File = {a, b}
    Segs <- TwoFiles
    PieceLen <- ShortFirst
    Limit = 2
    Slack = 1
    Sparse = FALSE
    Peer = {w1, w2}
    Slot = {s1}
    Op = {"pause", "crash"}
    Addr = {p1}
    Sess = {x1, x2}
    NoSess = NoSess
SYMMETRY Symmetry
INVARIANTS DoneOnDisk ClaimOnDisk ProgressNotAhead Completed CacheSound
INVARIANTS VerifyExact SessionsListed StreamKept
PROPERTY KeepsContract
CHECK_DEADLOCK FALSE
