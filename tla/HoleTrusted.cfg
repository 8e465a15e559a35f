SPECIFICATION PartsSpec
CONSTANTS
    Parts = {"storage"}
    N = 3
    a = a
    b = b
    File = {a, b}
    Segs <- TwoFiles
    PieceLen <- Mixed
    Limit = 2
    Slack = 1
    Sparse = FALSE
    Peer = {w1}
    Slot = {}
    Op = {"pause", "crash", "trunc"}
    Addr = {p1}
    Sess = {x1, x2}
    NoSess = NoSess
INVARIANT DoneOnDisk
CHECK_DEADLOCK FALSE
