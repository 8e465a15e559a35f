SPECIFICATION Spec
CONSTANTS
    Gid = {g1}
    NoGid = NoGid
    Caller = {c1, c2}
    Worker = {w1, w2}
    Op = {"add", "pause", "unpause", "remove", "removeResult", "purge", "autosave"}
    Limits = {1}
    InitLimit = 1
    MaxResults = 1
    Bt = {}
    Ask = {}
    Single = {}
SYMMETRY Symmetry
CHECK_DEADLOCK FALSE
INVARIANTS ActiveHasWorker NoLostKick SessionCurrent
