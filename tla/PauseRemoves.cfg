SPECIFICATION Spec
CONSTANTS
    Gid = {g1}
    NoGid = NoGid
    Caller = {c1, c2}
    Worker = {w1, w2}
    Op = {"add", "pause", "unpause"}
    Limits = {1}
    InitLimit = 1
    MaxResults = 1
    Bt = {}
    Ask = {}
    Single = {}
CHECK_DEADLOCK FALSE
PROPERTY OnlyRemoveRemoves
