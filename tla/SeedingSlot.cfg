SPECIFICATION Spec
CONSTANTS
    Gid = {g1, g2}
    NoGid = NoGid
    Caller = {c1}
    Worker = {w1, w2}
    Op = {"add"}
    Limits = {1}
    InitLimit = 1
    MaxResults = 1
    Bt = {g1}
    Ask = {}
    Single = {}
CHECK_DEADLOCK FALSE
INVARIANT SeedingFreesSlot
