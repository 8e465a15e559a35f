SPECIFICATION FairSpec
CONSTANTS
    Gid = {g1, g2}
    NoGid = NoGid
    Caller = {c1}
    Worker = {w1, w2}
    Op = {"add", "setLimit", "select", "stopSeeding"}
    Limits = {1, 2}
    InitLimit = 1
    MaxResults = 1
    Bt = {g1}
    Ask = {g1}
    Single = {g1}
CHECK_DEADLOCK FALSE
PROPERTIES SlotBound SlotsFill
INVARIANT ChosenBeforeDone
