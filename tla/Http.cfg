SPECIFICATION PartsSpec
CONSTANTS
    Total = 3
    Conn = {c1, c2}
    Splits = 2
    MinSplit = 1
    HandoffMin = 1
    WholeMax = 1
    MaxSegs = 4
    MaxJobs = 1
    MaxFail = 2
    MaxShort = 2
    MaxTry = 2
    MaxStall = 2
    NoCtrl = NoCtrl
    Troubles <- MCTroubles
    Value = {v0, v1}
    Default = v0
    NoSig = NoSig
    Caller = {k1, k2}
    Builder = {b1, b2}
    Driver = {d1}
    MaxPush = 3
    MayPanic = TRUE
INVARIANTS NoRangeLost DiskTrue BusyHasBuilder 
PROPERTY HttpEnds
CHECK_DEADLOCK FALSE
