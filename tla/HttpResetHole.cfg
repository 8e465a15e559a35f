SPECIFICATION HttpSpec
CONSTANTS
    Total = 4
    Conn = {c1, c2}
    Splits = 2
    MinSplit = 1
    HandoffMin = 1
    WholeMax = 1
    MaxSegs = 4
    MaxJobs = 1
    MaxFail = 2
    MaxShort = 2
    MaxTry = 2
    MaxStall = 2
    NoCtrl = NoCtrl
    Troubles = {{"io"}}
INVARIANT ResumesWhole
CHECK_DEADLOCK FALSE
