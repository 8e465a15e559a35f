SPECIFICATION SubsSpec
CONSTANTS
    Url = {u1}
    Sub = {s1}
    NoSub = NoSub
    Manual = Manual
    Handler = {c1, c2}
    Refresher = Refresher
    Asked = {"add", "remove", "addSub", "removeSub", "toggle", "refresh", "refreshAll", "replace", "autosave", "crash", "taskAdd", "engine", "hour"}
    Legacy = {}
    MaxPending = 1
SYMMETRY Symmetry
INVARIANT SourcesListed NoLostSubKick TrackersSaved
PROPERTY ManualKept
CHECK_DEADLOCK FALSE
CONSTRAINT Calm
