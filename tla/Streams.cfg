SPECIFICATION StreamsSpec
CONSTANTS
    NoCtrl = NoCtrl
    Chan = {c1, c2}
INVARIANTS  RecordedInOrder OnlyLostSkipped TimelineClosed SftpWhole
PROPERTIES PauseKeeps StreamsEnd
CHECK_DEADLOCK FALSE
