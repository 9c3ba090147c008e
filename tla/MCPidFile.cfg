CONSTANTS
    Pid = {p1, p2, p3}
    NoFile = NoFile
    Empty = Empty
    Serialized = TRUE
SPECIFICATION PidFairSpec
INVARIANTS OneInstance HolderRecorded
PROPERTIES DropRemovesOwn RunsAgain
