CONSTANTS
    Small = {small1, small2}
    Huge = {huge}
    Capacity = 2
SPECIFICATION FairSpec
INVARIANTS FrameAligned WaitedWorkerIsDone
PROPERTIES TaskRunSpec RunEnds
