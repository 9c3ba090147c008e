SPECIFICATION WinRmFairSpec
CONSTANTS
    Hosts <- MCHosts
    Disabled = {"hardware", "sound"}
    MaxFailed = 2
INVARIANTS SectionsWhole CommandsForgotten
PROPERTY SessionEnds
