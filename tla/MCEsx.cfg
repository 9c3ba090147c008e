SPECIFICATION FairSpec
CONSTANTS
    Hypervisor <- MCHypervisor
    Vm <- MCVm
    Identities <- MCIdentities
    Device <- MCDevice
    NumServers = 2
    GlpiVersion <- MCVersion
    Modes = {"live", "dump", "replay"}
    None = None
    Torn = Torn
    MaxFaults = 1
    MaxMoves = 1
INVARIANTS CompletedIsComplete SessionsClosed
PROPERTY HostsConverge
