CONSTANTS
    cpus = cpus
    softwares = softwares
    v1 = v1
    v2 = v2
    d1 = d1
    d2 = d2
    gone = gone
    Section = {cpus, softwares}
    Value = {v1, v2}
    Digest = {d1, d2}
    Missing = gone
    Checksum <- MCChecksum
    Contents <- MCContents
    NumServers = 3
    InitialServers = 2
    MaxPostpone = 1
    Pruning = TRUE
SPECIFICATION FairSpec
INVARIANTS StateMatchesServers PartialHasBaseline
PROPERTIES FullRunRepairs TornStopsDevice Converges
