CONSTANTS
    deb = deb
    rpm = rpm
    gone = gone
    Section = {"softwares", "networks"}
    Value = {"whole", "cut", "bare"}
    Digest = {"whole", "cut", "bare"}
    Checksum <- MCChecksum
    Missing = gone
    MaxPostpone = 1
    NumTargets = 3
    Workers = 2
    Host = {deb, rpm}
    HostOf <- MCHostOf
    Installed <- MCInstalled
    Transports = {"russh", "cli"}
    Perl <- MCPerl
    Strict = FALSE
    Reinstalled = {rpm}
    Device <- MCDevice
    Assetname <- MCAssetname
    FqdnName <- MCFqdnName
    HostName <- MCHostName
    UrlHost <- MCUrlHost
    Nameless = ""
    File <- MCDevice
    FileOf <- MCFileOf
    MaxFaults = 2
SPECIFICATION FairSpec
INVARIANTS StateMatchesServer
PROPERTIES RunAccounts RemoteRunEnds Heals
