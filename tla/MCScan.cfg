CONSTANTS
    Width = 2
    OctetWidth = 1
    Arguments <- MCArguments
    Networks <- MCNetworks
    Permits = 2
    NumCredentials = 3
    credentials <- MCCredentials
    Timeout = 1
    MaxFaults = 2
SPECIFICATION Spec
INVARIANTS ScanFaithful
