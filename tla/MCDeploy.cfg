CONSTANTS
    p = p
    q = q
    junk = junk
    Dir = Dir
    HalfWritten = HalfWritten
    Orders <- MCOrders
    Disks <- MCDisks
    Served <- MCServed
    Intrusions <- MCIntrusions
    MaxIntrusions = 2
SPECIFICATION DeploySpec
INVARIANTS ActionsOnVerified ReportAccounts
