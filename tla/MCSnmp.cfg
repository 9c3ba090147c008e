CONSTANTS
    GlpiMajor = 12
    StatusIds <- MCStatusIds
    Tags <- MCTags
    SysObjectIds <- MCSysObjectIds
    NumCredentials = 4
    credentials <- MCCredentials
    Accepted = {3, 4}
    Contents <- MCContents
    Looping = {"prtMarkerSupplies", "cdpCache"}
    Retries = 1
    MaxFaults = 1
SPECIFICATION FairSpec
INVARIANTS CompleteOrNothing AnswersFound
PROPERTIES NeverClobbered InventoryEnds
