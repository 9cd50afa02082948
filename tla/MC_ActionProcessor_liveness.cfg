CONSTANTS
    v1 = v1
    v2 = v2
    Vols <- MCOneVol
    Namespaces <- MCNamespaces
    PVCOf <- MCPVCOf
    None = None
    NoAction = NoAction
    Absent = Absent
    NoPayload = NoPayload
    Malformed = Malformed
    SnapshotClassAnn = "gold"
    DefaultClass = "default"
    InitClasses = {"gold"}
    CreatePVCAnn = "true"
    StorageClassAnn = "sc"
    ReplicationSC = TRUE
    RemoteFaults = TRUE
    MaxInterrupts = 1
    MaxActions = 2
    MaxTime = 2
    StartTime = 1
    InitialStamp = 0
SPECIFICATION FairSpec
PROPERTIES
    ActionEventuallyStamped
    NoRedispatch
CHECK_DEADLOCK FALSE
