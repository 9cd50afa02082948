CONSTANTS
    v1 = v1
    v2 = v2
    Vols <- MCVols
    Namespaces <- MCNamespaces
    PVCOf <- MCPVCOf
    None = None
    NoAction = NoAction
    Absent = Absent
    NoPayload = NoPayload
    Malformed = Malformed
    SnapshotClassAnn = ""
    DefaultClass = "default"
    InitClasses = {"default"}
    CreatePVCAnn = "true"
    StorageClassAnn = "sc"
    ReplicationSC = FALSE
    RemoteFaults = TRUE
    MaxInterrupts = 0
    MaxActions = 2
    MaxTime = 3
    StartTime = 1
    InitialStamp = 0
SPECIFICATION Spec
INVARIANTS
    TypeOK
    NoRestoreOverLiveClaim
PROPERTIES
    LedgerRefinement
CHECK_DEADLOCK FALSE
