CONSTANTS
    C1 = C1
    C2 = C2
    d1 = d1
    d2 = d2
    p1 = p1
    p2 = p2
    Clusters = {C1, C2}
    Self = Self
    Absent = Absent
    User = User
    Drivers = {d1}
    PGIDs = {p1, p2}
    Bases <- MCBases
    PolicyValues <- MCPolicyValues
    UserRGs <- OneUserRG
    OptionalRGs <- NoRGs
    NameSpace <- MCNameSpace
SPECIFICATION FairSpec
CHECK_DEADLOCK FALSE
PROPERTIES
    SyncCompletes
    SyncedDeletionCompletes
