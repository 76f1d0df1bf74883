SPECIFICATION FairSpec
CONSTANTS
    Nobody = Nobody
    RepairTool = RepairTool
    Procs = {p1, p2, p3}
    MaxEpoch = 4
INVARIANTS
    TypeOK
    AtMostOneAuthority
    OnlyOwnerWhileRunOpen
    RecoveryNeverOvertaken
PROPERTIES
    FencedStaysFenced
    ImplementsFence
    LockGivenUp
    StartupDecides
CHECK_DEADLOCK FALSE
