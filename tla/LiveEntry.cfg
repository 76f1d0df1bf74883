SPECIFICATION Spec
CONSTANTS
    Procs = {p1, p2}
    Owners = {p1, p2}
    Entries = {e1, e2}
    Clients = {c1, c2}
    NoEntry = NoEntry
    NoProc = NoProc
    NoId = NoId
    NoView = NoView
    Missing = Missing
    Requested = 2
    MaxEpoch = 2
SYMMETRY Symmetry
INVARIANTS
    TypeOK
    OneOrderPerClientId
    OrderNeverForgotten
    FinalisedIsManaged
    ManagedIsOpened
    CapturedIsAccounted
PROPERTIES
    SlotNeverTaken
    RelabelledByRecoveryOnly
    ImplementsEntryGuard
CHECK_DEADLOCK FALSE
