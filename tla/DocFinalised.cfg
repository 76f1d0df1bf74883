SPECIFICATION Spec
CONSTANTS
    Procs = {p1, p2}
    Owners = {p1, p2}
    Entries = {e1}
    Clients = {c1}
    NoEntry = NoEntry
    NoProc = NoProc
    NoId = NoId
    NoView = NoView
    Missing = Missing
    Requested = 2
    MaxEpoch = 2
INVARIANTS
    RecoverKeepsFinalised
CHECK_DEADLOCK FALSE
