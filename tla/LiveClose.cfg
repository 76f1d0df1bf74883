SPECIFICATION Spec
CONSTANTS
    Procs = {p1}
    Operators = {tool}
    Sessions = {p1, tool}
    Ops = {o1, o2, o3}
    Fixes = {"delete", "adjust"}
    Elsewhere = elsewhere
    Transactions = {o1, o2, o3, elsewhere}
    Trades = {t1}
    NoOp = NoOp
    NoSession = NoSession
    NoView = NoView
    Units = 2
    MaxGen = 2
    MaxEpoch = 2
SYMMETRY Symmetry
INVARIANTS
    TypeOK
    OutstandingBlocks
    ConfirmedIsClosed
    ExposureAccounted
CHECK_DEADLOCK FALSE
