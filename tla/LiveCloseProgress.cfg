SPECIFICATION FairSpec
CONSTANTS
    Procs = {p1}
    Operators = {tool}
    Sessions = {p1, tool}
    Ops = {o1, o2}
    Fixes = {"delete", "adjust"}
    Elsewhere = elsewhere
    Transactions = {o1, o2, elsewhere}
    Trades = {t1}
    NoOp = NoOp
    NoSession = NoSession
    NoView = NoView
    Units = 2
    MaxGen = 1
    MaxEpoch = 2
PROPERTIES
    CloseAttemptEnds
    ConfirmedCloseIsDeleted
CHECK_DEADLOCK FALSE
