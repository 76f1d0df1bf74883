SPECIFICATION Spec
CONSTANTS
    Procs = {p1}
    Operators = {}
    Sessions = {p1}
    Ops = {o1}
    Fixes = {"delete", "adjust"}
    Elsewhere = elsewhere
    Transactions = {o1, elsewhere}
    Trades = {t1, t2}
    NoOp = NoOp
    NoSession = NoSession
    NoView = NoView
    Units = 1
    MaxGen = 1
    MaxEpoch = 1
INVARIANTS
    ClearedAfterPop
CHECK_DEADLOCK FALSE
