SPECIFICATION Spec
CONSTANTS
    Procs = {p1, p2}
    Operators = {}
    Sessions = {p1, p2}
    Ops = {o1, o2}
    Fixes = {"delete", "adjust"}
    Elsewhere = elsewhere
    Transactions = {o1, o2, elsewhere}
    Trades = {t1, t2}
    NoOp = NoOp
    NoSession = NoSession
    NoView = NoView
    Units = 2
    MaxGen = 1
    MaxEpoch = 2
SYMMETRY Symmetry
INVARIANTS
    OneRequestOpen
    MarkNeverCollides
PROPERTIES
    FinalisedInCharge
    PopAfterClose
CHECK_DEADLOCK FALSE
