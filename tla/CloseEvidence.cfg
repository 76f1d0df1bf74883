SPECIFICATION Spec
CONSTANTS
    Trades = {t1, t2}
    Trade = t1
    MaxUnits = 2
    NoBody = NoBody
INVARIANTS
    VerdictMatchesBook
    FaultNeverConfirms
CHECK_DEADLOCK FALSE
