SPECIFICATION JournalSpec
CONSTANTS
    Ops = {o1, o2, o3}
    Trades = {t1}
    Sessions = {s1, s2}
    Transactions = {fill}
    NoOp = NoOp
    NoSession = NoSession
SYMMETRY Symmetry
INVARIANTS
    JournalTypeOK
    ClaimHasIntent
PROPERTIES
    ImplementsGuard
