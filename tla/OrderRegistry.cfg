SPECIFICATION Spec
CONSTANTS
    Procs = {p1, p2}
    Symbols = {eur}
    Clients = {c1, c2, c3}
    NoClient = NoClient
    NoSymbol = NoSymbol
SYMMETRY Symmetry
INVARIANTS TypeOK ExposureIsDurable KnownExposureIsHeld
PROPERTY ImplementsGuard
