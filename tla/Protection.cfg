SPECIFICATION Spec
CONSTANTS
    Procs = {p1}
    MaxPips = 3
    Trigger = 2
    Givebacks = {1, 3}
    Fallback = 2
    RetrySec = 2
    MaxTime = 4
    MaxEpoch = 3
    NoExit = NoExit
INVARIANTS TypeOK ManagedIsDurable
PROPERTIES DurableRatchetHolds ProtectiveClosesSpaced
CHECK_DEADLOCK FALSE
