SPECIFICATION Spec
CONSTANTS
    Event = {e1, e2}
    None = None
    Blank = Blank
    Garbage = Garbage
    Priority = {2}
    MaxRecords = 2
    ReservedCritical = 0
    ReservedEmergency = 0
    RetryBits = 0
    SeqMod = 16
    InitSeq = 0
    MaxFaults = 2
    MaxCrashes = 2
SYMMETRY Symmetry
INVARIANTS
    TypeOK
    NoAcceptedLoss
    ReleasedNeverResent
    CommittedIsComplete
