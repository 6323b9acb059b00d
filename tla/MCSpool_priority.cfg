SPECIFICATION Spec
CONSTANTS
    Event = {e1, e2, e3}
    None = None
    Blank = Blank
    Garbage = Garbage
    Priority = {0, 1, 2}
    MaxRecords = 3
    ReservedCritical = 2
    ReservedEmergency = 1
    RetryBits = 1
    SeqMod = 16
    InitSeq = 0
    MaxFaults = 0
    MaxCrashes = 1
SYMMETRY Symmetry
INVARIANT ReserveHeld
