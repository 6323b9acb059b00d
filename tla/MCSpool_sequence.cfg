SPECIFICATION Spec
CONSTANTS
    Event = {e1, e2, e3}
    None = None
    Blank = Blank
    Garbage = Garbage
    Priority = {2}
    MaxRecords = 2
    ReservedCritical = 0
    ReservedEmergency = 0
    RetryBits = 0
    SeqMod = 16
    InitSeq = 3
    MaxFaults = 1
    MaxCrashes = 2
SYMMETRY Symmetry
INVARIANTS
    DrainedInCaptureOrder
    DeliveredSequencesDistinct
