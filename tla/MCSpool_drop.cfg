SPECIFICATION Spec
CONSTANTS
    Event = {e1, e2, e3}
    None = None
    Blank = Blank
    Garbage = Garbage
    Priority = {2, 4}
    MaxRecords = 2
    ReservedCritical = 0
    ReservedEmergency = 0
    RetryBits = 0
    SeqMod = 16
    InitSeq = 0
    MaxFaults = 0
    MaxCrashes = 0
SYMMETRY Symmetry
PROPERTY DropsHealthyFirst
