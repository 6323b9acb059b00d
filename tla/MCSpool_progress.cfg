SPECIFICATION FairSpec
CONSTANTS
    Event = {e1, e2}
    None = None
    Blank = Blank
    Garbage = Garbage
    Priority = {2}
    MaxRecords = 2
    ReservedCritical = 0
    ReservedEmergency = 0
    RetryBits = 1
    SeqMod = 16
    InitSeq = 0
    MaxFaults = 1
    MaxCrashes = 1
PROPERTIES
    ImplementsOutbox
    AcceptedIsDelivered
    RoomReturns
