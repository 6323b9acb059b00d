SPECIFICATION Spec
CONSTANTS
    t1 = t1
    t2 = t2
    t3 = t3
    e1 = e1
    e2 = e2
    e3 = e3
    b1 = b1
    NoBackend = NoBackend
    NoEvent = NoEvent
    Absent = Absent
INVARIANTS
    TypeOK
    
    SendsDoNotMix
    ReceivedIsExact
    ReplayWindowExact
PROPERTIES
    
    EverythingArrives
CHECK_DEADLOCK FALSE
