SPECIFICATION Spec
CONSTANTS
    Torn = Torn
    k1 = k1
    k2 = k2
    NoKey = NoKey
    t1 = t1
    t2 = t2
    Absent = Absent
INVARIANTS
    TypeOK
    FailuresAccounted
    KeysFollowLifecycle
    EvidenceKept
    
    SignalsCaptured
PROPERTIES
    
    HandlingEnds
