SPECIFICATION Spec
CONSTANTS
    f1 = f1
    f2 = f2
    d1 = d1
    d2 = d2
    Absent = Absent
INVARIANTS
    TypeOK
    
    
    
    CodecsRoundTrip
PROPERTIES
    
    ImplementsPlan
CHECK_DEADLOCK FALSE
