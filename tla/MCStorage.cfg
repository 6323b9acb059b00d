SPECIFICATION Spec
CONSTANTS
    c1 = c1
    c2 = c2
    written = written
    k1 = k1
    k2 = k2
    n1 = n1
    n2 = n2
    n3 = n3
    Erased = Erased
    NoHeader = NoHeader
    Torn = Torn
    NoImage = NoImage
    NoKey = NoKey
    NoNonce = NoNonce
    NoCall = NoCall
    None = None
INVARIANTS
    TypeOK
    
PROPERTIES
    AtomicImage
    NonceChanges
    ProgramIsExact
