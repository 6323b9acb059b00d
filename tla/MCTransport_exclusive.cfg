SPECIFICATION Spec
CONSTANTS
    Thread = {t1, t2}
    b1 = b1
    b2 = b2
    b3 = b3
    Backend = {b1, b2, b3}
    NoBackend = NoBackend
    Score <- MCScore
    FragmentCount <- MCFragmentCount
    RetryLimit <- MCRetryLimit
    MaxTransports = 2
INVARIANT OneSenderPerBackend
