SPECIFICATION FairSpec
CONSTANTS
    Thread = {t1, t2, t3}
    b1 = b1
    b2 = b2
    b3 = b3
    Backend = {b1, b2, b3}
    NoBackend = NoBackend
    Score <- MCScore
    FragmentCount <- MCFragmentCount
    RetryLimit <- MCRetryLimit
    MaxTransports = 2
INVARIANTS
    TableMatchesSenders
PROPERTIES
    ResultIsTrue
    EverySendReturns
