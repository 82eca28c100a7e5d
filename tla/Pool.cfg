SPECIFICATION FairSpec
CONSTANTS
    Borrowers = {a, b}
    RawDialers = {t}
    PoolHosts = {n1}
    RawHosts = {n2}
    MaxDials = 2
    MaxChanges = 1
    NoOne = NoOne
INVARIANTS OpenIsOwned KeyFresh
PROPERTIES ReuseMatchesKnownHost ConnectEnds IdleIsSwept
CHECK_DEADLOCK FALSE
