CONSTANTS
    Node = {n1}
    Loop = Loop
    Checker = {c1}
    Handler = {h1}
    DownThreshold = 3
    RecoverThreshold = 2
    CounterBound = 3
    MaxOps = 3
    NoMetrics = NoMetrics
SPECIFICATION Spec
INVARIANTS TypeOK CountersBacked
PROPERTIES IncidentNeedsFailures RecoveryNeedsSuccesses OutageFlagged RecoveryNoticed
