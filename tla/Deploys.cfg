CONSTANTS
    Node = {n1}
    Task = {t1, t2}
    Request = {r1, r2}
    MaxConcurrent = 1
    MaxOps = 2
    MayApply = TRUE
    MayTimeout = TRUE
    NoInfo = NoInfo
    NoConfig = NoConfig
    Nobody = Nobody
SPECIFICATION Spec
INVARIANTS SlotsCounted HashWasApplied
PROPERTIES DeployEnds ShutdownEnds
