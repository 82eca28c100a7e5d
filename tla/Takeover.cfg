CONSTANTS
    c1 = c1
    c2 = c2
    c3 = c3
    NativeUsers <- Native
    WithPSK = {c2}
    Client <- Clients
    OldKinds <- EveryKind
    NoFile = NoFile
    Down = Down
    MaxAttempts = 3
    MaxFaults = 2
    MaxCrashes = 1
    MayCancel = TRUE
SPECIFICATION FairSpec
INVARIANTS
    
    NoPhantomUsers
    OldConfigRecoverable
PROPERTIES
    TakeoverEnds
CHECK_DEADLOCK FALSE
