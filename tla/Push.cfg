CONSTANTS
    v0 = v0
    v1 = v1
    v2 = v2
    v3 = v3
    minimal = minimal
    Minimal = minimal
    awg0 = awg0
    awg1 = awg1
    Deployer = {d1, d2}
    Version = {v0, v1, v2, v3, minimal}
    Goals = {v1, v2, v3}
    Iface = {awg0, awg1}
    Rendered <- MCRendered
    TornDown <- MCTornDown
    SameInterface <- MCSameInterface
    CheckOK = {v0, v1, v2, minimal}
    ServiceOK = {v0, v1, minimal}
    AwgOK = {v0, v1, v2}
    NoFile = NoFile
    Torn = Torn
    NoPath = NoPath
    Down = Down
    Nobody = Nobody
    MaxFaults = 1
    InitialNodes <- AllNodes
SPECIFICATION Spec
INVARIANTS  CleanFailureRestoresNode
PROPERTY PushEnds
