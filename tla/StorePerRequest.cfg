CONSTANTS
    Node = {n1, n2}
    ChainName = {}
    Profile = {}
    User = {}
    Secret = {}
    LinkId = {}
    None = None
    Nobody = Nobody
    c1 = c1
    c2 = c2
    s1 = s1
    s2 = s2
    Caller = {c1, c2}
    Instance = {s1, s2}
    InstanceOf <- PerCallerInstance
    MaxRevision = 4
SPECIFICATION Spec
PROPERTY RevisionMonotonic
