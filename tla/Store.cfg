CONSTANTS
    Node = {n1, n2}
    ChainName = {ch}
    Profile = {p}
    User = {u1, u2}
    Secret = {x}
    LinkId = {l1, l2}
    None = None
    Nobody = Nobody
    c1 = c1
    c2 = c2
    s1 = s1
    s2 = s2
    Caller = {c1, c2}
    Instance = {s1}
    InstanceOf <- OneInstance
    MaxRevision = 3
SPECIFICATION Spec
INVARIANTS TypeOK CopyIsCurrent SecretsDisjoint
PROPERTIES RevisionMonotonic NoReferenceBroken ImplementsAtomicStore
