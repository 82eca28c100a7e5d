SPECIFICATION Spec
CONSTANTS
    p1 = p1
    p2 = p2
    p3 = p3
    Nodes = {n1, n2}
    Profiles = {p1, p2, p3}
    Chains = {c1, c2}
    Protocol <- TwoAWG
    Ports = {1, 2}
    UserPort = 2
    Creds = {k1, k2}
    MaxSubnet = 3
    MaxRequests = 4
    MaxFaults = 1
    None = None
SYMMETRY Symmetry
PROPERTIES RefPlaced SubnetsStayDisjoint CredsStable
CHECK_DEADLOCK FALSE
