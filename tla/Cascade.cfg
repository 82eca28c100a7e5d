SPECIFICATION CascadeSpec
CONSTANTS
    n1 = n1
    n2 = n2
    n3 = n3
    n4 = n4
    Nodes = {n1, n2, n3, n4}
    Users = {u1}
    AWGNodes = {n1}
    TransitPort = 443
    Forms <- TwoChains
    RouteModes = {TRUE, FALSE}
    Jobs = {j1}
    MaxGen = 2
    MaxEdits = 3
    MaxDeploys = 3
    NoNode = NoNode
    NoChain = NoChain
INVARIANTS Delivered PinHonoured
CHECK_DEADLOCK FALSE
