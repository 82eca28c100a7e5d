SPECIFICATION FairSpec
CONSTANTS
    n1 = n1
    n2 = n2
    c1 = c1
    c2 = c2
    Nodes = {n1, n2}
    Spares = {s1}
    NewVPS = {v1, s1}
    Chains = {c1, c2}
    Members <- TwoChains
    Levelized = {}
    AutoNodes = {n1, n2}
    MaxEvents = 2
    MaxAtOnce = 2
    Operator = Operator
    NoOne = NoOne
INVARIANTS SuccessPropagates
PROPERTIES  RelocationHeals
CHECK_DEADLOCK FALSE
