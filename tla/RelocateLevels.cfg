SPECIFICATION Spec
CONSTANTS
    n1 = n1
    n2 = n2
    c1 = c1
    c2 = c2
    Nodes = {n1, n2}
    Spares = {s1, s2}
    NewVPS = {v1}
    Chains = {c1, c2}
    Members <- TwoChains
    Levelized = {c1}
    AutoNodes = {n1, n2}
    MaxEvents = 1
    MaxAtOnce = 2
    Operator = Operator
    NoOne = NoOne
INVARIANT SuccessPropagates
CHECK_DEADLOCK FALSE
