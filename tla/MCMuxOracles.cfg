CONSTANTS
    A = A
    B = B
    c1 = c1
    c2 = c2
    Nodes <- TwoNodes
    Clients <- TwoClients
    Oracles = {o1, bad, temp}
    Unparsable = {bad}
    Temporaries = {temp}
    MaxId = 2
    MaxFaults = 1
    MaxRestarts = 1
    None = None
SPECIFICATION Spec
SYMMETRY Alike
CHECK_DEADLOCK FALSE
INVARIANTS
    NoOracleLost
    NoDoubles
    TheftIsComplete
