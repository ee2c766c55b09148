CONSTANTS
    n1 = n1
    n2 = n2
    n3 = n3
    Nodes <- ThreeNodes
    Fleets <- NoneOneOrAll
    Spreads <- TogetherOrApart
    Ids = {1, 2}
    Arg = 1
    None = None
    MaxFaults = 1
    MaxMoves = 1
SPECIFICATION Spec
CHECK_DEADLOCK FALSE
INVARIANT TemporariesRemoved
