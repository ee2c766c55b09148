CONSTANTS
    A = A
    B = B
    C = C
    Nodes = {A, B, C}
    Threads = {t1, t2}
    Vals = {v}
    MaxId = 4
    None = None
    FirstMembers <- OneMember
    FirstIds <- Empty
    FaultyRPCs = {}
    MaxFaults = 0
    Modulus = 16
    MaxLeaves = 0
    Rejoin = FALSE
    Configured = FALSE
    Restarts = "never"
SPECIFICATION Spec
INVARIANTS
    NoDuplicates
    NoRecordLost
    CountsAreExact
    NextIdIsFree
