CONSTANTS
    A = A
    B = B
    C = C
    Nodes = {A, B}
    Threads = {t1}
    Vals = {v}
    MaxId = 2
    None = None
    FirstMembers <- OneMember
    FirstIds <- Empty
    FaultyRPCs = {"create", "transfer", "delete", "update", "save"}
    MaxFaults = 2
    Modulus = 8
    MaxLeaves = 0
    Rejoin = TRUE
    Configured = TRUE
    Restarts = "any"
SPECIFICATION Spec
INVARIANT NoRecordDestroyed
PROPERTY ConfigCatchesUp
