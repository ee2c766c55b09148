CONSTANTS
    A = A
    B = B
    C = C
    Nodes = {A, B, C}
    Threads = {}
    Vals = {v}
    MaxId = 3
    None = None
    FirstMembers <- TwoMembers
    FirstIds <- Populated
    FaultyRPCs = {}
    MaxFaults = 0
    Modulus = 16
    MaxLeaves = 2
    Rejoin = FALSE
    Configured = TRUE
    Restarts = "saved"
SPECIFICATION Spec
INVARIANT RecordsKept
PROPERTY ConfigCatchesUp
