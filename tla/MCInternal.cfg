CONSTANTS
    t1 = t1
    t2 = t2
    Threads <- TwoThreads
    N = 2
    MaxId = 2
    MaxCalls = 2
    MaxFaults = 2
    Modulus = 64
    FirstData <- Starts
    None = None
SPECIFICATION Spec
SYMMETRY Alike
CHECK_DEADLOCK FALSE
INVARIANTS
    AckedIsStored
    OneHolder
    DeleteIsComplete
    DeadlocksAreKnown
