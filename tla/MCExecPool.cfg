CONSTANTS
    NumVMs = 2
    Callers = {t1, t2, t3, t4}
    Endless = {t1}
    None = None
SPECIFICATION PoolSpec
INVARIANTS
    Exclusive
    OwnGlobals
    NoVMLost
PROPERTY WaitersServed
