CONSTANTS
    MaxId = 1
    Metas <- MCMetas
    Datas = {x}
    Nil = Nil
    NoRecord = NoRecord
    NoFile = NoFile
    Corrupt = Corrupt
    Unknown = Unknown
    MaxFaults = 1
    MaxBatch = 1
    Threads = {t1, t2}
    MaxCount = 1
    a = a
    b = b
SYMMETRY MCSymmetry
VIEW MCView
SPECIFICATION RSpec
INVARIANTS
    FindByIsComplete
    UntouchedFoundOnce
