CONSTANTS
    MaxId = 1
    Metas <- MCMetas
    Datas = {}
    Nil = Nil
    NoRecord = NoRecord
    NoFile = NoFile
    Corrupt = Corrupt
    Unknown = Unknown
    MaxFaults = 0
    MaxBatch = 0
    Threads = {t1}
    MaxCount = 2
    a = a
    b = b
SPECIFICATION RSpec
INVARIANT FindByIsSound
