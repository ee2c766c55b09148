CONSTANTS
    MaxId = 2
    Metas <- MCMetas
    Datas = {f, g}
    Good = {f, g}
    Nil = Nil
    NoRecord = NoRecord
    NoFile = NoFile
    Corrupt = Corrupt
    Unknown = Unknown
    NoCode = NoCode
    MaxFaults = 1
    MaxBatch = 2
    Handlers = {t1, t2}
    tag = tag
SYMMETRY MCSymmetry
SPECIFICATION MCSpec
INVARIANTS
    TypeOK
    Durable
    NextIdIsFresh
    FilesHoldTheirId
    CacheFollowsStore
PROPERTY ImplementsDurableMap
