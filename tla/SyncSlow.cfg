SPECIFICATION Spec
CONSTANTS
    Docs = {d1}
    ChunkIds = {k1}
    EntryIds = {e1, e2}
    Workers = {w1, w2, w3}
    Contents = {c1, c2}
    MetaValues = {}
    MaxAttempts = 1
    MaxCrashes = 0
    RecoverLive = TRUE
    HasReplica = TRUE
    VersionId <- MCVersionId
    Absent = Absent
    NoDoc = NoDoc
    NoEntry = NoEntry
    NoWorker = NoWorker
    NoMeta = NoMeta
SYMMETRY MCSymmetry
INVARIANTS
    NothingDeletedServed
CHECK_DEADLOCK FALSE
