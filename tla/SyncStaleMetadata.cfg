SPECIFICATION Spec
CONSTANTS
    Docs = {d1}
    ChunkIds = {k1}
    EntryIds = {e1, e2, e3}
    Workers = {w1, w2}
    Contents = {c1}
    MetaValues = {m1, m2}
    MaxAttempts = 1
    MaxCrashes = 0
    RecoverLive = FALSE
    HasReplica = FALSE
    VersionId <- MCVersionId
    Absent = Absent
    NoDoc = NoDoc
    NoEntry = NoEntry
    NoWorker = NoWorker
    NoMeta = NoMeta
SYMMETRY MCSymmetry
INVARIANTS
    QuiescentMetadata
CHECK_DEADLOCK FALSE
