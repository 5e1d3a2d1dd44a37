SPECIFICATION FairSpec
CONSTANTS
    Docs = {d1}
    ChunkIds = {k1}
    EntryIds = {e1, e2}
    Workers = {w1, w2}
    Contents = {c1}
    MetaValues = {m1, m2}
    MaxAttempts = 2
    MaxCrashes = 1
    RecoverLive = FALSE
    HasReplica = FALSE
    VersionId <- MCVersionId
    Absent = Absent
    NoDoc = NoDoc
    NoEntry = NoEntry
    NoWorker = NoWorker
    NoMeta = NoMeta
INVARIANTS
    TypeOK
    IndexMatchesCorpus
    CoveredDivergence
    IInv
PROPERTIES
    EntriesFinish
    IndexingEnds
    EventuallyConsistent
CHECK_DEADLOCK FALSE
