-------------------------- MODULE VectorIndexSync --------------------------
(***************************************************************************)
(* The transactional outbox that keeps the Qdrant collection in step with   *)
(* the chunks stored in PostgreSQL.                                         *)
(*                                                                          *)
(* Transactions that change chunks write outbox entries in the same commit. *)
(* Workers (one per coroutine of OutboxDispatcher._apply_one, in any number *)
(* of processes) claim entries and apply them to Qdrant.  Each transaction  *)
(* and each Qdrant call is one step; everything between two of them can be  *)
(* interleaved with every other worker and with the writers.                *)
(***************************************************************************)
EXTENDS Naturals, FiniteSets

CONSTANTS
    Docs,           \* document ids
    ChunkIds,       \* chunk ids; the supply bounds the number of inserts
    EntryIds,       \* outbox entry ids; the supply bounds the number of enqueues
    Workers,        \* concurrent executions of _apply_one
    Contents,       \* chunk texts, told apart by their hash
    MetaValues,     \* values of an act version's temporal metadata
    VersionId,      \* document -> id of its act version, in the same integers
    MaxAttempts,    \* VectorOutboxEntry.max_attempts
    MaxCrashes,     \* bound on process crashes
    RecoverLive,    \* may stuck_job_timeout_minutes expire on a live worker?
    HasReplica,     \* are reads of uow_factory.create() served by a replica?
    Absent,         \* no chunk, no point
    NoDoc, NoEntry, NoWorker, NoMeta

ASSUME MaxAttemptsAssumption == MaxAttempts \in Nat \ {0}
ASSUME MaxCrashesAssumption == MaxCrashes \in Nat
ASSUME FlagAssumption == RecoverLive \in BOOLEAN /\ HasReplica \in BOOLEAN
ASSUME SentinelAssumption ==
    /\ Absent \notin Contents
    /\ NoDoc \notin Docs
    /\ NoEntry \notin EntryIds
    /\ NoWorker \notin Workers
    /\ NoMeta \notin MetaValues

VARIABLES
    \* PostgreSQL
    dstat,      \* documents.status, or "absent" / "gone" when there is no row
    home,       \* chunk id -> document it was inserted for (ids are never reused)
    chunk,      \* chunks.content, Absent when there is no row
    vmeta,      \* act_versions row of the document: its temporal metadata
    job,        \* immutable part of an outbox entry
    status,     \* vector_store_outbox.status, "free" when there is no row
    attempts,   \* vector_store_outbox.attempts
    replica,    \* documents every read replica has replayed
    \* Qdrant
    point,      \* content of the point of a chunk id, or Absent
    pmeta,      \* temporal metadata in its payload
    \* advisory lock and workers
    lock,       \* document -> worker inside document_index_lock
    pc, cur, snap, todo, flag, seen,
    crashes

sqlVars == <<dstat, home, chunk, vmeta>>
outboxVars == <<job, status, attempts>>
qdrantVars == <<point, pmeta>>
localVars == <<cur, snap, todo, flag, seen>>
vars == <<dstat, home, chunk, vmeta, job, status, attempts, replica,
          point, pmeta, lock, pc, cur, snap, todo, flag, seen, crashes>>

-----------------------------------------------------------------------------
(* Rows. *)

DocStatus == {"absent", "pending", "indexing", "done", "gone"}
OutboxStatus == {"pending", "in_progress", "done", "failed", "dead_letter"}
Operation == {"upsert_chunks", "delete_by_document", "delete_chunks", "update_metadata"}

Jobs == [op : Operation, doc : Docs, ids : SUBSET ChunkIds, meta : MetaValues \cup {NoMeta}]
NoJob == [op |-> "none", doc |-> NoDoc, ids |-> {}, meta |-> NoMeta]

Exists(d) == dstat[d] \notin {"absent", "gone"}
ChunksOf(d) == {k \in ChunkIds : home[k] = d /\ chunk[k] # Absent}
FreeChunks == {k \in ChunkIds : home[k] = NoDoc}
FreeEntries == {e \in EntryIds : status[e] = "free"}
NewEntry(used) == CHOOSE e \in FreeEntries \ used : TRUE

UpsertJob(d, ids) == [op |-> "upsert_chunks", doc |-> d, ids |-> ids, meta |-> vmeta[d]]
DeleteDocJob(d) == [op |-> "delete_by_document", doc |-> d, ids |-> {}, meta |-> NoMeta]
DeleteChunksJob(d, ids) == [op |-> "delete_chunks", doc |-> d, ids |-> ids, meta |-> NoMeta]
MetadataJob(d, m) == [op |-> "update_metadata", doc |-> d, ids |-> {}, meta |-> m]

\* The aggregate columns: metadata entries belong to the act version.
AggregateId(e) == IF job[e].op = "update_metadata" THEN VersionId[job[e].doc] ELSE job[e].doc
OwnEntries(d) == {e \in EntryIds : /\ status[e] # "free"
                                   /\ job[e].op # "update_metadata"
                                   /\ job[e].doc = d}

\* Entry e promises to bring the point of chunk k up to date.
Covers(e, k) ==
    \/ job[e].op \in {"upsert_chunks", "delete_chunks"} /\ k \in job[e].ids
    \/ job[e].op = "delete_by_document" /\ home[k] = job[e].doc

-----------------------------------------------------------------------------
(* Transactions of the writers.  Each one commits rows and entries together. *)

Enqueue(e, j) ==
    /\ job' = [job EXCEPT ![e] = j]
    /\ status' = [status EXCEPT ![e] = "pending"]

WriterUnchanged == UNCHANGED <<attempts, replica, point, pmeta, lock, pc, cur, snap,
                               todo, flag, seen, crashes>>

\* An upload or an ingestion creates a pending row, a manual document a finished one.
CreateDocument(d) ==
    /\ dstat[d] = "absent"
    /\ \E s \in {"pending", "done"} : dstat' = [dstat EXCEPT ![d] = s]
    /\ UNCHANGED <<home, chunk, vmeta, job, status>>
    /\ WriterUnchanged

\* (Re)ingestion: the chunks of the document are replaced by freshly numbered
\* ones, whose contents are text; the replaced ids are deleted from the index.
Ingest(d, ids, text) ==
    LET replaced == ChunksOf(d)
        up == NewEntry({})
        del == NewEntry({up})
        enqueued == IF replaced = {} THEN {up} ELSE {up, del}
    IN  /\ Exists(d)
        /\ ids \subseteq FreeChunks
        /\ FreeEntries # {} /\ (replaced = {} \/ FreeEntries \ {up} # {})
        /\ home' = [k \in ChunkIds |-> IF k \in ids THEN d ELSE home[k]]
        /\ chunk' = [k \in ChunkIds |-> IF k \in ids THEN text[k]
                                        ELSE IF k \in replaced THEN Absent ELSE chunk[k]]
        /\ job' = [e \in EntryIds |-> IF e \notin enqueued THEN job[e]
                                      ELSE IF e = up THEN UpsertJob(d, ids)
                                      ELSE DeleteChunksJob(d, replaced)]
        /\ status' = [e \in EntryIds |-> IF e \in enqueued THEN "pending" ELSE status[e]]
        /\ dstat' = [dstat EXCEPT ![d] = "indexing"]
        /\ UNCHANGED vmeta
        /\ WriterUnchanged

AddChunk(d, k, c) ==
    /\ dstat[d] \in {"done", "indexing"}
    /\ k \in FreeChunks /\ FreeEntries # {}
    /\ home' = [home EXCEPT ![k] = d]
    /\ chunk' = [chunk EXCEPT ![k] = c]
    /\ Enqueue(NewEntry({}), UpsertJob(d, {k}))
    /\ UNCHANGED <<dstat, vmeta>>
    /\ WriterUnchanged

\* The id of an edited chunk is kept; the status of the document is not touched.
EditChunk(d, k, c) ==
    /\ k \in ChunksOf(d) /\ FreeEntries # {}
    /\ chunk' = [chunk EXCEPT ![k] = c]
    /\ Enqueue(NewEntry({}), UpsertJob(d, {k}))
    /\ UNCHANGED <<dstat, home, vmeta>>
    /\ WriterUnchanged

DeleteChunk(d, k) ==
    /\ k \in ChunksOf(d) /\ FreeEntries # {}
    /\ chunk' = [chunk EXCEPT ![k] = Absent]
    /\ Enqueue(NewEntry({}), DeleteChunksJob(d, {k}))
    /\ UNCHANGED <<dstat, home, vmeta>>
    /\ WriterUnchanged

\* The foreign keys cascade to the chunks and to the act version.
DeleteDocument(d) ==
    /\ Exists(d) /\ FreeEntries # {}
    /\ dstat' = [dstat EXCEPT ![d] = "gone"]
    /\ chunk' = [k \in ChunkIds |-> IF home[k] = d THEN Absent ELSE chunk[k]]
    /\ Enqueue(NewEntry({}), DeleteDocJob(d))
    /\ UNCHANGED <<home, vmeta>>
    /\ WriterUnchanged

\* A versioned document's edition changes, in its row and in its chunks' rows.
SaveVersion(d, m) ==
    /\ Exists(d) /\ vmeta[d] \notin {NoMeta, m} /\ FreeEntries # {}
    /\ vmeta' = [vmeta EXCEPT ![d] = m]
    /\ Enqueue(NewEntry({}), MetadataJob(d, m))
    /\ UNCHANGED <<dstat, home, chunk>>
    /\ WriterUnchanged

\* Only with replicas: the last of them replays the primary's commits some time later.
ReplicaCatchUp ==
    /\ HasReplica
    /\ replica' = {d \in Docs : Exists(d)}
    /\ UNCHANGED <<sqlVars, outboxVars, qdrantVars, lock, pc, localVars, crashes>>

-----------------------------------------------------------------------------
(* Workers: claiming, and the steps of _apply_one. *)

PcValues == {"idle", "claimed", "purge", "upload", "verify", "clean", "read", "patch",
             "applied", "commit", "failing"}

NoSnap == [k \in ChunkIds |-> Absent]
SnapIds(w) == {k \in ChunkIds : snap[w][k] # Absent}
Doc(w) == job[cur[w]].doc
UnlockedMutant(w) == [d \in Docs |-> IF lock[d] = w THEN NoEntry ELSE lock[d]]
Unlocked(w) == [d \in Docs |-> IF lock[d] = w THEN NoWorker ELSE lock[d]]
Step(w, next) == pc' = [pc EXCEPT ![w] = next]

\* Back in the pool: the local variables of the coroutine are gone.
Forget(w) ==
    /\ Step(w, "idle")
    /\ cur' = [cur EXCEPT ![w] = NoEntry]
    /\ snap' = [snap EXCEPT ![w] = NoSnap]
    /\ todo' = [todo EXCEPT ![w] = {}]
    /\ flag' = [flag EXCEPT ![w] = FALSE]
    /\ seen' = [seen EXCEPT ![w] = NoMeta]

\* claim_batch; the backoff of a failed entry has elapsed.
Claim(w, e) ==
    /\ pc[w] = "idle"
    /\ status[e] \in {"pending", "failed"}
    /\ status' = [status EXCEPT ![e] = "in_progress"]
    /\ cur' = [cur EXCEPT ![w] = e]
    /\ Step(w, "claimed")
    /\ UNCHANGED <<sqlVars, job, attempts, replica, qdrantVars, lock, snap, todo, flag,
                   seen, crashes>>

\* Mutant: an entry that was stuck once already stays as it is.
RecoverStuckMutant(e) ==
    /\ status[e] = "in_progress" /\ attempts[e] = 0
    /\ RecoverLive \/ \A w \in Workers : cur[w] # e
    /\ status' = [status EXCEPT ![e] = "pending"]
    /\ UNCHANGED <<sqlVars, job, attempts, replica, qdrantVars, lock, pc, localVars, crashes>>

\* recover_stuck: in_progress for longer than stuck_job_timeout_minutes.
RecoverStuck(e) ==
    /\ status[e] = "in_progress"
    /\ RecoverLive \/ \A w \in Workers : cur[w] # e
    /\ status' = [status EXCEPT ![e] = "pending"]
    /\ UNCHANGED <<sqlVars, job, attempts, replica, qdrantVars, lock, pc, localVars, crashes>>

\* delete_by_document and delete_chunks: one call to Qdrant, no lock.
DeleteTargets(w) ==
    IF job[cur[w]].op = "delete_chunks" THEN job[cur[w]].ids
    ELSE {k \in ChunkIds : home[k] = Doc(w)}

Remove(ks) ==
    /\ point' = [k \in ChunkIds |-> IF k \in ks THEN Absent ELSE point[k]]
    /\ pmeta' = [k \in ChunkIds |-> IF k \in ks THEN NoMeta ELSE pmeta[k]]

ApplyDelete(w) ==
    /\ pc[w] = "claimed"
    /\ job[cur[w]].op \in {"delete_chunks", "delete_by_document"}
    /\ Remove(DeleteTargets(w))
    /\ Step(w, "applied")
    /\ UNCHANGED <<sqlVars, outboxVars, replica, lock, localVars, crashes>>

\* Mutant: the rows are read without the advisory lock.
StartUpsertMutant(w) ==
    /\ pc[w] = "claimed"
    /\ job[cur[w]].op = "upsert_chunks"
    /\ snap' = [snap EXCEPT ![w] = [k \in ChunkIds |->
                    IF k \in job[cur[w]].ids THEN chunk[k] ELSE Absent]]
    /\ Step(w, "purge")
    /\ UNCHANGED <<sqlVars, outboxVars, replica, qdrantVars, lock, cur, todo, flag, seen, crashes>>

\* apply_upsert: take the document's advisory lock and read the current chunks.
StartUpsert(w) ==
    /\ pc[w] = "claimed"
    /\ job[cur[w]].op = "upsert_chunks"
    /\ lock[Doc(w)] = NoWorker
    /\ lock' = [lock EXCEPT ![Doc(w)] = w]
    /\ snap' = [snap EXCEPT ![w] = [k \in ChunkIds |->
                    IF k \in job[cur[w]].ids THEN chunk[k] ELSE Absent]]
    /\ Step(w, "purge")
    /\ UNCHANGED <<sqlVars, outboxVars, replica, qdrantVars, cur, todo, flag, seen, crashes>>

\* Mutant: obsolete ids are skipped but their points stay.
PurgeObsoleteMutant(w) ==
    /\ pc[w] = "purge"
    /\ todo' = [todo EXCEPT ![w] = SnapIds(w)]
    /\ IF SnapIds(w) = {}
       THEN Step(w, "applied") /\ lock' = Unlocked(w)
       ELSE Step(w, "upload") /\ UNCHANGED lock
    /\ UNCHANGED <<sqlVars, outboxVars, replica, qdrantVars, cur, snap, flag, seen, crashes>>

\* Ids of the payload that have no row any more are deleted from the index.
PurgeObsolete(w) ==
    /\ pc[w] = "purge"
    /\ Remove(job[cur[w]].ids \ SnapIds(w))
    /\ todo' = [todo EXCEPT ![w] = SnapIds(w)]
    /\ IF SnapIds(w) = {}
       THEN Step(w, "applied") /\ lock' = Unlocked(w)
       ELSE Step(w, "upload") /\ UNCHANGED lock
    /\ UNCHANGED <<sqlVars, outboxVars, replica, cur, snap, flag, seen, crashes>>

\* _document_exists runs on the read session, round robin over the replicas: it may
\* answer no before the last of them has the document.
DocVisible(d) == IF HasReplica THEN d \in replica ELSE Exists(d)

\* Embedding batch by batch: point := snapshot content with the payload's metadata.
\* The check before the batch may be old by then, or have read a faster replica.
UploadBatch(w, k) ==
    /\ pc[w] = "upload"
    /\ k \in todo[w]
    /\ point' = [point EXCEPT ![k] = snap[w][k]]
    /\ pmeta' = [pmeta EXCEPT ![k] = job[cur[w]].meta]
    /\ todo' = [todo EXCEPT ![w] = @ \ {k}]
    /\ UNCHANGED <<sqlVars, outboxVars, replica, lock, pc, cur, snap, flag, seen, crashes>>

\* All batches are up, or should_cancel stopped the upload before the next one.
UploadEnds(w) ==
    /\ pc[w] = "upload"
    /\ todo[w] = {} \/ ~DocVisible(Doc(w))
    /\ Step(w, "verify")
    /\ UNCHANGED <<sqlVars, outboxVars, replica, qdrantVars, lock, localVars, crashes>>

\* Mutant: only changed contents are noticed, vanished rows are not.
VerifyMutant(w) ==
    /\ pc[w] = "verify"
    /\ todo' = [todo EXCEPT ![w] = {}]
    /\ flag' = [flag EXCEPT ![w] =
                    \E k \in SnapIds(w) : chunk[k] # Absent /\ chunk[k] # snap[w][k]]
    /\ Step(w, "clean")
    /\ UNCHANGED <<sqlVars, outboxVars, replica, qdrantVars, lock, cur, snap, seen, crashes>>

\* verify_uploaded_chunks re-reads the rows after the upload.
Verify(w) ==
    /\ pc[w] = "verify"
    /\ todo' = [todo EXCEPT ![w] = {k \in SnapIds(w) : chunk[k] = Absent}]
    /\ flag' = [flag EXCEPT ![w] =
                    \E k \in SnapIds(w) : chunk[k] # Absent /\ chunk[k] # snap[w][k]]
    /\ Step(w, "clean")
    /\ UNCHANGED <<sqlVars, outboxVars, replica, qdrantVars, lock, cur, snap, seen, crashes>>

\* Points of vanished chunks are deleted; a changed content raises a retry.
CleanUploaded(w) ==
    /\ pc[w] = "clean"
    /\ Remove(todo[w])
    /\ IF flag[w]
       THEN Step(w, "failing") /\ lock' = Unlocked(w)
       ELSE Step(w, "read") /\ UNCHANGED lock
    /\ UNCHANGED <<sqlVars, outboxVars, replica, localVars, crashes>>

\* _apply_version_metadata, first half: the committed version, or the fallback
\* (the payload of a metadata entry, nothing for an upsert).
ReadVersion(w) ==
    /\ \/ pc[w] = "read"
       \/ pc[w] = "claimed" /\ job[cur[w]].op = "update_metadata"
    /\ seen' = [seen EXCEPT ![w] =
                    IF Exists(Doc(w)) THEN vmeta[Doc(w)]
                    ELSE IF job[cur[w]].op = "update_metadata" THEN job[cur[w]].meta
                    ELSE NoMeta]
    /\ Step(w, "patch")
    /\ UNCHANGED <<sqlVars, outboxVars, replica, qdrantVars, lock, cur, snap, todo, flag, crashes>>

\* Second half: patch the payload of every point of the version.
PatchVersion(w) ==
    /\ pc[w] = "patch"
    /\ pmeta' = [k \in ChunkIds |->
                    IF seen[w] # NoMeta /\ home[k] = Doc(w) /\ point[k] # Absent
                    THEN seen[w] ELSE pmeta[k]]
    /\ lock' = Unlocked(w)
    /\ Step(w, "applied")
    /\ UNCHANGED <<sqlVars, outboxVars, replica, point, localVars, crashes>>

\* count_by_document inside the final transaction, after its own mark_done.
CountByDocument(w) ==
    /\ pc[w] = "applied"
    /\ flag' = [flag EXCEPT ![w] =
                    /\ job[cur[w]].op # "update_metadata"
                    /\ \A e \in EntryIds \ {cur[w]} :
                         (status[e] # "free" /\ AggregateId(e) = Doc(w)) => status[e] = "done"]
    /\ Step(w, "commit")
    /\ UNCHANGED <<sqlVars, outboxVars, replica, qdrantVars, lock, cur, snap, todo, seen, crashes>>

\* mark_done_if_indexing runs as a later statement (READ COMMITTED), then commit.
CommitDone(w) ==
    /\ pc[w] = "commit"
    /\ status' = [status EXCEPT ![cur[w]] = "done"]
    /\ dstat' = IF flag[w] /\ dstat[Doc(w)] = "indexing"
                THEN [dstat EXCEPT ![Doc(w)] = "done"] ELSE dstat
    /\ Forget(w)
    /\ UNCHANGED <<home, chunk, vmeta, job, attempts, replica, qdrantVars, lock, crashes>>

\* An exception anywhere in the try block; leaving the lock's context frees it.
Fail(w) ==
    /\ pc[w] \notin {"idle", "failing"}
    /\ Step(w, "failing")
    /\ lock' = Unlocked(w)
    /\ UNCHANGED <<sqlVars, outboxVars, replica, qdrantVars, localVars, crashes>>

\* mark_failed, whatever the status of the entry has become meanwhile.
MarkFailed(w) ==
    /\ pc[w] = "failing"
    /\ attempts' = [attempts EXCEPT ![cur[w]] = @ + 1]
    /\ status' = [status EXCEPT ![cur[w]] =
                    IF attempts[cur[w]] + 1 >= MaxAttempts THEN "dead_letter" ELSE "failed"]
    /\ Forget(w)
    /\ UNCHANGED <<sqlVars, job, replica, qdrantVars, lock, crashes>>

\* The process dies: the session lock goes with its connection.
Crash(w) ==
    /\ pc[w] # "idle"
    /\ crashes < MaxCrashes
    /\ crashes' = crashes + 1
    /\ lock' = Unlocked(w)
    /\ Forget(w)
    /\ UNCHANGED <<sqlVars, outboxVars, replica, qdrantVars>>

\* Mutant: the reconciliation counts like count_by_document, entries of the act
\* version that has the same number included.
ReconcileIndexingMutant(d) ==
    /\ dstat[d] = "indexing"
    /\ \A e \in EntryIds : (status[e] # "free" /\ AggregateId(e) = d) => status[e] = "done"
    /\ dstat' = [dstat EXCEPT ![d] = "done"]
    /\ UNCHANGED <<home, chunk, vmeta, outboxVars, replica, qdrantVars, lock, pc, localVars, crashes>>

\* reconcile_indexing_documents, which locks the row before it looks at the outbox.
ReconcileIndexing(d) ==
    /\ dstat[d] = "indexing"
    /\ \A e \in OwnEntries(d) : status[e] = "done"
    /\ dstat' = [dstat EXCEPT ![d] = "done"]
    /\ UNCHANGED <<home, chunk, vmeta, outboxVars, replica, qdrantVars, lock, pc, localVars, crashes>>

-----------------------------------------------------------------------------
(* The specification. *)

Init ==
    /\ dstat = [d \in Docs |-> "absent"]
    /\ home = [k \in ChunkIds |-> NoDoc]
    /\ chunk = [k \in ChunkIds |-> Absent]
    /\ vmeta \in [Docs -> MetaValues \cup {NoMeta}]
    /\ job = [e \in EntryIds |-> NoJob]
    /\ status = [e \in EntryIds |-> "free"]
    /\ attempts = [e \in EntryIds |-> 0]
    /\ replica = {}
    /\ point = [k \in ChunkIds |-> Absent]
    /\ pmeta = [k \in ChunkIds |-> NoMeta]
    /\ lock = [d \in Docs |-> NoWorker]
    /\ pc = [w \in Workers |-> "idle"]
    /\ cur = [w \in Workers |-> NoEntry]
    /\ snap = [w \in Workers |-> NoSnap]
    /\ todo = [w \in Workers |-> {}]
    /\ flag = [w \in Workers |-> FALSE]
    /\ seen = [w \in Workers |-> NoMeta]
    /\ crashes = 0

Writer(d) ==
    \/ CreateDocument(d)
    \/ \E ids \in (SUBSET ChunkIds) \ {{}} : \E text \in [ids -> Contents] :
          Ingest(d, ids, text)
    \/ \E k \in ChunkIds, c \in Contents : AddChunk(d, k, c) \/ EditChunk(d, k, c)
    \/ \E k \in ChunkIds : DeleteChunk(d, k)
    \/ DeleteDocument(d)
    \/ \E m \in MetaValues : SaveVersion(d, m)

\* The progress of a claimed entry, without failures.
Proceed(w) ==
    \/ ApplyDelete(w)
    \/ StartUpsert(w)
    \/ PurgeObsolete(w)
    \/ \E k \in ChunkIds : UploadBatch(w, k)
    \/ UploadEnds(w)
    \/ Verify(w)
    \/ CleanUploaded(w)
    \/ ReadVersion(w)
    \/ PatchVersion(w)
    \/ CountByDocument(w)
    \/ CommitDone(w)
    \/ MarkFailed(w)

Worker(w) ==
    \/ \E e \in EntryIds : Claim(w, e)
    \/ Proceed(w)
    \/ Fail(w)
    \/ Crash(w)

Next ==
    \/ \E d \in Docs : Writer(d)
    \/ \E w \in Workers : Worker(w)
    \/ \E e \in EntryIds : RecoverStuck(e)
    \/ \E d \in Docs : ReconcileIndexing(d)
    \/ ReplicaCatchUp

Spec == Init /\ [][Next]_vars

\* The scheduler calls run_once (recovery, then claims) and the reconciliation
\* periodically for ever; a coroutine that is not blocked goes on.
Fairness ==
    /\ \A w \in Workers : WF_vars(Proceed(w))
    /\ \A e \in EntryIds : SF_vars(\E w \in Workers : Claim(w, e))
    /\ \A e \in EntryIds : WF_vars(RecoverStuck(e))
    /\ \A d \in Docs : WF_vars(ReconcileIndexing(d))

FairSpec == Spec /\ Fairness

-----------------------------------------------------------------------------
(* What a worker is doing. *)

Deleting(w) == /\ pc[w] \in {"claimed", "applied", "commit"}
               /\ job[cur[w]].op \in {"delete_chunks", "delete_by_document"}

\* The worker has made its point writes and will report the entry done.
Settling(w) == pc[w] \in {"read", "patch", "applied", "commit"}

\* Entry e is recorded, not done, and its writes are still to come: by the worker
\* that holds it or by a later one, or by hand for a dead letter.
Live(e) ==
    /\ status[e] \notin {"free", "done"}
    /\ \A w \in Workers : cur[w] = e => ~Settling(w)

\* Nothing is left to do for chunk k.
Quiet(k) ==
    /\ \A e \in EntryIds : (status[e] # "free" /\ Covers(e, k)) => status[e] = "done"
    /\ \A w \in Workers : cur[w] # NoEntry => ~Covers(cur[w], k)

\* A worker died, or an attempt at an entry that covers chunk k failed.
Disturbed(k) ==
    \/ crashes > 0
    \/ \E e \in EntryIds : Covers(e, k) /\ attempts[e] > 0

-----------------------------------------------------------------------------
(* Properties. *)

\* Every variable stays in its domain.
TypeOK ==
    /\ dstat \in [Docs -> DocStatus]
    /\ home \in [ChunkIds -> Docs \cup {NoDoc}]
    /\ chunk \in [ChunkIds -> Contents \cup {Absent}]
    /\ vmeta \in [Docs -> MetaValues \cup {NoMeta}]
    /\ job \in [EntryIds -> Jobs \cup {NoJob}]
    /\ status \in [EntryIds -> OutboxStatus \cup {"free"}]
    /\ attempts \in [EntryIds -> Nat]
    /\ replica \in SUBSET Docs
    /\ point \in [ChunkIds -> Contents \cup {Absent}]
    /\ pmeta \in [ChunkIds -> MetaValues \cup {NoMeta}]
    /\ lock \in [Docs -> Workers \cup {NoWorker}]
    /\ pc \in [Workers -> PcValues]
    /\ cur \in [Workers -> EntryIds \cup {NoEntry}]
    /\ snap \in [Workers -> [ChunkIds -> Contents \cup {Absent}]]
    /\ todo \in [Workers -> SUBSET ChunkIds]
    /\ flag \in [Workers -> BOOLEAN]
    /\ seen \in [Workers -> MetaValues \cup {NoMeta}]
    /\ crashes \in 0..MaxCrashes

\* When every entry that covers a chunk is done and no worker holds one, the index
\* holds the chunk's committed content, or nothing when the row is gone: whatever
\* the order in which edits, deletions and uploads met, and whatever was retried.
IndexMatchesCorpus == \A k \in ChunkIds : Quiet(k) => point[k] = chunk[k]

\* The part of it that lagging read replicas leave: they may cancel an upload, but
\* once the entries of a deleted chunk are done its text is not in the index.  Where
\* live workers are overtaken it needs attempts that neither fail nor die: a worker
\* that finished an entry earlier reports it done after the attempt that had to clean
\* up was given up.
NothingDeletedServed ==
    \A k \in ChunkIds :
        (Quiet(k) /\ chunk[k] = Absent /\ (RecoverLive => ~Disturbed(k))) => point[k] = Absent

\* At any moment, a point that differs from its row is covered by an entry whose
\* writes are still to come: no divergence is ever forgotten.
CoveredDivergence ==
    \A k \in ChunkIds : point[k] # chunk[k] => \E e \in EntryIds : Live(e) /\ Covers(e, k)

\* When every entry of a document and of its act version is done and no worker
\* holds one, the points carry the temporal metadata of the committed edition.
QuiescentMetadata ==
    \A k \in ChunkIds :
        LET d == home[k]
            mine == {e \in EntryIds : status[e] # "free" /\ job[e].doc = d}
        IN  (/\ chunk[k] # Absent /\ point[k] # Absent
             /\ \A e \in mine : status[e] = "done"
             /\ \A w \in Workers : cur[w] \notin mine)
            => pmeta[k] = vmeta[d]

\* Every entry is eventually applied or given up as a dead letter, across failed
\* attempts and crashes of the process that holds it.
EntriesFinish ==
    \A e \in EntryIds : status[e] \in {"pending", "failed", "in_progress"}
                           ~> status[e] \in {"done", "dead_letter"}

\* A document does not stay indexing for ever unless a dead letter keeps it there.
IndexingEnds ==
    \A d \in Docs : dstat[d] = "indexing"
        ~> (dstat[d] # "indexing" \/ \E e \in OwnEntries(d) : status[e] = "dead_letter")

\* Once the writers stop, the index and the rows agree for ever, but for the
\* chunks of dead letters.
EventuallyConsistent ==
    <>[](\A k \in ChunkIds :
            \/ point[k] = chunk[k]
            \/ \E e \in EntryIds : status[e] = "dead_letter" /\ Covers(e, k))

-----------------------------------------------------------------------------
(* The inductive invariant behind IndexMatchesCorpus, for workers that are    *)
(* never overtaken (~RecoverLive) and committed reads (~HasReplica).          *)

\* A busy worker is the only one at its entry, which is marked in_progress.
HeldEntries ==
    \A w \in Workers :
        /\ (pc[w] = "idle") <=> (cur[w] = NoEntry)
        /\ cur[w] # NoEntry => status[cur[w]] = "in_progress"
        /\ \A v \in Workers \ {w} : cur[w] # NoEntry => cur[v] # cur[w]

\* What the rows of the database say of each other, and of points without a row.
RowsAgree ==
    /\ \A k \in ChunkIds :
        /\ chunk[k] # Absent => home[k] \in Docs /\ Exists(home[k])
        /\ home[k] = NoDoc => point[k] = Absent
    /\ \A e \in EntryIds :
        /\ (status[e] = "free") <=> (job[e] = NoJob)
        /\ job[e] # NoJob => dstat[job[e].doc] # "absent"
        /\ job[e].op = "upsert_chunks" => \A k \in job[e].ids : home[k] = job[e].doc
        /\ job[e].op = "delete_chunks" =>
             \A k \in job[e].ids : home[k] # NoDoc /\ chunk[k] = Absent
        /\ job[e].op = "delete_by_document" => dstat[job[e].doc] = "gone"

\* Inside document_index_lock, from the first read to the check after the upload.
Uploading(w) == pc[w] \in {"purge", "upload", "verify", "clean"}

\* What an uploading worker knows of the chunks of its payload.
UploadFacts(w) ==
    /\ job[cur[w]].op = "upsert_chunks"
    /\ lock[Doc(w)] = w
    /\ SnapIds(w) \subseteq job[cur[w]].ids
    /\ \A k \in job[cur[w]].ids \ SnapIds(w) :
         chunk[k] = Absent /\ (pc[w] # "purge" => point[k] = Absent)
    /\ pc[w] # "purge" => todo[w] \subseteq SnapIds(w)
    /\ (pc[w] \in {"upload", "verify"}) =>
         \A k \in SnapIds(w) \ todo[w] : point[k] = snap[w][k] \/ chunk[k] = Absent
    /\ (pc[w] = "verify" /\ todo[w] # {}) => dstat[Doc(w)] = "gone"
    /\ (pc[w] = "clean") => \A k \in todo[w] : chunk[k] = Absent

\* A worker about to settle leaves no divergence that only its entry covers.
CleanFacts(w) ==
    \A k \in job[cur[w]].ids \ todo[w] :
        point[k] # chunk[k] => \E e \in EntryIds \ {cur[w]} : Live(e) /\ Covers(e, k)

UploadInv == \A w \in Workers : Uploading(w) => UploadFacts(w)
CleanInv == \A w \in Workers : (pc[w] = "clean" /\ ~flag[w]) => CleanFacts(w)

\* The strengthening of CoveredDivergence that every step preserves.
IInv == TypeOK /\ HeldEntries /\ RowsAgree /\ UploadInv /\ CleanInv /\ CoveredDivergence

=============================================================================
