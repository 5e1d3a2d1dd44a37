----------------------- MODULE VectorIndexSync_proofs -----------------------
(***************************************************************************)
(* Proofs about VectorIndexSync, for every number of documents, chunks,     *)
(* entries, workers, attempts and crashes.                                  *)
(***************************************************************************)
EXTENDS VectorIndexSync, TLAPS

\* A fresh entry is free and is none of those already taken by the transaction.
LEMMA NewEntryIsFree ==
    ASSUME NEW used, FreeEntries \ used # {}
    PROVE  NewEntry(used) \in FreeEntries \ used
  BY DEF NewEntry

-----------------------------------------------------------------------------
(* Type correctness, whatever the fault constants are. *)

\* TypeOK, every recorded entry has a job, and a worker that is not idle holds one.
TypeInv ==
    /\ TypeOK
    /\ \A e \in EntryIds : status[e] # "free" => job[e] \in Jobs
    /\ \A w \in Workers : pc[w] # "idle" => cur[w] # NoEntry /\ job[cur[w]] \in Jobs

\* Initially nothing is recorded and every worker is idle.
LEMMA TypeInit == Init => TypeInv
  BY MaxCrashesAssumption DEF Init, TypeInv, TypeOK, DocStatus, PcValues, NoSnap

\* A transaction of the application keeps the types.
LEMMA TypeWriter == ASSUME TypeInv, NEW d \in Docs, Writer(d) PROVE TypeInv'
  <1> USE DEF TypeInv
  <1>1. ASSUME CreateDocument(d) PROVE TypeInv'
    BY <1>1 DEF CreateDocument, WriterUnchanged, TypeOK, DocStatus
  <1>2. ASSUME NEW ids \in SUBSET ChunkIds, NEW text \in [ids -> Contents], Ingest(d, ids, text)
        PROVE  TypeInv'
    <2>1. ChunksOf(d) \in SUBSET ChunkIds
      BY DEF ChunksOf
    <2>2. UpsertJob(d, ids) \in Jobs /\ DeleteChunksJob(d, ChunksOf(d)) \in Jobs
      BY <2>1 DEF TypeOK, UpsertJob, DeleteChunksJob, Jobs, Operation
    <2> QED
      BY <1>2, <2>2 DEF Ingest, WriterUnchanged, TypeOK, DocStatus, OutboxStatus
  <1>3. ASSUME NEW k \in ChunkIds, NEW c \in Contents, AddChunk(d, k, c) \/ EditChunk(d, k, c)
        PROVE  TypeInv'
    <2>1. UpsertJob(d, {k}) \in Jobs
      BY DEF TypeOK, UpsertJob, Jobs, Operation
    <2>2. CASE AddChunk(d, k, c)
      BY <2>1, <2>2 DEF AddChunk, Enqueue, WriterUnchanged, TypeOK, OutboxStatus
    <2>3. CASE EditChunk(d, k, c)
      BY <2>1, <2>3 DEF EditChunk, Enqueue, WriterUnchanged, TypeOK, OutboxStatus
    <2> QED
      BY <1>3, <2>2, <2>3
  <1>4. ASSUME NEW k \in ChunkIds, DeleteChunk(d, k) PROVE TypeInv'
    <2>1. DeleteChunksJob(d, {k}) \in Jobs
      BY DEF DeleteChunksJob, Jobs, Operation
    <2> QED
      BY <1>4, <2>1 DEF DeleteChunk, Enqueue, WriterUnchanged, TypeOK, OutboxStatus
  <1>5. ASSUME DeleteDocument(d) PROVE TypeInv'
    <2>1. DeleteDocJob(d) \in Jobs
      BY DEF DeleteDocJob, Jobs, Operation
    <2> QED
      BY <1>5, <2>1 DEF DeleteDocument, Enqueue, WriterUnchanged, TypeOK, DocStatus, OutboxStatus
  <1>6. ASSUME NEW m \in MetaValues, SaveVersion(d, m) PROVE TypeInv'
    <2>1. MetadataJob(d, m) \in Jobs
      BY DEF MetadataJob, Jobs, Operation
    <2> QED
      BY <1>6, <2>1 DEF SaveVersion, Enqueue, WriterUnchanged, TypeOK, OutboxStatus
  <1> QED
    BY <1>1, <1>2, <1>3, <1>4, <1>5, <1>6 DEF Writer

\* A step of the dispatcher keeps the types.
LEMMA TypeWorker == ASSUME TypeInv, NEW w \in Workers, Worker(w) PROVE TypeInv'
  <1> USE DEF TypeInv, TypeOK, PcValues, localVars, sqlVars, outboxVars, qdrantVars, Step
  <1>j. \A e \in EntryIds : job[e].ids \subseteq ChunkIds /\ job[e].meta \in MetaValues \cup {NoMeta}
    BY DEF Jobs, NoJob
  <1>u. Unlocked(w) \in [Docs -> Workers \cup {NoWorker}]
    BY DEF Unlocked
  <1>r. ASSUME NEW ks, Remove(ks)
        PROVE  /\ point' \in [ChunkIds -> Contents \cup {Absent}]
               /\ pmeta' \in [ChunkIds -> MetaValues \cup {NoMeta}]
    BY <1>r DEF Remove
  <1>1. ASSUME NEW e \in EntryIds, Claim(w, e) PROVE TypeInv'
    BY <1>1, SentinelAssumption DEF Claim, OutboxStatus
  <1>2. CASE ApplyDelete(w)
    BY <1>2, <1>r DEF ApplyDelete
  <1>3. CASE StartUpsert(w)
    BY <1>3 DEF StartUpsert
  <1>4. CASE PurgeObsolete(w)
    <2>1. SnapIds(w) \in SUBSET ChunkIds
      BY DEF SnapIds
    <2> QED
      BY <1>4, <1>r, <1>u, <2>1 DEF PurgeObsolete
  <1>5. ASSUME NEW k \in ChunkIds, UploadBatch(w, k) PROVE TypeInv'
    BY <1>5, <1>j DEF UploadBatch
  <1>6. CASE UploadEnds(w)
    BY <1>6 DEF UploadEnds
  <1>7. CASE Verify(w)
    BY <1>7 DEF Verify, SnapIds
  <1>8. CASE CleanUploaded(w)
    BY <1>8, <1>r, <1>u, SMTT(20) DEF CleanUploaded
  <1>9. CASE ReadVersion(w)
    <2>1. Doc(w) \in Docs
      BY <1>9 DEF ReadVersion, Doc, Jobs
    <2> QED
      BY <1>9, <1>j, <2>1 DEF ReadVersion
  <1>10. CASE PatchVersion(w)
    BY <1>10, <1>u DEF PatchVersion
  <1>11. CASE CountByDocument(w)
    BY <1>11 DEF CountByDocument
  <1>12. CASE CommitDone(w)
    BY <1>12 DEF CommitDone, Forget, NoSnap, OutboxStatus, DocStatus
  <1>13. CASE MarkFailed(w)
    BY <1>13 DEF MarkFailed, Forget, NoSnap, OutboxStatus
  <1>14. CASE Fail(w)
    BY <1>14, <1>u DEF Fail
  <1>15. CASE Crash(w)
    BY <1>15, <1>u, MaxCrashesAssumption DEF Crash, Forget, NoSnap
  <1> QED
    BY <1>1, <1>2, <1>3, <1>4, <1>5, <1>6, <1>7, <1>8, <1>9, <1>10, <1>11, <1>12, <1>13, <1>14,
       <1>15 DEF Worker, Proceed

\* Every step keeps the types.
LEMMA TypeNext == ASSUME TypeInv, [Next]_vars PROVE TypeInv'
  <1>1. ASSUME NEW e \in EntryIds, RecoverStuck(e) PROVE TypeInv'
    BY <1>1 DEF RecoverStuck, TypeInv, TypeOK, OutboxStatus, sqlVars, qdrantVars, localVars
  <1>2. ASSUME NEW d \in Docs, ReconcileIndexing(d) PROVE TypeInv'
    BY <1>2 DEF ReconcileIndexing, TypeInv, TypeOK, DocStatus, outboxVars, qdrantVars, localVars
  <1>3. CASE ReplicaCatchUp
    BY <1>3 DEF ReplicaCatchUp, TypeInv, TypeOK, sqlVars, outboxVars, qdrantVars, localVars
  <1>4. CASE UNCHANGED vars
    BY <1>4 DEF vars, TypeInv, TypeOK
  <1> QED
    BY <1>1, <1>2, <1>3, <1>4, TypeWriter, TypeWorker DEF Next

\* Every variable of the specification stays in its domain.
THEOREM TypeCorrect == Spec => []TypeOK
  <1>1. Init => TypeInv
    BY TypeInit
  <1>2. TypeInv /\ [Next]_vars => TypeInv'
    BY TypeNext
  <1>3. TypeInv => TypeOK
    BY DEF TypeInv
  <1> QED
    BY <1>1, <1>2, <1>3, PTL DEF Spec

-----------------------------------------------------------------------------
(* The inductive invariant.  A point may differ from its row only while an entry *)
(* that is not done covers it; the other conjuncts say what the worker of such   *)
(* an entry knows at each step of its upload.                                    *)

\* The facts about held entries that every step uses.
LEMMA HeldFacts ==
    ASSUME TypeOK, HeldEntries, RowsAgree, NEW w \in Workers, pc[w] # "idle"
    PROVE  /\ cur[w] \in EntryIds /\ status[cur[w]] = "in_progress"
           /\ job[cur[w]] \in Jobs /\ Doc(w) \in Docs
  BY SentinelAssumption DEF TypeOK, HeldEntries, RowsAgree, Jobs, Doc

\* An upload excludes every other upload of the same chunk.
LEMMA UploadsExclude ==
    ASSUME TypeOK, RowsAgree, HeldEntries, UploadInv, NEW v \in Workers, NEW w \in Workers, v # w,
           Uploading(v), Uploading(w), NEW k \in job[cur[v]].ids, k \in job[cur[w]].ids
    PROVE  FALSE
  <1>1. job[cur[v]].op = "upsert_chunks" /\ lock[Doc(v)] = v
    BY DEF UploadInv, UploadFacts
  <1>2. job[cur[w]].op = "upsert_chunks" /\ lock[Doc(w)] = w
    BY DEF UploadInv, UploadFacts
  <1>3. cur[v] \in EntryIds /\ cur[w] \in EntryIds
    BY HeldFacts DEF Uploading
  <1>4. home[k] = Doc(v) /\ home[k] = Doc(w)
    BY <1>1, <1>2, <1>3 DEF RowsAgree, Doc
  <1> QED
    BY <1>1, <1>2, <1>4

\* What an uploading worker knows, and where the chunks of its payload belong.
LEMMA UploaderFacts ==
    ASSUME TypeOK, HeldEntries, RowsAgree, UploadInv, NEW w \in Workers, Uploading(w)
    PROVE  /\ UploadFacts(w) /\ cur[w] \in EntryIds /\ job[cur[w]] \in Jobs /\ Doc(w) \in Docs
           /\ \A i \in job[cur[w]].ids : i \in ChunkIds /\ home[i] = Doc(w) /\ home[i] # NoDoc
  <1>1. UploadFacts(w) /\ job[cur[w]].op = "upsert_chunks"
    BY DEF UploadInv, UploadFacts
  <1>2. cur[w] \in EntryIds /\ job[cur[w]] \in Jobs /\ Doc(w) \in Docs
    BY HeldFacts DEF Uploading
  <1>3. \A i \in job[cur[w]].ids : home[i] = job[cur[w]].doc /\ i \in ChunkIds
    BY <1>1, <1>2 DEF RowsAgree, Jobs
  <1> QED
    BY <1>1, <1>2, <1>3, SentinelAssumption DEF Doc

\* An entry recorded by a transaction starts live, and nobody holds it.
LEMMA FreshIsLive ==
    ASSUME HeldEntries, NEW n \in FreeEntries, status'[n] = "pending", UNCHANGED <<pc, cur>>
    PROVE  Live(n)' /\ \A w \in Workers : cur[w] # n
  BY SentinelAssumption DEF HeldEntries, FreeEntries, Live

\* An entry stays live while its status and the workers stay as they are.
LEMMA OldStaysLive ==
    ASSUME NEW e \in EntryIds, Live(e), status'[e] = status[e], UNCHANGED <<pc, cur>>
    PROVE  Live(e)' /\ e \notin FreeEntries
  BY DEF Live, Settling, FreeEntries

\* A claimed entry keeps its coverage: it goes from pending to held.
LEMMA ClaimStep ==
    ASSUME IInv, TypeOK', NEW w \in Workers, NEW e \in EntryIds, Claim(w, e)
    PROVE  HeldEntries' /\ RowsAgree' /\ UploadInv' /\ CleanInv' /\ CoveredDivergence'
  <1> USE SentinelAssumption
      DEF IInv, TypeOK, localVars, sqlVars, outboxVars, qdrantVars, Step, Jobs, NoJob
  <1>1. HeldEntries'
    BY DEF Claim, HeldEntries
  <1>2. RowsAgree'
    BY DEF Claim, RowsAgree, Exists
  <1>3. UploadInv'
    BY DEF Claim, UploadInv, Uploading, UploadFacts, SnapIds, Doc
  <1>4. CleanInv'
    <2> SUFFICES ASSUME NEW v \in Workers, pc'[v] = "clean", ~flag'[v],
                        NEW i \in job'[cur'[v]].ids \ todo'[v], point'[i] # chunk'[i]
                 PROVE  \E x \in EntryIds \ {cur'[v]} : Live(x)' /\ Covers(x, i)'
      BY DEF CleanInv, CleanFacts
    <2>1. /\ pc[v] = "clean" /\ ~flag[v] /\ cur'[v] = cur[v]
          /\ cur[v] \in EntryIds /\ job[cur[v]] \in Jobs /\ job'[cur[v]] = job[cur[v]]
          /\ i \in job[cur[v]].ids \ todo[v] /\ i \in ChunkIds
      BY HeldFacts DEF Claim, HeldEntries
    <2>2. /\ job[cur[v]].op = "upsert_chunks" /\ home[i] = Doc(v)
      BY <2>1, UploaderFacts DEF Uploading, UploadFacts
    <2>3. point[i] # chunk[i]
      BY DEF Claim
    <2>4. PICK x \in EntryIds \ {cur[v]} : Live(x) /\ Covers(x, i)
      BY <2>1, <2>3 DEF CleanInv, CleanFacts
    <2>5. Covers(x, i)'
      BY <2>4 DEF Claim, Covers, Live
    <2>6. Live(x)'
      BY <2>4 DEF Claim, Live, Settling
    <2> QED
      BY <2>1, <2>4, <2>5, <2>6
  <1>5. CoveredDivergence'
    BY DEF Claim, CoveredDivergence, Live, Covers, Settling
  <1> QED
    BY <1>1, <1>2, <1>3, <1>4, <1>5

\* A deletion removes points of rows that are gone already.
LEMMA ApplyDeleteStep ==
    ASSUME IInv, TypeOK', NEW w \in Workers, ApplyDelete(w)
    PROVE  HeldEntries' /\ RowsAgree' /\ UploadInv' /\ CleanInv' /\ CoveredDivergence'
  <1> USE SentinelAssumption
      DEF IInv, TypeOK, localVars, sqlVars, outboxVars, qdrantVars, Step, Jobs, NoJob
  <1>a. \A i \in DeleteTargets(w) : i \in ChunkIds => chunk[i] = Absent
    <2>1. cur[w] \in EntryIds /\ Doc(w) \in Docs
      BY HeldFacts DEF ApplyDelete
    <2> QED
      BY <2>1 DEF ApplyDelete, DeleteTargets, RowsAgree, Exists, Doc
  <1>1. HeldEntries'
    BY DEF ApplyDelete, HeldEntries
  <1>2. RowsAgree'
    BY DEF ApplyDelete, Remove, RowsAgree, Exists
  <1>3. UploadInv'
    BY DEF ApplyDelete, Remove, DeleteTargets, UploadInv, Uploading, UploadFacts,
           RowsAgree, HeldEntries, SnapIds, Doc, Exists
  <1>4. CleanInv'
    <2> SUFFICES ASSUME NEW v \in Workers, pc'[v] = "clean", ~flag'[v],
                        NEW i \in job'[cur'[v]].ids \ todo'[v], point'[i] # chunk'[i]
                 PROVE  \E x \in EntryIds \ {cur'[v]} : Live(x)' /\ Covers(x, i)'
      BY DEF CleanInv, CleanFacts
    <2>1. /\ pc[v] = "clean" /\ ~flag[v] /\ cur'[v] = cur[v]
          /\ cur[v] \in EntryIds /\ job[cur[v]] \in Jobs /\ job'[cur[v]] = job[cur[v]]
          /\ i \in job[cur[v]].ids \ todo[v] /\ i \in ChunkIds
      BY HeldFacts DEF ApplyDelete
    <2>2. /\ job[cur[v]].op = "upsert_chunks" /\ home[i] = Doc(v)
      BY <2>1, UploaderFacts DEF Uploading, UploadFacts
    <2>3. point[i] # chunk[i] /\ chunk'[i] = chunk[i]
      BY <1>a, <2>1 DEF ApplyDelete, Remove, DeleteTargets
    <2>4. PICK x \in EntryIds \ {cur[v]} : Live(x) /\ Covers(x, i)
      BY <2>1, <2>3 DEF CleanInv, CleanFacts
    <2>5. Covers(x, i)'
      BY <2>4 DEF ApplyDelete, Covers
    <2>6. Live(x)'
      BY <2>1, <2>4
         DEF ApplyDelete, Remove, DeleteTargets, Live, Settling, Covers, RowsAgree, Exists,
             Doc
    <2> QED
      BY <2>1, <2>4, <2>5, <2>6
  <1>5. CoveredDivergence'
    BY DEF ApplyDelete, Remove, DeleteTargets, CoveredDivergence, Live, Covers, Settling,
           RowsAgree, HeldEntries, Doc, Exists
  <1> QED
    BY <1>1, <1>2, <1>3, <1>4, <1>5

\* Under the lock of the document the rows read are the committed ones.
LEMMA StartUpsertStep ==
    ASSUME IInv, TypeOK', NEW w \in Workers, StartUpsert(w)
    PROVE  HeldEntries' /\ RowsAgree' /\ UploadInv' /\ CleanInv' /\ CoveredDivergence'
  <1> USE SentinelAssumption
      DEF IInv, TypeOK, localVars, sqlVars, outboxVars, qdrantVars, Step, Jobs, NoJob
  <1>1. HeldEntries'
    BY DEF StartUpsert, HeldEntries
  <1>2. RowsAgree'
    BY DEF StartUpsert, RowsAgree, Exists
  <1>3. UploadInv'
    BY DEF StartUpsert, UploadInv, Uploading, UploadFacts, HeldEntries, SnapIds, Doc
  <1>4. CleanInv'
    <2> SUFFICES ASSUME NEW v \in Workers, pc'[v] = "clean", ~flag'[v],
                        NEW i \in job'[cur'[v]].ids \ todo'[v], point'[i] # chunk'[i]
                 PROVE  \E x \in EntryIds \ {cur'[v]} : Live(x)' /\ Covers(x, i)'
      BY DEF CleanInv, CleanFacts
    <2>1. /\ pc[v] = "clean" /\ ~flag[v] /\ cur'[v] = cur[v]
          /\ cur[v] \in EntryIds /\ job[cur[v]] \in Jobs /\ job'[cur[v]] = job[cur[v]]
          /\ i \in job[cur[v]].ids \ todo[v] /\ i \in ChunkIds
      BY HeldFacts DEF StartUpsert, HeldEntries
    <2>2. /\ job[cur[v]].op = "upsert_chunks" /\ home[i] = Doc(v)
      BY <2>1, UploaderFacts DEF Uploading, UploadFacts
    <2>3. point[i] # chunk[i]
      BY DEF StartUpsert
    <2>4. PICK x \in EntryIds \ {cur[v]} : Live(x) /\ Covers(x, i)
      BY <2>1, <2>3 DEF CleanInv, CleanFacts
    <2>5. Covers(x, i)'
      BY <2>4 DEF StartUpsert, Covers, Live
    <2>6. Live(x)'
      BY <2>4 DEF StartUpsert, Live, Settling
    <2> QED
      BY <2>1, <2>4, <2>5, <2>6
  <1>5. CoveredDivergence'
    BY DEF StartUpsert, CoveredDivergence, Live, Covers, Settling
  <1> QED
    BY <1>1, <1>2, <1>3, <1>4, <1>5

\* Points of rows that were gone at the read are removed; none of them returns.
LEMMA PurgeObsoleteStep ==
    ASSUME IInv, TypeOK', NEW w \in Workers, PurgeObsolete(w)
    PROVE  HeldEntries' /\ RowsAgree' /\ UploadInv' /\ CleanInv' /\ CoveredDivergence'
  <1> USE SentinelAssumption
      DEF IInv, TypeOK, localVars, sqlVars, outboxVars, qdrantVars, Step, Jobs, NoJob
  <1>u. UploadFacts(w) /\ cur[w] \in EntryIds
    BY UploaderFacts DEF PurgeObsolete, Uploading
  <1>1. HeldEntries'
    BY DEF PurgeObsolete, HeldEntries
  <1>2. RowsAgree'
    BY DEF PurgeObsolete, Remove, RowsAgree, Exists
  <1>3. UploadInv'
    BY DEF PurgeObsolete, Remove, Unlocked, UploadInv, Uploading, UploadFacts, HeldEntries,
           SnapIds, Doc
  <1>4. CleanInv'
    <2> SUFFICES ASSUME NEW v \in Workers, pc'[v] = "clean", ~flag'[v],
                        NEW i \in job'[cur'[v]].ids \ todo'[v], point'[i] # chunk'[i]
                 PROVE  \E x \in EntryIds \ {cur'[v]} : Live(x)' /\ Covers(x, i)'
      BY DEF CleanInv, CleanFacts
    <2>1. /\ pc[v] = "clean" /\ ~flag[v] /\ cur'[v] = cur[v]
          /\ cur[v] \in EntryIds /\ job[cur[v]] \in Jobs /\ job'[cur[v]] = job[cur[v]]
          /\ i \in job[cur[v]].ids \ todo[v] /\ i \in ChunkIds
      BY HeldFacts DEF PurgeObsolete
    <2>2. /\ job[cur[v]].op = "upsert_chunks" /\ home[i] = Doc(v)
      BY <2>1, UploaderFacts DEF Uploading, UploadFacts
    <2>3. point[i] # chunk[i] /\ chunk'[i] = chunk[i]
      BY <2>1 DEF PurgeObsolete, Remove, UploadInv, UploadFacts, Uploading
    <2>4. PICK x \in EntryIds \ {cur[v]} : Live(x) /\ Covers(x, i)
      BY <2>1, <2>3 DEF CleanInv, CleanFacts
    <2>5. Covers(x, i)'
      BY <2>4 DEF PurgeObsolete, Covers
    <2>6. Live(x)'
      BY <2>1, <2>4
         DEF PurgeObsolete, Remove, Live, Settling, Covers, UploadInv, UploadFacts,
             Uploading
    <2> QED
      BY <2>1, <2>4, <2>5, <2>6
  <1>5. CoveredDivergence'
    <2> SUFFICES ASSUME NEW i \in ChunkIds, point'[i] # chunk'[i]
                 PROVE  \E x \in EntryIds : Live(x)' /\ Covers(x, i)'
      BY DEF CoveredDivergence
    <2>1. point[i] # chunk[i] /\ i \notin job[cur[w]].ids \ SnapIds(w)
      BY <1>u DEF PurgeObsolete, Remove, UploadFacts
    <2>2. PICK x \in EntryIds : Live(x) /\ Covers(x, i)
      BY <2>1 DEF CoveredDivergence
    <2>3. Covers(x, i)'
      BY <2>2 DEF PurgeObsolete, Covers
    <2>4. x = cur[w] => SnapIds(w) # {}
      BY <1>u, <2>1, <2>2 DEF Covers, UploadFacts
    <2>5. Live(x)'
      BY <2>2, <2>4 DEF PurgeObsolete, Live, Settling
    <2> QED
      BY <2>3, <2>5
  <1> QED
    BY <1>1, <1>2, <1>3, <1>4, <1>5

\* A batch writes the text that was read; a row that changed since has an entry of its own.
LEMMA UploadBatchStep ==
    ASSUME IInv, TypeOK', NEW w \in Workers, NEW k \in ChunkIds, UploadBatch(w, k)
    PROVE  HeldEntries' /\ RowsAgree' /\ UploadInv' /\ CleanInv' /\ CoveredDivergence'
  <1> USE SentinelAssumption
      DEF IInv, TypeOK, localVars, sqlVars, outboxVars, qdrantVars, Step, Jobs, NoJob
  <1>u. Uploading(w) /\ UploadFacts(w) /\ k \in job[cur[w]].ids /\ snap[w][k] # Absent
    <2>1. pc[w] = "upload" /\ Uploading(w) /\ k \in todo[w]
      BY DEF UploadBatch, Uploading
    <2>2. UploadFacts(w)
      BY <2>1 DEF UploadInv
    <2>3. SnapIds(w) \subseteq job[cur[w]].ids /\ todo[w] \subseteq SnapIds(w)
      BY <2>1, <2>2 DEF UploadFacts
    <2> QED
      BY <2>1, <2>2, <2>3 DEF SnapIds
  <1>x. ASSUME NEW v \in Workers \ {w}, Uploading(v) PROVE k \notin job[cur[v]].ids
    BY <1>u, <1>x, UploadsExclude
  <1>1. HeldEntries'
    BY DEF UploadBatch, HeldEntries
  <1>2. RowsAgree'
    <2>1. home[k] # NoDoc
      BY <1>u, UploaderFacts
    <2> QED
      BY <2>1 DEF UploadBatch, RowsAgree, Exists
  <1>3. UploadInv'
    BY DEF UploadBatch, UploadInv, Uploading, UploadFacts, RowsAgree, HeldEntries, SnapIds,
           Doc
  <1>4. CleanInv'
    <2> SUFFICES ASSUME NEW v \in Workers, pc'[v] = "clean", ~flag'[v],
                        NEW i \in job'[cur'[v]].ids \ todo'[v], point'[i] # chunk'[i]
                 PROVE  \E x \in EntryIds \ {cur'[v]} : Live(x)' /\ Covers(x, i)'
      BY DEF CleanInv, CleanFacts
    <2>1. /\ pc[v] = "clean" /\ ~flag[v] /\ cur'[v] = cur[v]
          /\ cur[v] \in EntryIds /\ job[cur[v]] \in Jobs /\ job'[cur[v]] = job[cur[v]]
          /\ i \in job[cur[v]].ids \ todo[v] /\ i \in ChunkIds
      BY HeldFacts DEF UploadBatch, HeldEntries
    <2>2. /\ job[cur[v]].op = "upsert_chunks" /\ home[i] = Doc(v)
      BY <2>1, UploaderFacts DEF Uploading, UploadFacts
    <2>3. point[i] # chunk[i] /\ chunk'[i] = chunk[i]
      <3>1. v # w /\ Uploading(v)
        BY <2>1 DEF UploadBatch, Uploading
      <3>2. i # k
        BY <1>x, <2>1, <3>1
      <3> QED
        BY <3>2 DEF UploadBatch
    <2>4. PICK x \in EntryIds \ {cur[v]} : Live(x) /\ Covers(x, i)
      BY <2>1, <2>3 DEF CleanInv, CleanFacts
    <2>5. Covers(x, i)'
      BY <2>4 DEF UploadBatch, Covers
    <2>6. Live(x)'
      BY <2>1, <2>4 DEF UploadBatch, Live, Settling
    <2> QED
      BY <2>1, <2>4, <2>5, <2>6
  <1>5. CoveredDivergence'
    <2>1. Live(cur[w]) /\ Covers(cur[w], k) /\ cur[w] \in EntryIds
      BY <1>u, HeldFacts DEF UploadBatch, UploadFacts, Live, Covers, Settling, HeldEntries
    <2>2. \A x \in EntryIds : Live(x) => Live(x)'
      BY DEF UploadBatch, Live, Settling
    <2>3. \A x \in EntryIds, i \in ChunkIds : Covers(x, i) => Covers(x, i)'
      BY DEF UploadBatch, Covers
    <2> QED
      BY <2>1, <2>2, <2>3 DEF UploadBatch, CoveredDivergence
  <1> QED
    BY <1>1, <1>2, <1>3, <1>4, <1>5

\* A cancelled upload leaves points only to the check that follows.
LEMMA UploadEndsStep ==
    ASSUME IInv, TypeOK', ~HasReplica, NEW w \in Workers, UploadEnds(w)
    PROVE  HeldEntries' /\ RowsAgree' /\ UploadInv' /\ CleanInv' /\ CoveredDivergence'
  <1> USE SentinelAssumption
      DEF IInv, TypeOK, localVars, sqlVars, outboxVars, qdrantVars, Step, Jobs, NoJob
  <1>1. HeldEntries'
    BY DEF UploadEnds, DocVisible, HeldEntries
  <1>2. RowsAgree'
    BY DEF UploadEnds, RowsAgree, Exists
  <1>3. UploadInv'
    <2>1. todo[w] # {} => dstat[Doc(w)] = "gone"
      <3>1. Doc(w) \in Docs /\ cur[w] \in EntryIds /\ job[cur[w]] # NoJob
        BY UploaderFacts, HeldFacts DEF UploadEnds, Uploading
      <3>2. dstat[Doc(w)] # "absent"
        BY <3>1 DEF RowsAgree, Doc
      <3> QED
        BY <3>1, <3>2 DEF UploadEnds, DocVisible, Exists
    <2> QED
      BY <2>1 DEF UploadEnds, UploadInv, Uploading, UploadFacts, SnapIds, Doc
  <1>4. CleanInv'
    <2> SUFFICES ASSUME NEW v \in Workers, pc'[v] = "clean", ~flag'[v],
                        NEW i \in job'[cur'[v]].ids \ todo'[v], point'[i] # chunk'[i]
                 PROVE  \E x \in EntryIds \ {cur'[v]} : Live(x)' /\ Covers(x, i)'
      BY DEF CleanInv, CleanFacts
    <2>1. /\ pc[v] = "clean" /\ ~flag[v] /\ cur'[v] = cur[v]
          /\ cur[v] \in EntryIds /\ job[cur[v]] \in Jobs /\ job'[cur[v]] = job[cur[v]]
          /\ i \in job[cur[v]].ids \ todo[v] /\ i \in ChunkIds
      BY HeldFacts DEF UploadEnds, DocVisible, HeldEntries
    <2>2. /\ job[cur[v]].op = "upsert_chunks" /\ home[i] = Doc(v)
      BY <2>1, UploaderFacts DEF Uploading, UploadFacts
    <2>3. point[i] # chunk[i]
      BY DEF UploadEnds, DocVisible
    <2>4. PICK x \in EntryIds \ {cur[v]} : Live(x) /\ Covers(x, i)
      BY <2>1, <2>3 DEF CleanInv, CleanFacts
    <2>5. Covers(x, i)'
      BY <2>4 DEF UploadEnds, Covers
    <2>6. Live(x)'
      BY <2>4 DEF UploadEnds, Live, Settling
    <2> QED
      BY <2>1, <2>4, <2>5, <2>6
  <1>5. CoveredDivergence'
    BY DEF UploadEnds, CoveredDivergence, Live, Covers, Settling
  <1> QED
    BY <1>1, <1>2, <1>3, <1>4, <1>5

\* The check clears the entry only if the rows are still the ones that were read.
LEMMA VerifyStep ==
    ASSUME IInv, TypeOK', NEW w \in Workers, Verify(w)
    PROVE  HeldEntries' /\ RowsAgree' /\ UploadInv' /\ CleanInv' /\ CoveredDivergence'
  <1> USE SentinelAssumption
      DEF IInv, TypeOK, localVars, sqlVars, outboxVars, qdrantVars, Step, Jobs, NoJob
  <1>1. HeldEntries'
    BY DEF Verify, HeldEntries
  <1>2. RowsAgree'
    BY DEF Verify, RowsAgree, Exists
  <1>3. UploadInv'
    BY DEF Verify, UploadInv, Uploading, UploadFacts, SnapIds, Doc
  <1>4. CleanInv'
    <2> SUFFICES ASSUME NEW v \in Workers, pc'[v] = "clean", ~flag'[v],
                        NEW i \in job'[cur'[v]].ids \ todo'[v], point'[i] # chunk'[i]
                 PROVE  \E x \in EntryIds \ {cur'[v]} : Live(x)' /\ Covers(x, i)'
      BY DEF CleanInv, CleanFacts
    <2>1. cur' = cur /\ job' = job /\ point' = point /\ chunk' = chunk /\ home' = home
      BY DEF Verify
    <2>2. \A x \in EntryIds : (Live(x) => Live(x)') /\ (Covers(x, i) => Covers(x, i)')
      BY DEF Verify, Live, Settling, Covers
    <2>3. CASE v # w
      BY <2>1, <2>2, <2>3 DEF Verify, CleanInv, CleanFacts
    <2>4. CASE v = w
      <3>1. Uploading(w) /\ UploadFacts(w) /\ cur[w] \in EntryIds /\ job[cur[w]] \in Jobs
        BY HeldFacts DEF UploadInv, Uploading, Verify
      <3>2. i \in SnapIds(w) /\ chunk[i] # Absent /\ chunk[i] = snap[w][i]
        BY <2>1, <2>4, <3>1 DEF Verify, UploadFacts, Jobs
      <3>3. home[i] = Doc(w) /\ dstat[Doc(w)] # "gone"
        BY <2>1, <2>4, <3>1, <3>2, UploaderFacts DEF RowsAgree, UploadFacts, Exists
      <3>4. point[i] = snap[w][i]
        BY <3>1, <3>2, <3>3 DEF UploadFacts, Verify
      <3> QED
        BY <2>1, <3>2, <3>4
    <2> QED
      BY <2>3, <2>4
  <1>5. CoveredDivergence'
    BY DEF Verify, CoveredDivergence, Live, Covers, Settling
  <1> QED
    BY <1>1, <1>2, <1>3, <1>4, <1>5

\* The clean-up removes points whose rows are gone.
LEMMA CleanUploadedStep ==
    ASSUME IInv, TypeOK', NEW w \in Workers, CleanUploaded(w)
    PROVE  HeldEntries' /\ RowsAgree' /\ UploadInv' /\ CleanInv' /\ CoveredDivergence'
  <1> USE SentinelAssumption
      DEF IInv, TypeOK, localVars, sqlVars, outboxVars, qdrantVars, Step, Jobs, NoJob
  <1>u. Uploading(w) /\ UploadFacts(w) /\ cur[w] \in EntryIds
    BY HeldFacts DEF UploadInv, Uploading, CleanUploaded
  <1>x. ASSUME NEW v \in Workers \ {w}, Uploading(v), NEW i \in job[cur[v]].ids
        PROVE  i \notin job[cur[w]].ids
    BY <1>u, <1>x, UploadsExclude
  <1>1. HeldEntries'
    BY DEF CleanUploaded, HeldEntries
  <1>2. RowsAgree'
    BY DEF CleanUploaded, Remove, RowsAgree, Exists
  <1>3. UploadInv'
    BY DEF CleanUploaded, Remove, Unlocked, UploadInv, Uploading, UploadFacts, HeldEntries,
           SnapIds, Doc
  <1>4. CleanInv'
    <2> SUFFICES ASSUME NEW v \in Workers, pc'[v] = "clean", ~flag'[v],
                        NEW i \in job'[cur'[v]].ids \ todo'[v], point'[i] # chunk'[i]
                 PROVE  \E x \in EntryIds \ {cur'[v]} : Live(x)' /\ Covers(x, i)'
      BY DEF CleanInv, CleanFacts
    <2>1. /\ pc[v] = "clean" /\ ~flag[v] /\ cur'[v] = cur[v]
          /\ cur[v] \in EntryIds /\ job[cur[v]] \in Jobs /\ job'[cur[v]] = job[cur[v]]
          /\ i \in job[cur[v]].ids \ todo[v] /\ i \in ChunkIds
      <3>1. v # w /\ pc[v] = "clean" /\ ~flag[v]
        BY DEF CleanUploaded, Remove, Unlocked
      <3>2. cur[v] \in EntryIds /\ job[cur[v]] \in Jobs
        BY <3>1, HeldFacts
      <3> QED
        BY <3>1, <3>2 DEF CleanUploaded, Remove, Unlocked
    <2>2. /\ job[cur[v]].op = "upsert_chunks" /\ home[i] = Doc(v)
      BY <2>1, UploaderFacts DEF Uploading, UploadFacts
    <2>3. point[i] # chunk[i] /\ chunk'[i] = chunk[i]
      BY <2>1 DEF CleanUploaded, Remove, UploadInv, UploadFacts, Uploading
    <2>4. PICK x \in EntryIds \ {cur[v]} : Live(x) /\ Covers(x, i)
      BY <2>1, <2>3 DEF CleanInv, CleanFacts
    <2>5. Covers(x, i)'
      BY <2>4 DEF CleanUploaded, Covers
    <2>6. Live(x)'
      <3>1. x # cur[w]
        BY <1>u, <1>x, <2>1, <2>4 DEF Covers, UploadFacts, Uploading
      <3> QED
        BY <2>4, <3>1 DEF CleanUploaded, Live, Settling
    <2> QED
      BY <2>1, <2>4, <2>5, <2>6
  <1>5. CoveredDivergence'
    <2> SUFFICES ASSUME NEW i \in ChunkIds, point'[i] # chunk'[i]
                 PROVE  \E x \in EntryIds : Live(x)' /\ Covers(x, i)'
      BY DEF CoveredDivergence
    <2>1. point[i] # chunk[i] /\ i \notin todo[w]
      BY <1>u DEF CleanUploaded, Remove, UploadFacts
    <2>2. PICK y \in EntryIds : Live(y) /\ Covers(y, i)
      BY <2>1 DEF CoveredDivergence
    <2>x. PICK x \in EntryIds : Live(x) /\ Covers(x, i) /\ (x = cur[w] => flag[w])
      <3>1. CASE y # cur[w] \/ flag[w]
        BY <2>2, <3>1
      <3>2. CASE y = cur[w] /\ ~flag[w]
        <4>1. i \in job[cur[w]].ids \ todo[w] /\ CleanFacts(w)
          BY <1>u, <2>1, <2>2, <3>2 DEF Covers, UploadFacts, CleanInv, CleanUploaded
        <4> QED
          BY <2>1, <4>1 DEF CleanFacts
      <3> QED
        BY <3>1, <3>2
    <2>3. Covers(x, i)'
      BY <2>x DEF CleanUploaded, Covers
    <2>4. Live(x)'
      BY <2>x DEF CleanUploaded, Live, Settling
    <2> QED
      BY <2>3, <2>4
  <1> QED
    BY <1>1, <1>2, <1>3, <1>4, <1>5

\* Reading the edition changes no row and no point.
LEMMA ReadVersionStep ==
    ASSUME IInv, TypeOK', NEW w \in Workers, ReadVersion(w)
    PROVE  HeldEntries' /\ RowsAgree' /\ UploadInv' /\ CleanInv' /\ CoveredDivergence'
  <1> USE SentinelAssumption
      DEF IInv, TypeOK, localVars, sqlVars, outboxVars, qdrantVars, Step, Jobs, NoJob
  <1>1. HeldEntries'
    BY DEF ReadVersion, HeldEntries
  <1>2. RowsAgree'
    BY DEF ReadVersion, RowsAgree, Exists
  <1>3. UploadInv'
    BY DEF ReadVersion, UploadInv, Uploading, UploadFacts, SnapIds, Doc
  <1>4. CleanInv'
    <2> SUFFICES ASSUME NEW v \in Workers, pc'[v] = "clean", ~flag'[v],
                        NEW i \in job'[cur'[v]].ids \ todo'[v], point'[i] # chunk'[i]
                 PROVE  \E x \in EntryIds \ {cur'[v]} : Live(x)' /\ Covers(x, i)'
      BY DEF CleanInv, CleanFacts
    <2>1. /\ pc[v] = "clean" /\ ~flag[v] /\ cur'[v] = cur[v]
          /\ cur[v] \in EntryIds /\ job[cur[v]] \in Jobs /\ job'[cur[v]] = job[cur[v]]
          /\ i \in job[cur[v]].ids \ todo[v] /\ i \in ChunkIds
      BY HeldFacts DEF ReadVersion, HeldEntries
    <2>2. /\ job[cur[v]].op = "upsert_chunks" /\ home[i] = Doc(v)
      BY <2>1, UploaderFacts DEF Uploading, UploadFacts
    <2>3. point[i] # chunk[i]
      BY DEF ReadVersion
    <2>4. PICK x \in EntryIds \ {cur[v]} : Live(x) /\ Covers(x, i)
      BY <2>1, <2>3 DEF CleanInv, CleanFacts
    <2>5. Covers(x, i)'
      BY <2>4 DEF ReadVersion, Covers, Live
    <2>6. Live(x)'
      BY <2>4 DEF ReadVersion, Live, Settling, Covers
    <2> QED
      BY <2>1, <2>4, <2>5, <2>6
  <1>5. CoveredDivergence'
    <2> SUFFICES ASSUME NEW i \in ChunkIds, point'[i] # chunk'[i]
                 PROVE  \E x \in EntryIds : Live(x)' /\ Covers(x, i)'
      BY DEF CoveredDivergence
    <2>1. point[i] # chunk[i]
      BY DEF ReadVersion
    <2>2. PICK x \in EntryIds : Live(x) /\ Covers(x, i)
      BY <2>1 DEF CoveredDivergence
    <2>3. Covers(x, i)'
      BY <2>2 DEF ReadVersion, Covers
    <2>4. Live(x)'
      <3>1. x = cur[w] => pc[w] # "claimed"
        BY <2>2 DEF ReadVersion, Covers
      <3>2. x = cur[w] => pc[w] # "read"
        BY <2>2 DEF Live, Settling
      <3>3. cur[w] # x
        BY <3>1, <3>2 DEF ReadVersion
      <3>4. /\ status' = status /\ cur' = cur
            /\ \A v \in Workers : pc'[v] = pc[v] \/ v = w
        BY DEF ReadVersion
      <3> QED
        BY <2>2, <3>3, <3>4 DEF Live, Settling
    <2> QED
      BY <2>3, <2>4
  <1> QED
    BY <1>1, <1>2, <1>3, <1>4, <1>5

\* A patch of the metadata leaves the texts of the points alone.
LEMMA PatchVersionStep ==
    ASSUME IInv, TypeOK', NEW w \in Workers, PatchVersion(w)
    PROVE  HeldEntries' /\ RowsAgree' /\ UploadInv' /\ CleanInv' /\ CoveredDivergence'
  <1> USE SentinelAssumption
      DEF IInv, TypeOK, localVars, sqlVars, outboxVars, qdrantVars, Step, Jobs, NoJob
  <1>1. HeldEntries'
    BY DEF PatchVersion, Unlocked, HeldEntries
  <1>2. RowsAgree'
    BY DEF PatchVersion, RowsAgree, Exists
  <1>3. UploadInv'
    BY DEF PatchVersion, Unlocked, UploadInv, Uploading, UploadFacts, HeldEntries, SnapIds,
           Doc
  <1>4. CleanInv'
    <2> SUFFICES ASSUME NEW v \in Workers, pc'[v] = "clean", ~flag'[v],
                        NEW i \in job'[cur'[v]].ids \ todo'[v], point'[i] # chunk'[i]
                 PROVE  \E x \in EntryIds \ {cur'[v]} : Live(x)' /\ Covers(x, i)'
      BY DEF CleanInv, CleanFacts
    <2>1. /\ pc[v] = "clean" /\ ~flag[v] /\ cur'[v] = cur[v]
          /\ cur[v] \in EntryIds /\ job[cur[v]] \in Jobs /\ job'[cur[v]] = job[cur[v]]
          /\ i \in job[cur[v]].ids \ todo[v] /\ i \in ChunkIds
      BY HeldFacts DEF PatchVersion, Unlocked, HeldEntries
    <2>2. /\ job[cur[v]].op = "upsert_chunks" /\ home[i] = Doc(v)
      BY <2>1, UploaderFacts DEF Uploading, UploadFacts
    <2>3. point[i] # chunk[i]
      BY DEF PatchVersion, Unlocked
    <2>4. PICK x \in EntryIds \ {cur[v]} : Live(x) /\ Covers(x, i)
      BY <2>1, <2>3 DEF CleanInv, CleanFacts
    <2>5. Covers(x, i)'
      BY <2>4 DEF PatchVersion, Covers
    <2>6. Live(x)'
      BY <2>4 DEF PatchVersion, Live, Settling
    <2> QED
      BY <2>1, <2>4, <2>5, <2>6
  <1>5. CoveredDivergence'
    BY DEF PatchVersion, CoveredDivergence, Live, Covers, Settling
  <1> QED
    BY <1>1, <1>2, <1>3, <1>4, <1>5

\* Counting the unfinished entries changes no row and no point.
LEMMA CountByDocumentStep ==
    ASSUME IInv, TypeOK', NEW w \in Workers, CountByDocument(w)
    PROVE  HeldEntries' /\ RowsAgree' /\ UploadInv' /\ CleanInv' /\ CoveredDivergence'
  <1> USE SentinelAssumption
      DEF IInv, TypeOK, localVars, sqlVars, outboxVars, qdrantVars, Step, Jobs, NoJob
  <1>1. HeldEntries'
    BY DEF CountByDocument, HeldEntries
  <1>2. RowsAgree'
    BY DEF CountByDocument, RowsAgree, Exists
  <1>3. UploadInv'
    BY DEF CountByDocument, UploadInv, Uploading, UploadFacts, SnapIds, Doc
  <1>4. CleanInv'
    <2> SUFFICES ASSUME NEW v \in Workers, pc'[v] = "clean", ~flag'[v],
                        NEW i \in job'[cur'[v]].ids \ todo'[v], point'[i] # chunk'[i]
                 PROVE  \E x \in EntryIds \ {cur'[v]} : Live(x)' /\ Covers(x, i)'
      BY DEF CleanInv, CleanFacts
    <2>1. /\ pc[v] = "clean" /\ ~flag[v] /\ cur'[v] = cur[v]
          /\ cur[v] \in EntryIds /\ job[cur[v]] \in Jobs /\ job'[cur[v]] = job[cur[v]]
          /\ i \in job[cur[v]].ids \ todo[v] /\ i \in ChunkIds
      BY HeldFacts DEF CountByDocument, HeldEntries
    <2>2. /\ job[cur[v]].op = "upsert_chunks" /\ home[i] = Doc(v)
      BY <2>1, UploaderFacts DEF Uploading, UploadFacts
    <2>3. point[i] # chunk[i]
      BY DEF CountByDocument
    <2>4. PICK x \in EntryIds \ {cur[v]} : Live(x) /\ Covers(x, i)
      BY <2>1, <2>3 DEF CleanInv, CleanFacts
    <2>5. Covers(x, i)'
      BY <2>4 DEF CountByDocument, Covers, Live
    <2>6. Live(x)'
      BY <2>4 DEF CountByDocument, Live, Settling
    <2> QED
      BY <2>1, <2>4, <2>5, <2>6
  <1>5. CoveredDivergence'
    BY DEF CountByDocument, CoveredDivergence, Live, Covers, Settling
  <1> QED
    BY <1>1, <1>2, <1>3, <1>4, <1>5

\* An entry is done only when nothing it covers diverges without another entry.
LEMMA CommitDoneStep ==
    ASSUME IInv, TypeOK', NEW w \in Workers, CommitDone(w)
    PROVE  HeldEntries' /\ RowsAgree' /\ UploadInv' /\ CleanInv' /\ CoveredDivergence'
  <1> USE SentinelAssumption
      DEF IInv, TypeOK, localVars, sqlVars, outboxVars, qdrantVars, Step, Jobs, NoJob
  <1>1. HeldEntries'
    BY DEF CommitDone, Forget, HeldEntries
  <1>2. RowsAgree'
    <2>1. cur[w] \in EntryIds /\ job[cur[w]] # NoJob
      BY HeldFacts DEF CommitDone, Forget, Jobs
    <2>2. \A x \in EntryIds : status'[x] = "free" <=> status[x] = "free"
      BY <2>1 DEF CommitDone, Forget, RowsAgree
    <2> QED
      BY <2>2 DEF CommitDone, RowsAgree, Exists
  <1>3. UploadInv'
    BY DEF CommitDone, Forget, UploadInv, Uploading, UploadFacts, SnapIds, Doc
  <1>4. CleanInv'
    <2> SUFFICES ASSUME NEW v \in Workers, pc'[v] = "clean", ~flag'[v],
                        NEW i \in job'[cur'[v]].ids \ todo'[v], point'[i] # chunk'[i]
                 PROVE  \E x \in EntryIds \ {cur'[v]} : Live(x)' /\ Covers(x, i)'
      BY DEF CleanInv, CleanFacts
    <2>1. /\ pc[v] = "clean" /\ ~flag[v] /\ cur'[v] = cur[v]
          /\ cur[v] \in EntryIds /\ job[cur[v]] \in Jobs /\ job'[cur[v]] = job[cur[v]]
          /\ i \in job[cur[v]].ids \ todo[v] /\ i \in ChunkIds
      BY HeldFacts DEF CommitDone, Forget, HeldEntries
    <2>2. /\ job[cur[v]].op = "upsert_chunks" /\ home[i] = Doc(v)
      BY <2>1, UploaderFacts DEF Uploading, UploadFacts
    <2>3. point[i] # chunk[i]
      BY DEF CommitDone, Forget
    <2>4. PICK x \in EntryIds \ {cur[v]} : Live(x) /\ Covers(x, i)
      BY <2>1, <2>3 DEF CleanInv, CleanFacts
    <2>5. Covers(x, i)' /\ x # cur[w]
      BY <2>4 DEF CommitDone, Covers, Live, Settling
    <2>6. Live(x)'
      BY <2>4, <2>5 DEF CommitDone, Forget, Live, Settling
    <2> QED
      BY <2>1, <2>4, <2>5, <2>6
  <1>5. CoveredDivergence'
    BY DEF CommitDone, Forget, CoveredDivergence, Live, Covers, Settling
  <1> QED
    BY <1>1, <1>2, <1>3, <1>4, <1>5

\* A failed entry is retried or is a dead letter; it covers its chunks all the same.
LEMMA MarkFailedStep ==
    ASSUME IInv, TypeOK', NEW w \in Workers, MarkFailed(w)
    PROVE  HeldEntries' /\ RowsAgree' /\ UploadInv' /\ CleanInv' /\ CoveredDivergence'
  <1> USE SentinelAssumption
      DEF IInv, TypeOK, localVars, sqlVars, outboxVars, qdrantVars, Step, Jobs, NoJob
  <1>1. HeldEntries'
    BY DEF MarkFailed, Forget, HeldEntries
  <1>2. RowsAgree'
    <2>1. cur[w] \in EntryIds /\ job[cur[w]] # NoJob
      BY HeldFacts DEF MarkFailed, Forget, Jobs
    <2>2. \A x \in EntryIds : status'[x] = "free" <=> status[x] = "free"
      BY <2>1 DEF MarkFailed, Forget, RowsAgree
    <2> QED
      BY <2>2 DEF MarkFailed, RowsAgree, Exists
  <1>3. UploadInv'
    BY DEF MarkFailed, Forget, UploadInv, Uploading, UploadFacts, SnapIds, Doc
  <1>4. CleanInv'
    <2> SUFFICES ASSUME NEW v \in Workers, pc'[v] = "clean", ~flag'[v],
                        NEW i \in job'[cur'[v]].ids \ todo'[v], point'[i] # chunk'[i]
                 PROVE  \E x \in EntryIds \ {cur'[v]} : Live(x)' /\ Covers(x, i)'
      BY DEF CleanInv, CleanFacts
    <2>1. /\ pc[v] = "clean" /\ ~flag[v] /\ cur'[v] = cur[v]
          /\ cur[v] \in EntryIds /\ job[cur[v]] \in Jobs /\ job'[cur[v]] = job[cur[v]]
          /\ i \in job[cur[v]].ids \ todo[v] /\ i \in ChunkIds
      BY HeldFacts DEF MarkFailed, Forget, HeldEntries
    <2>2. /\ job[cur[v]].op = "upsert_chunks" /\ home[i] = Doc(v)
      BY <2>1, UploaderFacts DEF Uploading, UploadFacts
    <2>3. point[i] # chunk[i]
      BY DEF MarkFailed, Forget
    <2>4. PICK x \in EntryIds \ {cur[v]} : Live(x) /\ Covers(x, i)
      BY <2>1, <2>3 DEF CleanInv, CleanFacts
    <2>5. Covers(x, i)'
      BY <2>4 DEF MarkFailed, Covers
    <2>6. Live(x)'
      BY <2>4 DEF MarkFailed, Forget, Live, Settling
    <2> QED
      BY <2>1, <2>4, <2>5, <2>6
  <1>5. CoveredDivergence'
    BY DEF MarkFailed, Forget, CoveredDivergence, Live, Covers, Settling
  <1> QED
    BY <1>1, <1>2, <1>3, <1>4, <1>5

\* An exception leaves the entry held until its failure is recorded.
LEMMA FailStep ==
    ASSUME IInv, TypeOK', NEW w \in Workers, Fail(w)
    PROVE  HeldEntries' /\ RowsAgree' /\ UploadInv' /\ CleanInv' /\ CoveredDivergence'
  <1> USE SentinelAssumption
      DEF IInv, TypeOK, localVars, sqlVars, outboxVars, qdrantVars, Step, Jobs, NoJob
  <1>1. HeldEntries'
    BY DEF Fail, Unlocked, HeldEntries
  <1>2. RowsAgree'
    BY DEF Fail, RowsAgree, Exists
  <1>3. UploadInv'
    BY DEF Fail, Unlocked, UploadInv, Uploading, UploadFacts, HeldEntries, SnapIds, Doc
  <1>4. CleanInv'
    <2> SUFFICES ASSUME NEW v \in Workers, pc'[v] = "clean", ~flag'[v],
                        NEW i \in job'[cur'[v]].ids \ todo'[v], point'[i] # chunk'[i]
                 PROVE  \E x \in EntryIds \ {cur'[v]} : Live(x)' /\ Covers(x, i)'
      BY DEF CleanInv, CleanFacts
    <2>1. /\ pc[v] = "clean" /\ ~flag[v] /\ cur'[v] = cur[v]
          /\ cur[v] \in EntryIds /\ job[cur[v]] \in Jobs /\ job'[cur[v]] = job[cur[v]]
          /\ i \in job[cur[v]].ids \ todo[v] /\ i \in ChunkIds
      BY HeldFacts DEF Fail, Unlocked, HeldEntries
    <2>2. /\ job[cur[v]].op = "upsert_chunks" /\ home[i] = Doc(v)
      BY <2>1, UploaderFacts DEF Uploading, UploadFacts
    <2>3. point[i] # chunk[i]
      BY DEF Fail, Unlocked
    <2>4. PICK x \in EntryIds \ {cur[v]} : Live(x) /\ Covers(x, i)
      BY <2>1, <2>3 DEF CleanInv, CleanFacts
    <2>5. Covers(x, i)'
      BY <2>4 DEF Fail, Covers
    <2>6. Live(x)'
      BY <2>4 DEF Fail, Live, Settling
    <2> QED
      BY <2>1, <2>4, <2>5, <2>6
  <1>5. CoveredDivergence'
    BY DEF Fail, CoveredDivergence, Live, Covers, Settling
  <1> QED
    BY <1>1, <1>2, <1>3, <1>4, <1>5

\* The entry of a dead worker stays in progress and keeps covering its chunks.
LEMMA CrashStep ==
    ASSUME IInv, TypeOK', NEW w \in Workers, Crash(w)
    PROVE  HeldEntries' /\ RowsAgree' /\ UploadInv' /\ CleanInv' /\ CoveredDivergence'
  <1> USE SentinelAssumption
      DEF IInv, TypeOK, localVars, sqlVars, outboxVars, qdrantVars, Step, Jobs, NoJob
  <1>1. HeldEntries'
    BY DEF Crash, Forget, HeldEntries
  <1>2. RowsAgree'
    BY DEF Crash, RowsAgree, Exists
  <1>3. UploadInv'
    BY DEF Crash, Forget, Unlocked, UploadInv, Uploading, UploadFacts, HeldEntries,
           SnapIds, Doc
  <1>4. CleanInv'
    <2> SUFFICES ASSUME NEW v \in Workers, pc'[v] = "clean", ~flag'[v] PROVE CleanFacts(v)'
      BY DEF CleanInv
    <2>1. /\ pc[v] = "clean" /\ ~flag[v] /\ cur'[v] = cur[v] /\ todo'[v] = todo[v]
          /\ UNCHANGED <<point, chunk, job, home, status>>
      BY DEF Crash, Forget
    <2>2. CleanFacts(v)
      BY <2>1 DEF CleanInv
    <2>3. \A e \in EntryIds : Live(e) => Live(e)'
      BY <2>1 DEF Crash, Forget, Live, Settling
    <2>4. \A e \in EntryIds, k \in ChunkIds : Covers(e, k)' <=> Covers(e, k)
      BY <2>1 DEF Covers
    <2>5. job[cur[v]].ids \subseteq ChunkIds
      BY <2>1, <2>2 DEF CleanFacts, HeldEntries
    <2> QED
      BY <2>1, <2>2, <2>3, <2>4, <2>5 DEF CleanFacts
  <1>5. CoveredDivergence'
    BY DEF Crash, Forget, CoveredDivergence, Live, Covers, Settling
  <1> QED
    BY <1>1, <1>2, <1>3, <1>4, <1>5

\* A recovered entry is pending again: no worker holds it.
LEMMA RecoverStuckStep ==
    ASSUME IInv, TypeOK', ~RecoverLive, NEW e \in EntryIds, RecoverStuck(e)
    PROVE  HeldEntries' /\ RowsAgree' /\ UploadInv' /\ CleanInv' /\ CoveredDivergence'
  <1> USE SentinelAssumption
      DEF IInv, TypeOK, localVars, sqlVars, outboxVars, qdrantVars, Step, Jobs, NoJob
  <1>1. HeldEntries'
    BY DEF RecoverStuck, HeldEntries
  <1>2. RowsAgree'
    BY DEF RecoverStuck, RowsAgree, Exists
  <1>3. UploadInv'
    BY DEF RecoverStuck, UploadInv, Uploading, UploadFacts, SnapIds, Doc
  <1>4. CleanInv'
    <2> SUFFICES ASSUME NEW v \in Workers, pc'[v] = "clean", ~flag'[v],
                        NEW i \in job'[cur'[v]].ids \ todo'[v], point'[i] # chunk'[i]
                 PROVE  \E x \in EntryIds \ {cur'[v]} : Live(x)' /\ Covers(x, i)'
      BY DEF CleanInv, CleanFacts
    <2>1. /\ pc[v] = "clean" /\ ~flag[v] /\ cur'[v] = cur[v]
          /\ cur[v] \in EntryIds /\ job[cur[v]] \in Jobs /\ job'[cur[v]] = job[cur[v]]
          /\ i \in job[cur[v]].ids \ todo[v] /\ i \in ChunkIds
      BY HeldFacts DEF RecoverStuck, HeldEntries
    <2>2. /\ job[cur[v]].op = "upsert_chunks" /\ home[i] = Doc(v)
      BY <2>1, UploaderFacts DEF Uploading, UploadFacts
    <2>3. point[i] # chunk[i]
      BY DEF RecoverStuck
    <2>4. PICK x \in EntryIds \ {cur[v]} : Live(x) /\ Covers(x, i)
      BY <2>1, <2>3 DEF CleanInv, CleanFacts
    <2>5. Covers(x, i)'
      BY <2>4 DEF RecoverStuck, Covers, Live
    <2>6. Live(x)'
      BY <2>4 DEF RecoverStuck, Live, Settling
    <2> QED
      BY <2>1, <2>4, <2>5, <2>6
  <1>5. CoveredDivergence'
    BY DEF RecoverStuck, CoveredDivergence, Live, Covers, Settling
  <1> QED
    BY <1>1, <1>2, <1>3, <1>4, <1>5

\* The status of a document covers nothing.
LEMMA ReconcileIndexingStep ==
    ASSUME IInv, TypeOK', NEW d \in Docs, ReconcileIndexing(d)
    PROVE  HeldEntries' /\ RowsAgree' /\ UploadInv' /\ CleanInv' /\ CoveredDivergence'
  <1> USE SentinelAssumption
      DEF IInv, TypeOK, localVars, sqlVars, outboxVars, qdrantVars, Step, Jobs, NoJob
  <1>1. HeldEntries'
    BY DEF ReconcileIndexing, HeldEntries
  <1>2. RowsAgree'
    BY DEF ReconcileIndexing, RowsAgree, Exists
  <1>3. UploadInv'
    BY DEF ReconcileIndexing, UploadInv, Uploading, UploadFacts, SnapIds, Doc
  <1>4. CleanInv'
    BY DEF ReconcileIndexing, CleanInv, CleanFacts, CoveredDivergence, Live, Covers,
           Settling, Doc
  <1>5. CoveredDivergence'
    BY DEF ReconcileIndexing, CoveredDivergence, Live, Covers, Settling
  <1> QED
    BY <1>1, <1>2, <1>3, <1>4, <1>5

\* A new document has no chunks.
LEMMA CreateDocumentStep ==
    ASSUME IInv, TypeOK', NEW d \in Docs, CreateDocument(d)
    PROVE  HeldEntries' /\ RowsAgree' /\ UploadInv' /\ CleanInv' /\ CoveredDivergence'
  <1> USE SentinelAssumption
      DEF IInv, TypeOK, localVars, sqlVars, outboxVars, qdrantVars, Step, Jobs, NoJob
  <1>1. HeldEntries'
    BY DEF CreateDocument, WriterUnchanged, HeldEntries
  <1>2. RowsAgree'
    BY DEF CreateDocument, WriterUnchanged, RowsAgree, Exists
  <1>3. UploadInv'
    BY DEF CreateDocument, WriterUnchanged, UploadInv, Uploading, UploadFacts, SnapIds, Doc
  <1>4. CleanInv'
    BY SMTT(20) DEF CreateDocument, WriterUnchanged, CleanInv, CleanFacts, Live, Covers, Settling
  <1>5. CoveredDivergence'
    BY DEF CreateDocument, WriterUnchanged, CoveredDivergence, Live, Covers, Settling
  <1> QED
    BY <1>1, <1>2, <1>3, <1>4, <1>5

\* The transaction that inserts a row records the entry that covers it.
LEMMA AddChunkStep ==
    ASSUME IInv, TypeOK', NEW d \in Docs, NEW k \in ChunkIds, NEW c \in Contents, AddChunk(d, k, c)
    PROVE  HeldEntries' /\ RowsAgree' /\ UploadInv' /\ CleanInv' /\ CoveredDivergence'
  <1> USE SentinelAssumption
      DEF IInv, TypeOK, localVars, sqlVars, outboxVars, qdrantVars, Step, Jobs, NoJob
  <1>n. PICK n \in FreeEntries : /\ job' = [job EXCEPT ![n] = UpsertJob(d, {k})]
                                 /\ status' = [status EXCEPT ![n] = "pending"]
    <2>1. NewEntry({}) \in FreeEntries
      BY NewEntryIsFree DEF AddChunk
    <2> QED
      BY <2>1 DEF AddChunk, Enqueue
  <1>j. /\ n \in EntryIds /\ status[n] = "free" /\ status'[n] = "pending"
        /\ UNCHANGED <<point, pc, cur, snap, todo, flag, lock>>
    BY <1>n DEF AddChunk, WriterUnchanged, FreeEntries
  <1>f. Live(n)' /\ \A v \in Workers : cur[v] # n
    BY <1>j, FreshIsLive DEF FreeEntries
  <1>o. ASSUME NEW x \in EntryIds, Live(x), NEW i \in ChunkIds, Covers(x, i),
               home'[i] = home[i] \/ home[i] = NoDoc
        PROVE  Live(x)' /\ Covers(x, i)'
    <2>1. x # n
      BY <1>o, <1>j DEF Live
    <2>2. Live(x)'
      BY <1>o, <1>n, <1>j, <2>1, OldStaysLive
    <2>3. job'[x] = job[x] /\ job[x] # NoJob
      BY <1>o, <1>n, <2>1 DEF Live, RowsAgree
    <2> QED
      BY <1>o, <2>2, <2>3 DEF Covers
  <1>1. HeldEntries'
    BY <1>n, <1>j, <1>f DEF HeldEntries
  <1>2. RowsAgree'
    <2>1. Exists(d) /\ dstat'[d] # "absent" /\ \A b \in Docs : dstat[b] # "absent" => dstat'[b] # "absent"
      BY DEF AddChunk, Exists
    <2>2. \A i \in ChunkIds :
        /\ chunk'[i] # Absent => home'[i] \in Docs /\ dstat'[home'[i]] \notin {"absent", "gone"}
        /\ home'[i] = NoDoc => point'[i] = Absent
        /\ home[i] # NoDoc => home'[i] = home[i]
        /\ (home[i] # NoDoc /\ chunk[i] = Absent) => chunk'[i] = Absent
      BY <1>j, <2>1 DEF AddChunk, FreeChunks, Exists, RowsAgree
    <2>3. \A x \in EntryIds \ {n} : job'[x] = job[x] /\ status'[x] = status[x]
      BY <1>n, <1>j
    <2>4. job'[n] = UpsertJob(d, {k}) /\ job'[n] # NoJob
      BY <1>n, <1>j DEF UpsertJob
    <2>5. \A x \in EntryIds \ {n} : job[x] # NoJob => job[x].doc \in Docs /\ job[x].ids \subseteq ChunkIds
      OBVIOUS
    <2>6. \A x \in EntryIds \ {n} :
            /\ (status'[x] = "free") <=> (job'[x] = NoJob)
            /\ job'[x] # NoJob => dstat'[job'[x].doc] # "absent"
            /\ job'[x].op = "upsert_chunks" => \A i \in job'[x].ids : home'[i] = job'[x].doc
            /\ job'[x].op = "delete_chunks" =>
                 \A i \in job'[x].ids : home'[i] # NoDoc /\ chunk'[i] = Absent
            /\ job'[x].op = "delete_by_document" => dstat'[job'[x].doc] = "gone"
      BY <2>1, <2>2, <2>3, <2>5 DEF RowsAgree, AddChunk, Exists
    <2>7. /\ (status'[n] = "free") <=> (job'[n] = NoJob)
          /\ dstat'[job'[n].doc] # "absent"
          /\ job'[n].op = "upsert_chunks" => \A i \in job'[n].ids : home'[i] = job'[n].doc
          /\ job'[n].op = "delete_chunks" =>
               \A i \in job'[n].ids : home'[i] # NoDoc /\ chunk'[i] = Absent
          /\ job'[n].op = "delete_by_document" => dstat'[job'[n].doc] = "gone"
      BY <1>j, <2>1, <2>4 DEF UpsertJob, AddChunk, ChunksOf
    <2>8. \A x \in EntryIds :
            /\ (status'[x] = "free") <=> (job'[x] = NoJob)
            /\ job'[x] # NoJob => dstat'[job'[x].doc] # "absent"
            /\ job'[x].op = "upsert_chunks" => \A i \in job'[x].ids : home'[i] = job'[x].doc
            /\ job'[x].op = "delete_chunks" =>
                 \A i \in job'[x].ids : home'[i] # NoDoc /\ chunk'[i] = Absent
            /\ job'[x].op = "delete_by_document" => dstat'[job'[x].doc] = "gone"
      BY <1>j, <2>6, <2>7
    <2> QED
      BY <2>2, <2>8 DEF RowsAgree, Exists
  <1>3. UploadInv'
    <2> SUFFICES ASSUME NEW v \in Workers, Uploading(v)' PROVE UploadFacts(v)'
      BY DEF UploadInv
    <2>1. Uploading(v) /\ cur'[v] = cur[v]
      BY <1>j DEF Uploading
    <2>2. /\ UploadFacts(v) /\ cur[v] \in EntryIds /\ cur[v] # n /\ Doc(v) \in Docs
          /\ \A i \in job[cur[v]].ids : i \in ChunkIds /\ home[i] = Doc(v) /\ home[i] # NoDoc
      BY <1>f, <2>1, UploaderFacts
    <2>3. job'[cur[v]] = job[cur[v]]
      BY <1>n, <2>2
    <2>4. \A i \in job[cur[v]].ids : chunk[i] = Absent => chunk'[i] = Absent
      BY <2>2 DEF AddChunk, FreeChunks
    <2>5. dstat[Doc(v)] = "gone" => dstat'[Doc(v)] = "gone"
      BY <2>2 DEF AddChunk
    <2> QED
      BY <1>j, <2>1, <2>2, <2>3, <2>4, <2>5 DEF UploadFacts, SnapIds, Doc
  <1>4. CleanInv'
    <2> SUFFICES ASSUME NEW v \in Workers, pc'[v] = "clean", ~flag'[v],
                        NEW i \in job'[cur'[v]].ids \ todo'[v], point'[i] # chunk'[i]
                 PROVE  \E x \in EntryIds \ {cur'[v]} : Live(x)' /\ Covers(x, i)'
      BY DEF CleanInv, CleanFacts
    <2>1. /\ pc[v] = "clean" /\ ~flag[v] /\ cur'[v] = cur[v] /\ Uploading(v)
      BY <1>j DEF Uploading
    <2>2. /\ cur[v] \in EntryIds /\ i \in job[cur[v]].ids \ todo[v] /\ i \in ChunkIds
          /\ cur[v] # n /\ home[i] = Doc(v) /\ home[i] # NoDoc
      BY <1>n, <1>j, <1>f, <2>1, UploaderFacts
    <2>3. CASE i = k
      BY <1>n, <1>j, <1>f, <2>1, <2>2, <2>3 DEF AddChunk, FreeChunks
    <2>4. CASE ~(i = k)
      <3>1. point[i] # chunk[i] /\ home'[i] = home[i]
        BY <1>j, <2>2, <2>4 DEF AddChunk
      <3>2. PICK x \in EntryIds \ {cur[v]} : Live(x) /\ Covers(x, i)
        BY <2>1, <2>2, <3>1 DEF CleanInv, CleanFacts
      <3> QED
        BY <1>o, <2>1, <2>2, <3>1, <3>2
    <2> QED
      BY <2>3, <2>4
  <1>5. CoveredDivergence'
    <2> SUFFICES ASSUME NEW i \in ChunkIds, point'[i] # chunk'[i]
                 PROVE  \E x \in EntryIds : Live(x)' /\ Covers(x, i)'
      BY DEF CoveredDivergence
    <2>1. CASE i = k
      BY <1>n, <1>j, <1>f, <2>1 DEF UpsertJob, Covers
    <2>2. CASE ~(i = k)
      BY <1>j, <1>o, <2>2 DEF AddChunk, CoveredDivergence
    <2> QED
      BY <2>1, <2>2
  <1> QED
    BY <1>1, <1>2, <1>3, <1>4, <1>5

\* The transaction that edits a row records the entry that covers it.
LEMMA EditChunkStep ==
    ASSUME IInv, TypeOK', NEW d \in Docs, NEW k \in ChunkIds, NEW c \in Contents, EditChunk(d, k, c)
    PROVE  HeldEntries' /\ RowsAgree' /\ UploadInv' /\ CleanInv' /\ CoveredDivergence'
  <1> USE SentinelAssumption
      DEF IInv, TypeOK, localVars, sqlVars, outboxVars, qdrantVars, Step, Jobs, NoJob
  <1>n. PICK n \in FreeEntries : /\ job' = [job EXCEPT ![n] = UpsertJob(d, {k})]
                                 /\ status' = [status EXCEPT ![n] = "pending"]
    <2>1. NewEntry({}) \in FreeEntries
      BY NewEntryIsFree DEF EditChunk
    <2> QED
      BY <2>1 DEF EditChunk, Enqueue
  <1>j. /\ n \in EntryIds /\ status[n] = "free" /\ status'[n] = "pending"
        /\ UNCHANGED <<point, pc, cur, snap, todo, flag, lock>>
    BY <1>n DEF EditChunk, WriterUnchanged, FreeEntries
  <1>f. Live(n)' /\ \A v \in Workers : cur[v] # n
    BY <1>j, FreshIsLive DEF FreeEntries
  <1>o. ASSUME NEW x \in EntryIds, Live(x), NEW i \in ChunkIds, Covers(x, i),
               home'[i] = home[i] \/ home[i] = NoDoc
        PROVE  Live(x)' /\ Covers(x, i)'
    <2>1. x # n
      BY <1>o, <1>j DEF Live
    <2>2. Live(x)'
      BY <1>o, <1>n, <1>j, <2>1, OldStaysLive
    <2>3. job'[x] = job[x] /\ job[x] # NoJob
      BY <1>o, <1>n, <2>1 DEF Live, RowsAgree
    <2> QED
      BY <1>o, <2>2, <2>3 DEF Covers
  <1>1. HeldEntries'
    BY <1>n, <1>j, <1>f DEF HeldEntries
  <1>2. RowsAgree'
    <2>1. Exists(d) /\ dstat'[d] # "absent" /\ \A b \in Docs : dstat[b] # "absent" => dstat'[b] # "absent"
      BY DEF EditChunk, ChunksOf, Exists, RowsAgree
    <2>2. \A i \in ChunkIds :
        /\ chunk'[i] # Absent => home'[i] \in Docs /\ dstat'[home'[i]] \notin {"absent", "gone"}
        /\ home'[i] = NoDoc => point'[i] = Absent
        /\ home[i] # NoDoc => home'[i] = home[i]
        /\ (home[i] # NoDoc /\ chunk[i] = Absent) => chunk'[i] = Absent
      BY <1>j, <2>1 DEF EditChunk, ChunksOf, Exists, RowsAgree
    <2>3. \A x \in EntryIds \ {n} : job'[x] = job[x] /\ status'[x] = status[x]
      BY <1>n, <1>j
    <2>4. job'[n] = UpsertJob(d, {k}) /\ job'[n] # NoJob
      BY <1>n, <1>j DEF UpsertJob
    <2>5. \A x \in EntryIds \ {n} : job[x] # NoJob => job[x].doc \in Docs /\ job[x].ids \subseteq ChunkIds
      OBVIOUS
    <2>6. \A x \in EntryIds \ {n} :
            /\ (status'[x] = "free") <=> (job'[x] = NoJob)
            /\ job'[x] # NoJob => dstat'[job'[x].doc] # "absent"
            /\ job'[x].op = "upsert_chunks" => \A i \in job'[x].ids : home'[i] = job'[x].doc
            /\ job'[x].op = "delete_chunks" =>
                 \A i \in job'[x].ids : home'[i] # NoDoc /\ chunk'[i] = Absent
            /\ job'[x].op = "delete_by_document" => dstat'[job'[x].doc] = "gone"
      BY <2>1, <2>2, <2>3, <2>5 DEF RowsAgree, EditChunk, Exists
    <2>7. /\ (status'[n] = "free") <=> (job'[n] = NoJob)
          /\ dstat'[job'[n].doc] # "absent"
          /\ job'[n].op = "upsert_chunks" => \A i \in job'[n].ids : home'[i] = job'[n].doc
          /\ job'[n].op = "delete_chunks" =>
               \A i \in job'[n].ids : home'[i] # NoDoc /\ chunk'[i] = Absent
          /\ job'[n].op = "delete_by_document" => dstat'[job'[n].doc] = "gone"
      BY <1>j, <2>1, <2>4 DEF UpsertJob, EditChunk, ChunksOf
    <2>8. \A x \in EntryIds :
            /\ (status'[x] = "free") <=> (job'[x] = NoJob)
            /\ job'[x] # NoJob => dstat'[job'[x].doc] # "absent"
            /\ job'[x].op = "upsert_chunks" => \A i \in job'[x].ids : home'[i] = job'[x].doc
            /\ job'[x].op = "delete_chunks" =>
                 \A i \in job'[x].ids : home'[i] # NoDoc /\ chunk'[i] = Absent
            /\ job'[x].op = "delete_by_document" => dstat'[job'[x].doc] = "gone"
      BY <1>j, <2>6, <2>7
    <2> QED
      BY <2>2, <2>8 DEF RowsAgree, Exists
  <1>3. UploadInv'
    <2> SUFFICES ASSUME NEW v \in Workers, Uploading(v)' PROVE UploadFacts(v)'
      BY DEF UploadInv
    <2>1. Uploading(v) /\ cur'[v] = cur[v]
      BY <1>j DEF Uploading
    <2>2. /\ UploadFacts(v) /\ cur[v] \in EntryIds /\ cur[v] # n /\ Doc(v) \in Docs
          /\ \A i \in job[cur[v]].ids : i \in ChunkIds /\ home[i] = Doc(v) /\ home[i] # NoDoc
      BY <1>f, <2>1, UploaderFacts
    <2>3. job'[cur[v]] = job[cur[v]]
      BY <1>n, <2>2
    <2>4. \A i \in job[cur[v]].ids : chunk[i] = Absent => chunk'[i] = Absent
      BY <2>2 DEF EditChunk, ChunksOf
    <2>5. dstat[Doc(v)] = "gone" => dstat'[Doc(v)] = "gone"
      BY <2>2 DEF EditChunk
    <2> QED
      BY <1>j, <2>1, <2>2, <2>3, <2>4, <2>5 DEF UploadFacts, SnapIds, Doc
  <1>4. CleanInv'
    <2> SUFFICES ASSUME NEW v \in Workers, pc'[v] = "clean", ~flag'[v],
                        NEW i \in job'[cur'[v]].ids \ todo'[v], point'[i] # chunk'[i]
                 PROVE  \E x \in EntryIds \ {cur'[v]} : Live(x)' /\ Covers(x, i)'
      BY DEF CleanInv, CleanFacts
    <2>1. /\ pc[v] = "clean" /\ ~flag[v] /\ cur'[v] = cur[v] /\ Uploading(v)
      BY <1>j DEF Uploading
    <2>2. /\ cur[v] \in EntryIds /\ i \in job[cur[v]].ids \ todo[v] /\ i \in ChunkIds
          /\ cur[v] # n /\ home[i] = Doc(v) /\ home[i] # NoDoc
      BY <1>n, <1>j, <1>f, <2>1, UploaderFacts
    <2>3. CASE i = k
      BY <1>n, <1>j, <1>f, <2>1, <2>2, <2>3 DEF UpsertJob, Covers
    <2>4. CASE ~(i = k)
      <3>1. point[i] # chunk[i] /\ home'[i] = home[i]
        BY <1>j, <2>2, <2>4 DEF EditChunk
      <3>2. PICK x \in EntryIds \ {cur[v]} : Live(x) /\ Covers(x, i)
        BY <2>1, <2>2, <3>1 DEF CleanInv, CleanFacts
      <3> QED
        BY <1>o, <2>1, <2>2, <3>1, <3>2
    <2> QED
      BY <2>3, <2>4
  <1>5. CoveredDivergence'
    <2> SUFFICES ASSUME NEW i \in ChunkIds, point'[i] # chunk'[i]
                 PROVE  \E x \in EntryIds : Live(x)' /\ Covers(x, i)'
      BY DEF CoveredDivergence
    <2>1. CASE i = k
      BY <1>n, <1>j, <1>f, <2>1 DEF UpsertJob, Covers
    <2>2. CASE ~(i = k)
      BY <1>j, <1>o, <2>2 DEF EditChunk, CoveredDivergence
    <2> QED
      BY <2>1, <2>2
  <1> QED
    BY <1>1, <1>2, <1>3, <1>4, <1>5

\* The transaction that deletes a row records the deletion of its point.
LEMMA DeleteChunkStep ==
    ASSUME IInv, TypeOK', NEW d \in Docs, NEW k \in ChunkIds, DeleteChunk(d, k)
    PROVE  HeldEntries' /\ RowsAgree' /\ UploadInv' /\ CleanInv' /\ CoveredDivergence'
  <1> USE SentinelAssumption
      DEF IInv, TypeOK, localVars, sqlVars, outboxVars, qdrantVars, Step, Jobs, NoJob
  <1>n. PICK n \in FreeEntries : /\ job' = [job EXCEPT ![n] = DeleteChunksJob(d, {k})]
                                 /\ status' = [status EXCEPT ![n] = "pending"]
    <2>1. NewEntry({}) \in FreeEntries
      BY NewEntryIsFree DEF DeleteChunk
    <2> QED
      BY <2>1 DEF DeleteChunk, Enqueue
  <1>j. /\ n \in EntryIds /\ status[n] = "free" /\ status'[n] = "pending"
        /\ UNCHANGED <<point, pc, cur, snap, todo, flag, lock>>
    BY <1>n DEF DeleteChunk, WriterUnchanged, FreeEntries
  <1>f. Live(n)' /\ \A v \in Workers : cur[v] # n
    BY <1>j, FreshIsLive DEF FreeEntries
  <1>o. ASSUME NEW x \in EntryIds, Live(x), NEW i \in ChunkIds, Covers(x, i),
               home'[i] = home[i] \/ home[i] = NoDoc
        PROVE  Live(x)' /\ Covers(x, i)'
    <2>1. x # n
      BY <1>o, <1>j DEF Live
    <2>2. Live(x)'
      BY <1>o, <1>n, <1>j, <2>1, OldStaysLive
    <2>3. job'[x] = job[x] /\ job[x] # NoJob
      BY <1>o, <1>n, <2>1 DEF Live, RowsAgree
    <2> QED
      BY <1>o, <2>2, <2>3 DEF Covers
  <1>1. HeldEntries'
    BY <1>n, <1>j, <1>f DEF HeldEntries
  <1>2. RowsAgree'
    <2> DEFINE Agree(x) ==
            /\ (status'[x] = "free") <=> (job'[x] = NoJob)
            /\ job'[x] # NoJob => dstat'[job'[x].doc] # "absent"
            /\ job'[x].op = "upsert_chunks" => \A i \in job'[x].ids : home'[i] = job'[x].doc
            /\ job'[x].op = "delete_chunks" =>
                 \A i \in job'[x].ids : home'[i] # NoDoc /\ chunk'[i] = Absent
            /\ job'[x].op = "delete_by_document" => dstat'[job'[x].doc] = "gone"
    <2>1. Exists(d) /\ dstat'[d] # "absent" /\ \A b \in Docs : dstat[b] # "absent" => dstat'[b] # "absent"
      BY DEF DeleteChunk, ChunksOf, Exists, RowsAgree
    <2>2. \A i \in ChunkIds :
        /\ chunk'[i] # Absent => home'[i] \in Docs /\ dstat'[home'[i]] \notin {"absent", "gone"}
        /\ home'[i] = NoDoc => point'[i] = Absent
        /\ home[i] # NoDoc => home'[i] = home[i]
        /\ (home[i] # NoDoc /\ chunk[i] = Absent) => chunk'[i] = Absent
      BY <1>j, <2>1 DEF DeleteChunk, Exists, RowsAgree
    <2>3. \A x \in EntryIds \ {n} : job'[x] = job[x] /\ status'[x] = status[x]
      BY <1>n, <1>j
    <2>4. job'[n] = DeleteChunksJob(d, {k}) /\ job'[n] # NoJob
      BY <1>n, <1>j DEF DeleteChunksJob
    <2>5. \A x \in EntryIds \ {n} : job[x] # NoJob => job[x].doc \in Docs /\ job[x].ids \subseteq ChunkIds
      OBVIOUS
    <2>6. \A x \in EntryIds \ {n} : Agree(x)
      BY <2>1, <2>2, <2>3, <2>5 DEF RowsAgree, DeleteChunk, Exists
    <2>7. Agree(n)
      BY <1>j, <2>1, <2>4 DEF DeleteChunksJob, DeleteChunk, ChunksOf
    <2>8. \A x \in EntryIds : Agree(x)
      <3> HIDE DEF Agree
      <3> QED
        BY <2>6, <2>7
    <2> QED
      BY <2>2, <2>8 DEF RowsAgree, Exists
  <1>3. UploadInv'
    <2> SUFFICES ASSUME NEW v \in Workers, Uploading(v)' PROVE UploadFacts(v)'
      BY DEF UploadInv
    <2>1. Uploading(v) /\ cur'[v] = cur[v]
      BY <1>j DEF Uploading
    <2>2. /\ UploadFacts(v) /\ cur[v] \in EntryIds /\ cur[v] # n /\ Doc(v) \in Docs
          /\ \A i \in job[cur[v]].ids : i \in ChunkIds /\ home[i] = Doc(v) /\ home[i] # NoDoc
      BY <1>f, <2>1, UploaderFacts
    <2>3. job'[cur[v]] = job[cur[v]]
      BY <1>n, <2>2
    <2>4. \A i \in job[cur[v]].ids : chunk[i] = Absent => chunk'[i] = Absent
      BY <2>2 DEF DeleteChunk
    <2>5. dstat[Doc(v)] = "gone" => dstat'[Doc(v)] = "gone"
      BY <2>2 DEF DeleteChunk
    <2> QED
      BY <1>j, <2>1, <2>2, <2>3, <2>4, <2>5 DEF UploadFacts, SnapIds, Doc
  <1>4. CleanInv'
    <2> SUFFICES ASSUME NEW v \in Workers, pc'[v] = "clean", ~flag'[v],
                        NEW i \in job'[cur'[v]].ids \ todo'[v], point'[i] # chunk'[i]
                 PROVE  \E x \in EntryIds \ {cur'[v]} : Live(x)' /\ Covers(x, i)'
      BY DEF CleanInv, CleanFacts
    <2>1. /\ pc[v] = "clean" /\ ~flag[v] /\ cur'[v] = cur[v] /\ Uploading(v)
      BY <1>j DEF Uploading
    <2>2. /\ cur[v] \in EntryIds /\ i \in job[cur[v]].ids \ todo[v] /\ i \in ChunkIds
          /\ cur[v] # n /\ home[i] = Doc(v) /\ home[i] # NoDoc
      BY <1>n, <1>j, <1>f, <2>1, UploaderFacts
    <2>3. CASE i = k
      BY <1>n, <1>j, <1>f, <2>1, <2>2, <2>3 DEF DeleteChunksJob, Covers
    <2>4. CASE ~(i = k)
      <3>1. point[i] # chunk[i] /\ home'[i] = home[i]
        BY <1>j, <2>2, <2>4 DEF DeleteChunk
      <3>2. PICK x \in EntryIds \ {cur[v]} : Live(x) /\ Covers(x, i)
        BY <2>1, <2>2, <3>1 DEF CleanInv, CleanFacts
      <3> QED
        BY <1>o, <2>1, <2>2, <3>1, <3>2
    <2> QED
      BY <2>3, <2>4
  <1>5. CoveredDivergence'
    <2> SUFFICES ASSUME NEW i \in ChunkIds, point'[i] # chunk'[i]
                 PROVE  \E x \in EntryIds : Live(x)' /\ Covers(x, i)'
      BY DEF CoveredDivergence
    <2>1. CASE i = k
      BY <1>n, <1>j, <1>f, <2>1 DEF DeleteChunksJob, Covers
    <2>2. CASE ~(i = k)
      BY <1>j, <1>o, <2>2 DEF DeleteChunk, CoveredDivergence
    <2> QED
      BY <2>1, <2>2
  <1> QED
    BY <1>1, <1>2, <1>3, <1>4, <1>5

\* The transaction that deletes a document records the deletion of its points.
LEMMA DeleteDocumentStep ==
    ASSUME IInv, TypeOK', NEW d \in Docs, DeleteDocument(d)
    PROVE  HeldEntries' /\ RowsAgree' /\ UploadInv' /\ CleanInv' /\ CoveredDivergence'
  <1> USE SentinelAssumption
      DEF IInv, TypeOK, localVars, sqlVars, outboxVars, qdrantVars, Step, Jobs, NoJob
  <1>n. PICK n \in FreeEntries : /\ job' = [job EXCEPT ![n] = DeleteDocJob(d)]
                                 /\ status' = [status EXCEPT ![n] = "pending"]
    <2>1. NewEntry({}) \in FreeEntries
      BY NewEntryIsFree DEF DeleteDocument
    <2> QED
      BY <2>1 DEF DeleteDocument, Enqueue
  <1>j. /\ n \in EntryIds /\ status[n] = "free" /\ status'[n] = "pending"
        /\ UNCHANGED <<point, pc, cur, snap, todo, flag, lock>>
    BY <1>n DEF DeleteDocument, WriterUnchanged, FreeEntries
  <1>f. Live(n)' /\ \A v \in Workers : cur[v] # n
    BY <1>j, FreshIsLive DEF FreeEntries
  <1>o. ASSUME NEW x \in EntryIds, Live(x), NEW i \in ChunkIds, Covers(x, i),
               home'[i] = home[i] \/ home[i] = NoDoc
        PROVE  Live(x)' /\ Covers(x, i)'
    <2>1. x # n
      BY <1>o, <1>j DEF Live
    <2>2. Live(x)'
      BY <1>o, <1>n, <1>j, <2>1, OldStaysLive
    <2>3. job'[x] = job[x] /\ job[x] # NoJob
      BY <1>o, <1>n, <2>1 DEF Live, RowsAgree
    <2> QED
      BY <1>o, <2>2, <2>3 DEF Covers
  <1>1. HeldEntries'
    BY <1>n, <1>j, <1>f DEF HeldEntries
  <1>2. RowsAgree'
    <2>1. Exists(d) /\ dstat'[d] # "absent" /\ \A b \in Docs : dstat[b] # "absent" => dstat'[b] # "absent"
      BY DEF DeleteDocument
    <2>2. \A i \in ChunkIds :
        /\ chunk'[i] # Absent => home'[i] \in Docs /\ dstat'[home'[i]] \notin {"absent", "gone"}
        /\ home'[i] = NoDoc => point'[i] = Absent
        /\ home[i] # NoDoc => home'[i] = home[i]
        /\ (home[i] # NoDoc /\ chunk[i] = Absent) => chunk'[i] = Absent
      BY <1>j, <2>1 DEF DeleteDocument, Exists, RowsAgree
    <2>3. \A x \in EntryIds \ {n} : job'[x] = job[x] /\ status'[x] = status[x]
      BY <1>n, <1>j
    <2>4. job'[n] = DeleteDocJob(d) /\ job'[n] # NoJob
      BY <1>n, <1>j DEF DeleteDocJob
    <2>5. \A x \in EntryIds \ {n} : job[x] # NoJob => job[x].doc \in Docs /\ job[x].ids \subseteq ChunkIds
      OBVIOUS
    <2>6. \A x \in EntryIds \ {n} :
            /\ (status'[x] = "free") <=> (job'[x] = NoJob)
            /\ job'[x] # NoJob => dstat'[job'[x].doc] # "absent"
            /\ job'[x].op = "upsert_chunks" => \A i \in job'[x].ids : home'[i] = job'[x].doc
            /\ job'[x].op = "delete_chunks" =>
                 \A i \in job'[x].ids : home'[i] # NoDoc /\ chunk'[i] = Absent
            /\ job'[x].op = "delete_by_document" => dstat'[job'[x].doc] = "gone"
      BY <2>1, <2>2, <2>3, <2>5 DEF RowsAgree, DeleteDocument, Exists
    <2>7. /\ (status'[n] = "free") <=> (job'[n] = NoJob)
          /\ dstat'[job'[n].doc] # "absent"
          /\ job'[n].op = "upsert_chunks" => \A i \in job'[n].ids : home'[i] = job'[n].doc
          /\ job'[n].op = "delete_chunks" =>
               \A i \in job'[n].ids : home'[i] # NoDoc /\ chunk'[i] = Absent
          /\ job'[n].op = "delete_by_document" => dstat'[job'[n].doc] = "gone"
      BY <1>j, <2>1, <2>4 DEF DeleteDocJob, DeleteDocument, ChunksOf
    <2>8. \A x \in EntryIds :
            /\ (status'[x] = "free") <=> (job'[x] = NoJob)
            /\ job'[x] # NoJob => dstat'[job'[x].doc] # "absent"
            /\ job'[x].op = "upsert_chunks" => \A i \in job'[x].ids : home'[i] = job'[x].doc
            /\ job'[x].op = "delete_chunks" =>
                 \A i \in job'[x].ids : home'[i] # NoDoc /\ chunk'[i] = Absent
            /\ job'[x].op = "delete_by_document" => dstat'[job'[x].doc] = "gone"
      BY <1>j, <2>6, <2>7
    <2> QED
      BY <2>2, <2>8 DEF RowsAgree, Exists
  <1>3. UploadInv'
    <2> SUFFICES ASSUME NEW v \in Workers, Uploading(v)' PROVE UploadFacts(v)'
      BY DEF UploadInv
    <2>1. Uploading(v) /\ cur'[v] = cur[v]
      BY <1>j DEF Uploading
    <2>2. /\ UploadFacts(v) /\ cur[v] \in EntryIds /\ cur[v] # n /\ Doc(v) \in Docs
          /\ \A i \in job[cur[v]].ids : i \in ChunkIds /\ home[i] = Doc(v) /\ home[i] # NoDoc
      BY <1>f, <2>1, UploaderFacts
    <2>3. job'[cur[v]] = job[cur[v]]
      BY <1>n, <2>2
    <2>4. \A i \in job[cur[v]].ids : chunk[i] = Absent => chunk'[i] = Absent
      BY <2>2 DEF DeleteDocument
    <2>5. dstat[Doc(v)] = "gone" => dstat'[Doc(v)] = "gone"
      BY <2>2 DEF DeleteDocument
    <2> QED
      BY <1>j, <2>1, <2>2, <2>3, <2>4, <2>5 DEF UploadFacts, SnapIds, Doc
  <1>4. CleanInv'
    <2> SUFFICES ASSUME NEW v \in Workers, pc'[v] = "clean", ~flag'[v],
                        NEW i \in job'[cur'[v]].ids \ todo'[v], point'[i] # chunk'[i]
                 PROVE  \E x \in EntryIds \ {cur'[v]} : Live(x)' /\ Covers(x, i)'
      BY DEF CleanInv, CleanFacts
    <2>1. /\ pc[v] = "clean" /\ ~flag[v] /\ cur'[v] = cur[v] /\ Uploading(v)
      BY <1>j DEF Uploading
    <2>2. /\ cur[v] \in EntryIds /\ i \in job[cur[v]].ids \ todo[v] /\ i \in ChunkIds
          /\ cur[v] # n /\ home[i] = Doc(v) /\ home[i] # NoDoc
      BY <1>n, <1>j, <1>f, <2>1, UploaderFacts
    <2>3. CASE home[i] = d
      BY <1>n, <1>j, <1>f, <2>1, <2>2, <2>3 DEF DeleteDocument, DeleteDocJob, Covers
    <2>4. CASE ~(home[i] = d)
      <3>1. point[i] # chunk[i] /\ home'[i] = home[i]
        BY <1>j, <2>2, <2>4 DEF DeleteDocument
      <3>2. PICK x \in EntryIds \ {cur[v]} : Live(x) /\ Covers(x, i)
        BY <2>1, <2>2, <3>1 DEF CleanInv, CleanFacts
      <3> QED
        BY <1>o, <2>1, <2>2, <3>1, <3>2
    <2> QED
      BY <2>3, <2>4
  <1>5. CoveredDivergence'
    <2> SUFFICES ASSUME NEW i \in ChunkIds, point'[i] # chunk'[i]
                 PROVE  \E x \in EntryIds : Live(x)' /\ Covers(x, i)'
      BY DEF CoveredDivergence
    <2>1. CASE home[i] = d
      BY <1>n, <1>j, <1>f, <2>1 DEF DeleteDocument, DeleteDocJob, Covers
    <2>2. CASE ~(home[i] = d)
      BY <1>j, <1>o, <2>2 DEF DeleteDocument, CoveredDivergence
    <2> QED
      BY <2>1, <2>2
  <1> QED
    BY <1>1, <1>2, <1>3, <1>4, <1>5

\* A new edition changes no text.
LEMMA SaveVersionStep ==
    ASSUME IInv, TypeOK', NEW d \in Docs, NEW m \in MetaValues, SaveVersion(d, m)
    PROVE  HeldEntries' /\ RowsAgree' /\ UploadInv' /\ CleanInv' /\ CoveredDivergence'
  <1> USE SentinelAssumption
      DEF IInv, TypeOK, localVars, sqlVars, outboxVars, qdrantVars, Step, Jobs, NoJob
  <1>n. PICK n \in FreeEntries : /\ job' = [job EXCEPT ![n] = MetadataJob(d, m)]
                                 /\ status' = [status EXCEPT ![n] = "pending"]
    <2>1. NewEntry({}) \in FreeEntries
      BY NewEntryIsFree DEF SaveVersion
    <2> QED
      BY <2>1 DEF SaveVersion, Enqueue
  <1>j. /\ n \in EntryIds /\ status[n] = "free" /\ status'[n] = "pending"
        /\ UNCHANGED <<point, pc, cur, snap, todo, flag, lock>>
    BY <1>n DEF SaveVersion, WriterUnchanged, FreeEntries
  <1>f. Live(n)' /\ \A v \in Workers : cur[v] # n
    BY <1>j, FreshIsLive DEF FreeEntries
  <1>o. ASSUME NEW x \in EntryIds, Live(x), NEW i \in ChunkIds, Covers(x, i),
               home'[i] = home[i] \/ home[i] = NoDoc
        PROVE  Live(x)' /\ Covers(x, i)'
    <2>1. x # n
      BY <1>o, <1>j DEF Live
    <2>2. Live(x)'
      BY <1>o, <1>n, <1>j, <2>1, OldStaysLive
    <2>3. job'[x] = job[x] /\ job[x] # NoJob
      BY <1>o, <1>n, <2>1 DEF Live, RowsAgree
    <2> QED
      BY <1>o, <2>2, <2>3 DEF Covers
  <1>1. HeldEntries'
    BY <1>n, <1>j, <1>f DEF HeldEntries
  <1>2. RowsAgree'
    <2>1. Exists(d) /\ dstat'[d] # "absent" /\ \A b \in Docs : dstat[b] # "absent" => dstat'[b] # "absent"
      BY DEF SaveVersion, Exists
    <2>2. \A i \in ChunkIds :
        /\ chunk'[i] # Absent => home'[i] \in Docs /\ dstat'[home'[i]] \notin {"absent", "gone"}
        /\ home'[i] = NoDoc => point'[i] = Absent
        /\ home[i] # NoDoc => home'[i] = home[i]
        /\ (home[i] # NoDoc /\ chunk[i] = Absent) => chunk'[i] = Absent
      BY <1>j, <2>1 DEF SaveVersion, Exists, RowsAgree
    <2>3. \A x \in EntryIds \ {n} : job'[x] = job[x] /\ status'[x] = status[x]
      BY <1>n, <1>j
    <2>4. job'[n] = MetadataJob(d, m) /\ job'[n] # NoJob
      BY <1>n, <1>j DEF MetadataJob
    <2>5. \A x \in EntryIds \ {n} : job[x] # NoJob => job[x].doc \in Docs /\ job[x].ids \subseteq ChunkIds
      OBVIOUS
    <2>6. \A x \in EntryIds \ {n} :
            /\ (status'[x] = "free") <=> (job'[x] = NoJob)
            /\ job'[x] # NoJob => dstat'[job'[x].doc] # "absent"
            /\ job'[x].op = "upsert_chunks" => \A i \in job'[x].ids : home'[i] = job'[x].doc
            /\ job'[x].op = "delete_chunks" =>
                 \A i \in job'[x].ids : home'[i] # NoDoc /\ chunk'[i] = Absent
            /\ job'[x].op = "delete_by_document" => dstat'[job'[x].doc] = "gone"
      BY <2>1, <2>2, <2>3, <2>5 DEF RowsAgree, SaveVersion, Exists
    <2>7. /\ (status'[n] = "free") <=> (job'[n] = NoJob)
          /\ dstat'[job'[n].doc] # "absent"
          /\ job'[n].op = "upsert_chunks" => \A i \in job'[n].ids : home'[i] = job'[n].doc
          /\ job'[n].op = "delete_chunks" =>
               \A i \in job'[n].ids : home'[i] # NoDoc /\ chunk'[i] = Absent
          /\ job'[n].op = "delete_by_document" => dstat'[job'[n].doc] = "gone"
      BY <1>j, <2>1, <2>4 DEF MetadataJob, SaveVersion, ChunksOf
    <2>8. \A x \in EntryIds :
            /\ (status'[x] = "free") <=> (job'[x] = NoJob)
            /\ job'[x] # NoJob => dstat'[job'[x].doc] # "absent"
            /\ job'[x].op = "upsert_chunks" => \A i \in job'[x].ids : home'[i] = job'[x].doc
            /\ job'[x].op = "delete_chunks" =>
                 \A i \in job'[x].ids : home'[i] # NoDoc /\ chunk'[i] = Absent
            /\ job'[x].op = "delete_by_document" => dstat'[job'[x].doc] = "gone"
      BY <1>j, <2>6, <2>7
    <2> QED
      BY <2>2, <2>8 DEF RowsAgree, Exists
  <1>3. UploadInv'
    <2> SUFFICES ASSUME NEW v \in Workers, Uploading(v)' PROVE UploadFacts(v)'
      BY DEF UploadInv
    <2>1. Uploading(v) /\ cur'[v] = cur[v]
      BY <1>j DEF Uploading
    <2>2. /\ UploadFacts(v) /\ cur[v] \in EntryIds /\ cur[v] # n /\ Doc(v) \in Docs
          /\ \A i \in job[cur[v]].ids : i \in ChunkIds /\ home[i] = Doc(v) /\ home[i] # NoDoc
      BY <1>f, <2>1, UploaderFacts
    <2>3. job'[cur[v]] = job[cur[v]]
      BY <1>n, <2>2
    <2>4. \A i \in job[cur[v]].ids : chunk[i] = Absent => chunk'[i] = Absent
      BY <2>2 DEF SaveVersion
    <2>5. dstat[Doc(v)] = "gone" => dstat'[Doc(v)] = "gone"
      BY <2>2 DEF SaveVersion
    <2> QED
      BY <1>j, <2>1, <2>2, <2>3, <2>4, <2>5 DEF UploadFacts, SnapIds, Doc
  <1>4. CleanInv'
    <2> SUFFICES ASSUME NEW v \in Workers, pc'[v] = "clean", ~flag'[v],
                        NEW i \in job'[cur'[v]].ids \ todo'[v], point'[i] # chunk'[i]
                 PROVE  \E x \in EntryIds \ {cur'[v]} : Live(x)' /\ Covers(x, i)'
      BY DEF CleanInv, CleanFacts
    <2>1. /\ pc[v] = "clean" /\ ~flag[v] /\ cur'[v] = cur[v] /\ Uploading(v)
      BY <1>j DEF Uploading
    <2>2. /\ cur[v] \in EntryIds /\ i \in job[cur[v]].ids \ todo[v] /\ i \in ChunkIds
          /\ cur[v] # n /\ home[i] = Doc(v) /\ home[i] # NoDoc
      BY <1>n, <1>j, <1>f, <2>1, UploaderFacts
    <2>3. CASE FALSE
      BY <1>n, <1>j, <1>f, <2>1, <2>2, <2>3 DEF SaveVersion
    <2>4. CASE ~(FALSE)
      <3>1. point[i] # chunk[i] /\ home'[i] = home[i]
        BY <1>j, <2>2, <2>4 DEF SaveVersion
      <3>2. PICK x \in EntryIds \ {cur[v]} : Live(x) /\ Covers(x, i)
        BY <2>1, <2>2, <3>1 DEF CleanInv, CleanFacts
      <3> QED
        BY <1>o, <2>1, <2>2, <3>1, <3>2
    <2> QED
      BY <2>3, <2>4
  <1>5. CoveredDivergence'
    <2> SUFFICES ASSUME NEW i \in ChunkIds, point'[i] # chunk'[i]
                 PROVE  \E x \in EntryIds : Live(x)' /\ Covers(x, i)'
      BY DEF CoveredDivergence
    <2>1. CASE FALSE
      BY <1>n, <1>j, <1>f, <2>1 DEF SaveVersion
    <2>2. CASE ~(FALSE)
      BY <1>j, <1>o, <2>2 DEF SaveVersion, CoveredDivergence
    <2> QED
      BY <2>1, <2>2
  <1> QED
    BY <1>1, <1>2, <1>3, <1>4, <1>5

\* A re-ingestion records a deletion for the old rows and an upsert for the new ones.
LEMMA IngestStep ==
    ASSUME IInv, TypeOK', NEW d \in Docs, NEW ids \in SUBSET ChunkIds, NEW text \in [ids -> Contents],
           Ingest(d, ids, text)
    PROVE  HeldEntries' /\ RowsAgree' /\ UploadInv' /\ CleanInv' /\ CoveredDivergence'
  <1> USE SentinelAssumption
      DEF IInv, TypeOK, localVars, sqlVars, outboxVars, qdrantVars, Step, Jobs, NoJob
  <1>n. PICK up \in FreeEntries, new \in SUBSET FreeEntries :
          /\ up \in new
          /\ ChunksOf(d) # {} => new \ {up} # {}
          /\ job' = [e \in EntryIds |-> IF e \notin new THEN job[e]
                                        ELSE IF e = up THEN UpsertJob(d, ids)
                                        ELSE DeleteChunksJob(d, ChunksOf(d))]
          /\ status' = [e \in EntryIds |-> IF e \in new THEN "pending" ELSE status[e]]
    <2> DEFINE u == NewEntry({})
               x == NewEntry({u})
    <2>1. u \in FreeEntries
      BY NewEntryIsFree DEF Ingest
    <2>2. ChunksOf(d) # {} => x \in FreeEntries \ {u}
      BY NewEntryIsFree DEF Ingest
    <2>3. CASE ChunksOf(d) = {}
      <3>1. {u} \in SUBSET FreeEntries
        BY <2>1
      <3>2. /\ job' = [e \in EntryIds |-> IF e \notin {u} THEN job[e] ELSE UpsertJob(d, ids)]
            /\ status' = [e \in EntryIds |-> IF e \in {u} THEN "pending" ELSE status[e]]
        BY <2>3 DEF Ingest
      <3>3. job' = [e \in EntryIds |-> IF e \notin {u} THEN job[e]
                                       ELSE IF e = u THEN UpsertJob(d, ids)
                                       ELSE DeleteChunksJob(d, ChunksOf(d))]
        BY <3>2
      <3> HIDE DEF u
      <3> WITNESS u \in FreeEntries, {u} \in SUBSET FreeEntries
      <3> QED
        BY <2>3, <3>2, <3>3
    <2>4. CASE ChunksOf(d) # {}
      <3>1. {u, x} \in SUBSET FreeEntries
        BY <2>1, <2>2, <2>4
      <3>2. /\ job' = [e \in EntryIds |-> IF e \notin {u, x} THEN job[e]
                                       ELSE IF e = u THEN UpsertJob(d, ids)
                                       ELSE DeleteChunksJob(d, ChunksOf(d))]
            /\ status' = [e \in EntryIds |-> IF e \in {u, x} THEN "pending" ELSE status[e]]
        BY <2>4 DEF Ingest
      <3> HIDE DEF u, x
      <3> WITNESS u \in FreeEntries, {u, x} \in SUBSET FreeEntries
      <3>3. u \in {u, x} /\ {u, x} \ {u} # {}
        BY <2>2, <2>4
      <3> QED
        BY <3>1, <3>2, <3>3
    <2> QED
      BY <2>3, <2>4
  <1>j. /\ \A e \in new : e \in EntryIds /\ status[e] = "free" /\ status'[e] = "pending"
        /\ \A e \in EntryIds \ new : job'[e] = job[e] /\ status'[e] = status[e]
        /\ job'[up] = UpsertJob(d, ids)
        /\ \A e \in new \ {up} : job'[e] = DeleteChunksJob(d, ChunksOf(d))
        /\ UNCHANGED <<point, pc, cur, snap, todo, flag, lock>>
    BY <1>n DEF Ingest, WriterUnchanged, FreeEntries
  <1>c. /\ Exists(d) /\ dstat' = [dstat EXCEPT ![d] = "indexing"]
        /\ \A i \in ids : home[i] = NoDoc /\ home'[i] = d /\ chunk'[i] # Absent
        /\ \A i \in ChunkIds \ ids : home'[i] = home[i]
        /\ \A i \in ChunksOf(d) : home[i] = d /\ i \in ChunkIds \ ids /\ chunk'[i] = Absent
        /\ \A i \in ChunkIds \ (ids \cup ChunksOf(d)) : chunk'[i] = chunk[i]
    BY DEF Ingest, FreeChunks, ChunksOf
  <1>f. \A e \in new : Live(e)' /\ \A v \in Workers : cur[v] # e
    BY <1>n, <1>j, FreshIsLive DEF FreeEntries
  <1>o. ASSUME NEW x \in EntryIds, Live(x), NEW i \in ChunkIds, Covers(x, i),
               home'[i] = home[i] \/ home[i] = NoDoc
        PROVE  Live(x)' /\ Covers(x, i)'
    <2>1. x \notin new
      BY <1>o, <1>j DEF Live
    <2>2. Live(x)'
      BY <1>o, <1>j, <2>1, OldStaysLive
    <2>3. job'[x] = job[x] /\ job[x] # NoJob
      BY <1>o, <1>j, <2>1 DEF Live, RowsAgree
    <2> QED
      BY <1>o, <2>2, <2>3 DEF Covers
  <1>t. \A i \in ids \cup ChunksOf(d) : \E e \in new : Covers(e, i)'
    <2>1. \A i \in ids : Covers(up, i)'
      BY <1>n, <1>j DEF UpsertJob, Covers
    <2>2. \A i \in ChunksOf(d) : \E e \in new \ {up} : Covers(e, i)'
      <3> SUFFICES ASSUME NEW i \in ChunksOf(d) PROVE \E e \in new \ {up} : Covers(e, i)'
        OBVIOUS
      <3>1. PICK e \in new \ {up} : TRUE
        BY <1>n
      <3>2. job'[e].op = "delete_chunks" /\ job'[e].ids = ChunksOf(d)
        BY <1>j DEF DeleteChunksJob
      <3> QED
        BY <3>2 DEF Covers
    <2> QED
      BY <1>n, <2>1, <2>2
  <1>1. HeldEntries'
    BY <1>j, <1>f DEF HeldEntries
  <1>2. RowsAgree'
    <2>1. \A b \in Docs : dstat[b] # "absent" => dstat'[b] # "absent"
      BY <1>c
    <2>2. \A i \in ChunkIds :
        /\ chunk'[i] # Absent => home'[i] \in Docs /\ dstat'[home'[i]] \notin {"absent", "gone"}
        /\ home'[i] = NoDoc => point'[i] = Absent
        /\ home[i] # NoDoc => home'[i] = home[i]
        /\ (home[i] # NoDoc /\ chunk[i] = Absent) => chunk'[i] = Absent
      BY <1>j, <1>c DEF RowsAgree, Exists, ChunksOf
    <2>3. \A x \in EntryIds : job[x] # NoJob => job[x].doc \in Docs /\ job[x].ids \subseteq ChunkIds
      OBVIOUS
    <2>4. \A x \in EntryIds \ new :
            /\ (status'[x] = "free") <=> (job'[x] = NoJob)
            /\ job'[x] # NoJob => dstat'[job'[x].doc] # "absent"
            /\ job'[x].op = "upsert_chunks" => \A i \in job'[x].ids : home'[i] = job'[x].doc
            /\ job'[x].op = "delete_chunks" =>
                 \A i \in job'[x].ids : home'[i] # NoDoc /\ chunk'[i] = Absent
            /\ job'[x].op = "delete_by_document" => dstat'[job'[x].doc] = "gone"
      BY <1>j, <1>c, <2>1, <2>2, <2>3 DEF RowsAgree, Exists
    <2>5. /\ status'[up] # "free" /\ job'[up] # NoJob /\ job'[up].op = "upsert_chunks"
          /\ dstat'[job'[up].doc] # "absent"
          /\ \A i \in job'[up].ids : home'[i] = job'[up].doc
      <3>1. job'[up] = [op |-> "upsert_chunks", doc |-> d, ids |-> ids, meta |-> vmeta[d]]
        BY <1>j DEF UpsertJob
      <3>2. job'[up].op = "upsert_chunks" /\ job'[up].doc = d /\ job'[up].ids = ids
        BY <3>1
      <3>3. job'[up] # NoJob /\ status'[up] = "pending"
        BY <1>n, <1>j, <3>2
      <3>4. dstat'[d] = "indexing" /\ \A i \in ids : home'[i] = d
        BY <1>c
      <3> QED
        BY <3>2, <3>3, <3>4
    <2>6. \A x \in new \ {up} :
          /\ status'[x] # "free" /\ job'[x] # NoJob /\ job'[x].op = "delete_chunks"
          /\ dstat'[job'[x].doc] # "absent"
          /\ \A i \in job'[x].ids : home'[i] # NoDoc /\ chunk'[i] = Absent
      <3>1. \A x \in new \ {up} :
              job'[x] = [op |-> "delete_chunks", doc |-> d, ids |-> ChunksOf(d), meta |-> NoMeta]
        BY <1>j DEF DeleteChunksJob
      <3>2. dstat'[d] = "indexing" /\ \A i \in ChunksOf(d) : home'[i] # NoDoc /\ chunk'[i] = Absent
        BY <1>c
      <3> TAKE x \in new \ {up}
      <3>3. job'[x].op = "delete_chunks" /\ job'[x].doc = d /\ job'[x].ids = ChunksOf(d)
        BY <3>1
      <3>4. job'[x] # NoJob /\ status'[x] = "pending"
        BY <1>j, <3>3
      <3> QED
        BY <3>2, <3>3, <3>4
    <2> QED
      BY <2>2, <2>4, <2>5, <2>6 DEF RowsAgree, Exists
  <1>3. UploadInv'
    <2> SUFFICES ASSUME NEW v \in Workers, Uploading(v)' PROVE UploadFacts(v)'
      BY DEF UploadInv
    <2>1. Uploading(v) /\ cur'[v] = cur[v]
      BY <1>j DEF Uploading
    <2>2. /\ UploadFacts(v) /\ cur[v] \in EntryIds /\ cur[v] \notin new /\ Doc(v) \in Docs
          /\ \A i \in job[cur[v]].ids : i \in ChunkIds /\ home[i] = Doc(v) /\ home[i] # NoDoc
      BY <1>f, <2>1, UploaderFacts
    <2>3. job'[cur[v]] = job[cur[v]]
      BY <1>j, <2>2
    <2>4. \A i \in job[cur[v]].ids : chunk[i] = Absent => chunk'[i] = Absent
      BY <1>c, <2>2 DEF ChunksOf
    <2>5. dstat[Doc(v)] = "gone" => dstat'[Doc(v)] = "gone"
      BY <1>c, <2>2 DEF Exists
    <2> QED
      BY <1>j, <2>1, <2>2, <2>3, <2>4, <2>5 DEF UploadFacts, SnapIds, Doc
  <1>4. CleanInv'
    <2> SUFFICES ASSUME NEW v \in Workers, pc'[v] = "clean", ~flag'[v],
                        NEW i \in job'[cur'[v]].ids \ todo'[v], point'[i] # chunk'[i]
                 PROVE  \E x \in EntryIds \ {cur'[v]} : Live(x)' /\ Covers(x, i)'
      BY DEF CleanInv, CleanFacts
    <2>1. /\ pc[v] = "clean" /\ ~flag[v] /\ cur'[v] = cur[v] /\ Uploading(v)
      BY <1>j DEF Uploading
    <2>2. /\ cur[v] \in EntryIds /\ cur[v] \notin new
          /\ i \in job[cur[v]].ids \ todo[v] /\ i \in ChunkIds
      BY <1>j, <1>f, <2>1, UploaderFacts
    <2>3. CASE i \in ids \cup ChunksOf(d)
      <3>1. PICK e \in new : Covers(e, i)'
        BY <1>t, <2>3
      <3>2. e \in EntryIds /\ e # cur'[v] /\ Live(e)'
        BY <1>j, <1>f, <2>1
      <3> QED
        BY <3>1, <3>2
    <2>4. CASE i \notin ids \cup ChunksOf(d)
      <3>1. point[i] # chunk[i] /\ home'[i] = home[i]
        BY <1>j, <1>c, <2>2, <2>4
      <3>2. PICK x \in EntryIds \ {cur[v]} : Live(x) /\ Covers(x, i)
        BY <2>1, <2>2, <3>1 DEF CleanInv, CleanFacts
      <3> QED
        BY <1>o, <2>1, <2>2, <3>1, <3>2
    <2> QED
      BY <2>3, <2>4
  <1>5. CoveredDivergence'
    <2> SUFFICES ASSUME NEW i \in ChunkIds, point'[i] # chunk'[i]
                 PROVE  \E x \in EntryIds : Live(x)' /\ Covers(x, i)'
      BY DEF CoveredDivergence
    <2>1. CASE i \in ids \cup ChunksOf(d)
      BY <1>j, <1>f, <1>t, <2>1
    <2>2. CASE i \notin ids \cup ChunksOf(d)
      BY <1>j, <1>c, <1>o, <2>2 DEF CoveredDivergence
    <2> QED
      BY <2>1, <2>2
  <1> QED
    BY <1>1, <1>2, <1>3, <1>4, <1>5

-----------------------------------------------------------------------------
(* The invariant, put together. *)

\* Initially there is nothing to cover.
LEMMA InvInit == Init => IInv
  <1> SUFFICES ASSUME Init PROVE IInv
    OBVIOUS
  <1>1. TypeOK
    BY TypeInit DEF TypeInv
  <1> QED
    BY <1>1
       DEF Init, IInv, HeldEntries, RowsAgree, UploadInv, CleanInv, CoveredDivergence,
           Uploading, NoJob

\* Every step preserves the invariant while reads are committed and no live worker is
\* overtaken.
LEMMA InvNext == ASSUME ~RecoverLive, ~HasReplica, IInv, [Next]_vars PROVE IInv'
  <1>t. TypeOK'
    <2>1. TypeInv
      <3>1. \A e \in EntryIds : status[e] # "free" => job[e] \in Jobs
        BY DEF IInv, TypeOK, RowsAgree
      <3>2. \A w \in Workers : pc[w] # "idle" => cur[w] # NoEntry /\ job[cur[w]] \in Jobs
        BY HeldFacts DEF IInv, HeldEntries
      <3> QED
        BY <3>1, <3>2 DEF IInv, TypeInv
    <2> QED
      BY <2>1, TypeNext DEF TypeInv
  <1>1. ASSUME NEW d \in Docs, Writer(d) PROVE IInv'
    BY <1>t, <1>1, CreateDocumentStep, IngestStep, AddChunkStep, EditChunkStep,
       DeleteChunkStep, DeleteDocumentStep, SaveVersionStep
       DEF Writer, IInv
  <1>2. ASSUME NEW w \in Workers, Worker(w) PROVE IInv'
    <2>1. ASSUME Proceed(w) PROVE IInv'
      BY <1>t, <2>1, ApplyDeleteStep, StartUpsertStep, PurgeObsoleteStep, UploadBatchStep,
         UploadEndsStep, VerifyStep, CleanUploadedStep, ReadVersionStep, PatchVersionStep,
         CountByDocumentStep, CommitDoneStep, MarkFailedStep
         DEF Proceed, IInv
    <2> QED
      BY <1>t, <1>2, <2>1, ClaimStep, FailStep, CrashStep DEF Worker, IInv
  <1>3. ASSUME NEW e \in EntryIds, RecoverStuck(e) PROVE IInv'
    BY <1>t, <1>3, RecoverStuckStep DEF IInv
  <1>4. ASSUME NEW d \in Docs, ReconcileIndexing(d) PROVE IInv'
    BY <1>t, <1>4, ReconcileIndexingStep DEF IInv
  <1>5. CASE ReplicaCatchUp
    BY <1>5 DEF ReplicaCatchUp
  <1>6. CASE UNCHANGED vars
    BY <1>t, <1>6
       DEF vars, IInv, HeldEntries, RowsAgree, Exists, UploadInv, Uploading, UploadFacts,
           SnapIds, Doc, CleanInv, CleanFacts, CoveredDivergence, Live, Settling, Covers
  <1> QED
    BY <1>1, <1>2, <1>3, <1>4, <1>5, <1>6 DEF Next

\* The inductive invariant holds for any numbers of documents, chunks, entries and
\* workers and any failures and crashes, while reads are committed and no live worker is
\* overtaken.
THEOREM SyncInvariant == ASSUME ~RecoverLive, ~HasReplica PROVE Spec => []IInv
  <1>1. Init => IInv
    BY InvInit
  <1>2. IInv /\ [Next]_vars => IInv'
    BY InvNext
  <1> QED
    BY <1>1, <1>2, PTL DEF Spec

\* No divergence between a point and its row is ever forgotten.
THEOREM DivergenceIsCovered == ASSUME ~RecoverLive, ~HasReplica PROVE Spec => []CoveredDivergence
  <1>1. IInv => CoveredDivergence
    BY DEF IInv
  <1> QED
    BY <1>1, SyncInvariant, PTL

\* When everything that covers a chunk is done, the index holds its committed
\* content, or nothing when its row is gone.
THEOREM IndexConverges == ASSUME ~RecoverLive, ~HasReplica PROVE Spec => []IndexMatchesCorpus
  <1>1. CoveredDivergence => IndexMatchesCorpus
    BY DEF CoveredDivergence, IndexMatchesCorpus, Quiet, Live
  <1> QED
    BY <1>1, DivergenceIsCovered, PTL

-----------------------------------------------------------------------------
(* NothingDeletedServed, with lagging replicas and overtaken workers: nothing *)
(* here depends on the advisory lock, nor on one worker per entry.            *)

\* The next write of worker w to a point of a deleted chunk k removes it.
WillRemove(w, k) ==
    \/ pc[w] \in {"claimed", "failing"}
    \/ pc[w] = "purge" /\ k \notin SnapIds(w)

\* No worker has done the removal that entry e promises for chunk k.
Unapplied(e, k) ==
    /\ status[e] \notin {"free", "done"}
    /\ Covers(e, k)
    /\ \A w \in Workers : cur[w] = e => WillRemove(w, k)

\* Worker w may have uploaded chunk k and will clean up after itself, or fail.
WillClean(w, k) ==
    \/ pc[w] \in {"upload", "verify"} /\ k \in SnapIds(w)
    \/ pc[w] = "clean" /\ k \in todo[w]
    \/ pc[w] = "failing" /\ Covers(cur[w], k)

\* The text of a chunk without a row is in the index.
Stale(k) == chunk[k] = Absent /\ point[k] # Absent

Remedied(k) ==
    \/ RecoverLive /\ Disturbed(k)
    \/ \E e \in EntryIds : Unapplied(e, k)
    \/ \E w \in Workers : WillClean(w, k)

\* A busy worker holds a recorded entry, alone unless it can be overtaken.
Holders ==
    /\ \A w \in Workers : /\ (pc[w] = "idle") <=> (cur[w] = NoEntry)
                          /\ cur[w] # NoEntry => status[cur[w]] # "free"
    /\ ~RecoverLive => HeldEntries

\* Points and payloads are of chunks that were inserted, for their document.
Inserted ==
    /\ \A k \in ChunkIds : home[k] = NoDoc => point[k] = Absent
    /\ \A e \in EntryIds :
        /\ (status[e] = "free") <=> (job[e] = NoJob)
        /\ job[e].op = "upsert_chunks" => \A k \in job[e].ids : home[k] = job[e].doc

\* An uploading worker uploads chunks of its payload that it has read.
Snapshots ==
    \A w \in Workers : Uploading(w) =>
        /\ job[cur[w]].op = "upsert_chunks"
        /\ SnapIds(w) \subseteq job[cur[w]].ids
        /\ pc[w] # "purge" => todo[w] \subseteq SnapIds(w)

\* A text without a row is always about to be removed.
DeletionsCovered == \A k \in ChunkIds : Stale(k) => Remedied(k)

DeletionInv == Holders /\ Inserted /\ Snapshots /\ DeletionsCovered

\* The types, and the invariant of the deletions.
StaleInv == TypeOK /\ DeletionInv

\* A busy worker's entry is recorded and has a job.
LEMMA HolderEntry ==
    ASSUME StaleInv, NEW w \in Workers, pc[w] # "idle"
    PROVE  /\ cur[w] \in EntryIds /\ status[cur[w]] # "free"
           /\ job[cur[w]] \in Jobs /\ Doc(w) \in Docs
  BY SentinelAssumption DEF StaleInv, TypeOK, DeletionInv, Holders, Inserted, Jobs, Doc

\* Everything covers the same chunks as long as the payloads and homes stay.
LEMMA CoversStay ==
    ASSUME UNCHANGED <<job, home>>
    PROVE  \A e, k : Covers(e, k)' = Covers(e, k)
  BY DEF Covers

\* A step of one worker at its entry keeps the invariant if the worker keeps what
\* it has promised for the stale points, and uploads only what it has read.
LEMMA MoveKeeps ==
    ASSUME StaleInv, TypeOK', NEW w \in Workers, pc[w] # "idle", NEW q \in PcValues \ {"idle"},
           Step(w, q), UNCHANGED <<home, chunk, job, status, attempts, cur, crashes>>,
           \A v \in Workers \ {w} : snap'[v] = snap[v] /\ todo'[v] = todo[v],
           \A k \in ChunkIds : point[k] = Absent /\ point'[k] # Absent => home[k] # NoDoc,
           q \in {"purge", "upload", "verify", "clean"} =>
               /\ job[cur[w]].op = "upsert_chunks"
               /\ SnapIds(w)' \subseteq job[cur[w]].ids
               /\ q # "purge" => todo'[w] \subseteq SnapIds(w)',
           \A k \in ChunkIds : Stale(k)' =>
               /\ Stale(k) \/ WillClean(w, k)'
               /\ WillClean(w, k) => WillClean(w, k)'
               /\ WillRemove(w, k) /\ Covers(cur[w], k) => WillRemove(w, k)'
    PROVE  DeletionInv'
  <1>t. /\ pc \in [Workers -> PcValues] /\ pc' = [pc EXCEPT ![w] = q]
        /\ \A v \in Workers \ {w} : pc'[v] = pc[v]
        /\ pc'[w] = q
    BY DEF StaleInv, TypeOK, Step
  <1>c. \A e, k : Covers(e, k)' = Covers(e, k)
    BY CoversStay
  <1>1. Holders'
    BY <1>t DEF StaleInv, DeletionInv, Holders, HeldEntries
  <1>2. Inserted'
    BY DEF StaleInv, DeletionInv, Inserted
  <1>3. Snapshots'
    BY <1>t DEF StaleInv, DeletionInv, Snapshots, Uploading, SnapIds
  <1>4. ASSUME NEW k \in ChunkIds, Stale(k)' PROVE Remedied(k)'
    <2>1. \A v \in Workers \ {w} : /\ WillClean(v, k) => WillClean(v, k)'
                                   /\ WillRemove(v, k) => WillRemove(v, k)'
      BY <1>t, <1>c DEF WillClean, WillRemove, SnapIds
    <2>2. Stale(k) \/ WillClean(w, k)'
      BY <1>4
    <2>3. CASE WillClean(w, k)'
      BY <2>3 DEF Remedied
    <2>4. CASE Stale(k)
      <3>1. Remedied(k)
        BY <2>4 DEF StaleInv, DeletionInv, DeletionsCovered
      <3>2. CASE RecoverLive /\ Disturbed(k)
        BY <3>2, <1>c DEF Remedied, Disturbed
      <3>3. ASSUME NEW e \in EntryIds, Unapplied(e, k) PROVE Remedied(k)'
        <4>1. \A v \in Workers : cur[v] = e => WillRemove(v, k)'
          BY <2>1, <1>4, <3>3 DEF Unapplied
        <4> QED
          BY <4>1, <3>3, <1>c DEF Unapplied, Remedied
      <3>4. ASSUME NEW v \in Workers, WillClean(v, k) PROVE Remedied(k)'
        BY <3>4, <2>1, <1>4 DEF Remedied
      <3> QED
        BY <3>1, <3>2, <3>3, <3>4 DEF Remedied
    <2> QED
      BY <2>2, <2>3, <2>4
  <1> QED
    BY <1>1, <1>2, <1>3, <1>4 DEF DeletionInv, DeletionsCovered

\* A deletion removes every point that its entry covers.
LEMMA ApplyDeleteClears ==
    ASSUME StaleInv, TypeOK', NEW w \in Workers, ApplyDelete(w) PROVE DeletionInv'
  <1>1. pc[w] = "claimed" /\ cur[w] \in EntryIds /\ job[cur[w]] \in Jobs
    BY HolderEntry DEF ApplyDelete
  <1>2. \A k \in ChunkIds : Covers(cur[w], k) => point'[k] = Absent
    BY <1>1 DEF ApplyDelete, Covers, Remove, DeleteTargets, Doc
  <1>3. \A k \in ChunkIds : point'[k] # Absent => point'[k] = point[k]
    BY DEF ApplyDelete, Remove
  <1>4. \A k \in ChunkIds : Stale(k)' => Stale(k) /\ ~WillClean(w, k) /\ ~Covers(cur[w], k)
    BY <1>1, <1>2, <1>3 DEF Stale, WillClean, ApplyDelete, sqlVars
  <1> QED
    BY <1>1, <1>3, <1>4, MoveKeeps
       DEF ApplyDelete, sqlVars, outboxVars, localVars, PcValues

\* The rows that the worker reads hold no deleted chunk.
LEMMA StartUpsertReads ==
    ASSUME StaleInv, TypeOK', NEW w \in Workers, StartUpsert(w) PROVE DeletionInv'
  <1>1. pc[w] = "claimed" /\ cur[w] \in EntryIds /\ job[cur[w]] \in Jobs
    BY HolderEntry DEF StartUpsert
  <1>2. /\ SnapIds(w)' \subseteq job[cur[w]].ids
        /\ \A k \in ChunkIds : chunk[k] = Absent => k \notin SnapIds(w)'
        /\ \A v \in Workers \ {w} : snap'[v] = snap[v]
    BY DEF StartUpsert, SnapIds, StaleInv, TypeOK
  <1>3. pc'[w] = "purge"
    BY DEF StartUpsert, Step, StaleInv, TypeOK
  <1>4. \A k \in ChunkIds : Stale(k)' =>
            Stale(k) /\ ~WillClean(w, k) /\ WillRemove(w, k)'
    BY <1>1, <1>2, <1>3 DEF Stale, WillClean, WillRemove, StartUpsert, sqlVars, qdrantVars
  <1> QED
    BY <1>1, <1>2, <1>4, MoveKeeps
       DEF StartUpsert, sqlVars, outboxVars, qdrantVars, PcValues

\* Ids of the payload without a row lose their points.
LEMMA PurgeObsoleteClears ==
    ASSUME StaleInv, TypeOK', NEW w \in Workers, PurgeObsolete(w) PROVE DeletionInv'
  <1>1. /\ pc[w] = "purge" /\ cur[w] \in EntryIds /\ job[cur[w]] \in Jobs
        /\ job[cur[w]].op = "upsert_chunks" /\ SnapIds(w) \subseteq job[cur[w]].ids
    BY HolderEntry DEF PurgeObsolete, StaleInv, DeletionInv, Snapshots, Uploading
  <1>2. /\ \A k \in ChunkIds : point'[k] # Absent => point'[k] = point[k]
        /\ \A k \in job[cur[w]].ids \ SnapIds(w) : k \in ChunkIds => point'[k] = Absent
    BY DEF PurgeObsolete, Remove
  <1>3. \A k \in ChunkIds : Stale(k)' =>
            Stale(k) /\ ~WillClean(w, k) /\ ~(WillRemove(w, k) /\ Covers(cur[w], k))
    BY <1>1, <1>2 DEF Stale, WillClean, WillRemove, Covers, PurgeObsolete, sqlVars
  <1>4. /\ snap' = snap /\ SnapIds(w)' = SnapIds(w) /\ todo'[w] = SnapIds(w)
        /\ \A v \in Workers \ {w} : todo'[v] = todo[v]
    BY DEF PurgeObsolete, SnapIds, StaleInv, TypeOK
  <1>5. PICK q \in {"applied", "upload"} : Step(w, q)
    BY DEF PurgeObsolete
  <1>6. UNCHANGED <<home, chunk, job, status, attempts, cur, crashes>>
    BY DEF PurgeObsolete, sqlVars, outboxVars
  <1> QED
    BY <1>1, <1>2, <1>3, <1>4, <1>5, <1>6, MoveKeeps DEF PcValues

\* What is uploaded has been read, and is checked after the upload.
LEMMA UploadBatchRemembers ==
    ASSUME StaleInv, TypeOK', NEW w \in Workers, NEW i \in ChunkIds, UploadBatch(w, i)
    PROVE  DeletionInv'
  <1>1. /\ pc[w] = "upload" /\ cur[w] \in EntryIds /\ job[cur[w]] \in Jobs
        /\ job[cur[w]].op = "upsert_chunks" /\ SnapIds(w) \subseteq job[cur[w]].ids
        /\ todo[w] \subseteq SnapIds(w) /\ i \in todo[w]
    BY HolderEntry DEF UploadBatch, StaleInv, DeletionInv, Snapshots, Uploading
  <1>2. home[i] # NoDoc
    BY <1>1, SentinelAssumption DEF StaleInv, DeletionInv, Inserted, Jobs
  <1>3. /\ snap' = snap /\ SnapIds(w)' = SnapIds(w) /\ todo'[w] \subseteq todo[w]
        /\ \A v \in Workers \ {w} : todo'[v] = todo[v]
        /\ \A k \in ChunkIds \ {i} : point'[k] = point[k]
        /\ pc' = pc
    BY DEF UploadBatch, SnapIds, StaleInv, TypeOK
  <1>4. Step(w, "upload")
    BY <1>1, <1>3 DEF Step, StaleInv, TypeOK
  <1>5. WillClean(w, i)'
    BY <1>1, <1>3 DEF WillClean
  <1>6. UNCHANGED <<home, chunk, job, status, attempts, cur, crashes>>
    BY DEF UploadBatch, sqlVars, outboxVars
  <1>7. \A k \in ChunkIds : Stale(k)' =>
            /\ Stale(k) \/ WillClean(w, k)'
            /\ WillClean(w, k) => WillClean(w, k)'
            /\ ~WillRemove(w, k)
    BY <1>1, <1>3, <1>5, <1>6 DEF Stale, WillClean, WillRemove
  <1> QED
    BY <1>1, <1>2, <1>3, <1>4, <1>6, <1>7, MoveKeeps DEF PcValues

\* The uploaded chunks are still to be checked.
LEMMA UploadEndsRemembers ==
    ASSUME StaleInv, TypeOK', NEW w \in Workers, UploadEnds(w) PROVE DeletionInv'
  <1>1. /\ pc[w] = "upload" /\ job[cur[w]].op = "upsert_chunks"
        /\ SnapIds(w) \subseteq job[cur[w]].ids /\ todo[w] \subseteq SnapIds(w)
    BY DEF UploadEnds, StaleInv, DeletionInv, Snapshots, Uploading
  <1>2. Step(w, "verify") /\ pc'[w] = "verify"
    BY DEF UploadEnds, Step, StaleInv, TypeOK
  <1>3. UNCHANGED <<home, chunk, job, status, attempts, cur, snap, todo, point, crashes>>
    BY DEF UploadEnds, sqlVars, outboxVars, qdrantVars, localVars
  <1>4. SnapIds(w)' = SnapIds(w)
    BY <1>3 DEF SnapIds
  <1>5. \A k \in ChunkIds : Stale(k)' =>
            Stale(k) /\ (WillClean(w, k) => WillClean(w, k)') /\ ~WillRemove(w, k)
    BY <1>1, <1>2, <1>3, <1>4 DEF Stale, WillClean, WillRemove
  <1> QED
    BY <1>1, <1>2, <1>3, <1>4, <1>5, MoveKeeps DEF PcValues

\* The check finds every uploaded chunk whose row has vanished.
LEMMA VerifyFinds ==
    ASSUME StaleInv, TypeOK', NEW w \in Workers, Verify(w) PROVE DeletionInv'
  <1>1. /\ pc[w] = "verify" /\ job[cur[w]].op = "upsert_chunks"
        /\ SnapIds(w) \subseteq job[cur[w]].ids
    BY DEF Verify, StaleInv, DeletionInv, Snapshots, Uploading
  <1>2. Step(w, "clean") /\ pc'[w] = "clean"
    BY DEF Verify, Step, StaleInv, TypeOK
  <1>3. UNCHANGED <<home, chunk, job, status, attempts, cur, snap, point, crashes>>
    BY DEF Verify, sqlVars, outboxVars, qdrantVars
  <1>4. /\ SnapIds(w)' = SnapIds(w)
        /\ todo'[w] = {k \in SnapIds(w) : chunk[k] = Absent}
        /\ \A v \in Workers \ {w} : todo'[v] = todo[v]
    BY <1>3 DEF SnapIds, Verify, StaleInv, TypeOK
  <1>5. \A k \in ChunkIds : Stale(k)' =>
            Stale(k) /\ (WillClean(w, k) => WillClean(w, k)') /\ ~WillRemove(w, k)
    BY <1>1, <1>2, <1>3, <1>4 DEF Stale, WillClean, WillRemove
  <1> QED
    BY <1>1, <1>2, <1>3, <1>4, <1>5, MoveKeeps DEF PcValues

\* The points of vanished chunks are removed before the worker goes on.
LEMMA CleanUploadedClears ==
    ASSUME StaleInv, TypeOK', NEW w \in Workers, CleanUploaded(w) PROVE DeletionInv'
  <1>1. pc[w] = "clean"
    BY DEF CleanUploaded
  <1>2. PICK q \in {"failing", "read"} : Step(w, q)
    BY DEF CleanUploaded
  <1>3. UNCHANGED <<home, chunk, job, status, attempts, cur, snap, todo, crashes>>
    BY DEF CleanUploaded, sqlVars, outboxVars, localVars
  <1>4. /\ \A k \in ChunkIds : point'[k] # Absent => point'[k] = point[k]
        /\ \A k \in todo[w] : k \in ChunkIds => point'[k] = Absent
    BY DEF CleanUploaded, Remove
  <1>5. \A k \in ChunkIds : Stale(k)' => Stale(k) /\ ~WillClean(w, k) /\ ~WillRemove(w, k)
    BY <1>1, <1>3, <1>4 DEF Stale, WillClean, WillRemove
  <1> QED
    BY <1>1, <1>2, <1>3, <1>4, <1>5, MoveKeeps DEF PcValues

\* An entry of metadata covers no chunk.
LEMMA ReadVersionKeeps ==
    ASSUME StaleInv, TypeOK', NEW w \in Workers, ReadVersion(w) PROVE DeletionInv'
  <1>1. pc[w] = "read" \/ (pc[w] = "claimed" /\ job[cur[w]].op = "update_metadata")
    BY DEF ReadVersion
  <1>2. UNCHANGED <<home, chunk, job, status, attempts, cur, snap, todo, point, crashes>>
    BY DEF ReadVersion, sqlVars, outboxVars, qdrantVars
  <1>3. \A k \in ChunkIds : Stale(k)' =>
            Stale(k) /\ ~WillClean(w, k) /\ ~(WillRemove(w, k) /\ Covers(cur[w], k))
    BY <1>1, <1>2 DEF Stale, WillClean, WillRemove, Covers
  <1>4. Step(w, "patch")
    BY DEF ReadVersion
  <1> QED
    BY <1>1, <1>2, <1>3, <1>4, MoveKeeps DEF PcValues

\* Metadata are patched into points that exist.
LEMMA PatchVersionKeeps ==
    ASSUME StaleInv, TypeOK', NEW w \in Workers, PatchVersion(w) PROVE DeletionInv'
  <1>1. pc[w] = "patch" /\ Step(w, "applied")
    BY DEF PatchVersion
  <1>2. UNCHANGED <<home, chunk, job, status, attempts, cur, snap, todo, point, crashes>>
    BY DEF PatchVersion, sqlVars, outboxVars, localVars
  <1>3. \A k \in ChunkIds : Stale(k)' => Stale(k) /\ ~WillClean(w, k) /\ ~WillRemove(w, k)
    BY <1>1, <1>2 DEF Stale, WillClean, WillRemove
  <1> QED
    BY <1>1, <1>2, <1>3, MoveKeeps DEF PcValues

\* Counting changes nothing but the worker.
LEMMA CountByDocumentKeeps ==
    ASSUME StaleInv, TypeOK', NEW w \in Workers, CountByDocument(w) PROVE DeletionInv'
  <1>1. pc[w] = "applied" /\ Step(w, "commit")
    BY DEF CountByDocument
  <1>2. UNCHANGED <<home, chunk, job, status, attempts, cur, snap, todo, point, crashes>>
    BY DEF CountByDocument, sqlVars, outboxVars, qdrantVars
  <1>3. \A k \in ChunkIds : Stale(k)' => Stale(k) /\ ~WillClean(w, k) /\ ~WillRemove(w, k)
    BY <1>1, <1>2 DEF Stale, WillClean, WillRemove
  <1> QED
    BY <1>1, <1>2, <1>3, MoveKeeps DEF PcValues

\* A worker that fails still holds its entry, which covers all it has uploaded.
LEMMA FailRemembers ==
    ASSUME StaleInv, TypeOK', NEW w \in Workers, Fail(w) PROVE DeletionInv'
  <1>1. pc[w] # "idle" /\ Step(w, "failing") /\ pc'[w] = "failing"
    BY DEF Fail, Step, StaleInv, TypeOK
  <1>2. UNCHANGED <<home, chunk, job, status, attempts, cur, snap, todo, point, crashes>>
    BY DEF Fail, sqlVars, outboxVars, qdrantVars, localVars
  <1>3. \A k \in ChunkIds : WillClean(w, k) => Covers(cur[w], k)
    BY DEF WillClean, Covers, StaleInv, DeletionInv, Snapshots, Uploading
  <1>4. \A k \in ChunkIds : Covers(cur[w], k)' = Covers(cur[w], k)
    BY <1>2 DEF Covers
  <1>5. \A k \in ChunkIds : Stale(k)' =>
            Stale(k) /\ (WillClean(w, k) => WillClean(w, k)') /\ WillRemove(w, k)'
    BY <1>1, <1>2, <1>3, <1>4 DEF Stale, WillClean, WillRemove
  <1> QED
    BY <1>1, <1>2, <1>5, MoveKeeps DEF PcValues

\* A claimed entry's next write is a removal of what has no row.
LEMMA ClaimRemembers ==
    ASSUME StaleInv, TypeOK', NEW w \in Workers, NEW e \in EntryIds, Claim(w, e)
    PROVE  DeletionInv'
  <1>1. /\ pc[w] = "idle" /\ pc' = [pc EXCEPT ![w] = "claimed"]
        /\ cur' = [cur EXCEPT ![w] = e]
        /\ status[e] \in {"pending", "failed"} /\ status' = [status EXCEPT ![e] = "in_progress"]
        /\ UNCHANGED <<home, chunk, job, attempts, snap, todo, point, crashes>>
    BY DEF Claim, Step, sqlVars, qdrantVars
  <1>2. /\ pc'[w] = "claimed" /\ cur'[w] = e
        /\ \A v \in Workers \ {w} : pc'[v] = pc[v] /\ cur'[v] = cur[v]
        /\ status'[e] = "in_progress" /\ \A x \in EntryIds \ {e} : status'[x] = status[x]
    BY <1>1 DEF StaleInv, TypeOK
  <1>c. \A x, k : Covers(x, k)' = Covers(x, k)
    BY <1>1, CoversStay
  <1>3. Holders'
    <2>1. \A v \in Workers : cur'[v] # NoEntry => cur'[v] \in EntryIds /\ status'[cur'[v]] # "free"
      <3>1. \A v \in Workers : cur[v] \in EntryIds \cup {NoEntry}
        BY DEF StaleInv, TypeOK
      <3>2. \A v \in Workers : cur[v] # NoEntry => status[cur[v]] # "free"
        BY DEF StaleInv, DeletionInv, Holders
      <3>3. \A v \in Workers : v # w => cur'[v] = cur[v]
        BY <1>2
      <3>4. \A x \in EntryIds : status[x] # "free" => status'[x] # "free"
        BY <1>2
      <3> QED
        BY <1>2, <3>1, <3>2, <3>3, <3>4
    <2>2. ASSUME ~RecoverLive PROVE HeldEntries'
      BY <1>1, <1>2, <2>2, SentinelAssumption
         DEF StaleInv, TypeOK, DeletionInv, Holders, HeldEntries
    <2> QED
      BY <1>2, <2>1, <2>2, SentinelAssumption DEF StaleInv, DeletionInv, Holders
  <1>4. Inserted'
    BY <1>1, <1>2 DEF StaleInv, DeletionInv, Inserted
  <1>5. Snapshots'
    BY <1>1, <1>2 DEF StaleInv, DeletionInv, Snapshots, Uploading, SnapIds
  <1>6. ASSUME NEW k \in ChunkIds, Stale(k)' PROVE Remedied(k)'
    <2>1. Remedied(k)
      BY <1>1, <1>6 DEF Stale, StaleInv, DeletionInv, DeletionsCovered
    <2>2. \A v \in Workers : /\ v # w => WillRemove(v, k)' = WillRemove(v, k)
                             /\ WillClean(v, k) => WillClean(v, k)'
      BY <1>1, <1>2, <1>c DEF WillRemove, WillClean, SnapIds
    <2>3. WillRemove(w, k)'
      BY <1>2 DEF WillRemove
    <2>4. CASE RecoverLive /\ Disturbed(k)
      BY <2>4, <1>1, <1>c DEF Remedied, Disturbed
    <2>5. ASSUME NEW x \in EntryIds, Unapplied(x, k) PROVE Remedied(k)'
      <3>1. \A v \in Workers : cur'[v] = x => WillRemove(v, k)'
        BY <1>2, <2>2, <2>3, <2>5 DEF Unapplied
      <3>2. status'[x] \notin {"free", "done"}
        BY <1>2, <2>5 DEF Unapplied
      <3> QED
        BY <3>1, <3>2, <2>5, <1>c DEF Unapplied, Remedied
    <2>6. ASSUME NEW v \in Workers, WillClean(v, k) PROVE Remedied(k)'
      BY <2>2, <2>6 DEF Remedied
    <2> QED
      BY <2>1, <2>4, <2>5, <2>6 DEF Remedied
  <1> QED
    BY <1>3, <1>4, <1>5, <1>6 DEF DeletionInv, DeletionsCovered

\* A worker may leave its entry if it reports done only what it has applied, and if
\* what it would have cleaned is remedied.
LEMMA ForgetKeeps ==
    ASSUME StaleInv, TypeOK', NEW w \in Workers, pc[w] # "idle", Forget(w),
           UNCHANGED <<home, chunk, job, point>>,
           \A e \in EntryIds : attempts'[e] >= attempts[e],
           crashes' >= crashes,
           \A e \in EntryIds : e # cur[w] => status'[e] = status[e],
           status'[cur[w]] # "free",
           status'[cur[w]] = "done" => status[cur[w]] = "done" \/ pc[w] = "commit",
           \A k \in ChunkIds : WillClean(w, k) => Remedied(k)'
    PROVE  DeletionInv'
  <1>1. /\ pc'[w] = "idle" /\ cur'[w] = NoEntry
        /\ \A v \in Workers \ {w} : /\ pc'[v] = pc[v] /\ cur'[v] = cur[v]
                                    /\ snap'[v] = snap[v] /\ todo'[v] = todo[v]
    BY DEF Forget, Step, StaleInv, TypeOK
  <1>2. cur[w] \in EntryIds /\ status[cur[w]] # "free"
    BY HolderEntry
  <1>c. \A x, k : Covers(x, k)' = Covers(x, k)
    BY CoversStay
  <1>3. Holders'
    <2>1. ASSUME ~RecoverLive PROVE HeldEntries'
      BY <1>1, <1>2, <2>1, SentinelAssumption
         DEF StaleInv, TypeOK, DeletionInv, Holders, HeldEntries
    <2>2. \A v \in Workers \ {w} : cur'[v] # NoEntry => status'[cur'[v]] # "free"
      BY <1>1, <1>2 DEF StaleInv, TypeOK, DeletionInv, Holders
    <2> QED
      BY <1>1, <2>1, <2>2 DEF StaleInv, DeletionInv, Holders
  <1>4. Inserted'
    <2>1. \A e \in EntryIds : (status'[e] = "free") <=> (status[e] = "free")
      BY <1>2
    <2> QED
      BY <2>1 DEF StaleInv, DeletionInv, Inserted
  <1>5. Snapshots'
    BY <1>1 DEF StaleInv, DeletionInv, Snapshots, Uploading, SnapIds
  <1>6. ASSUME NEW k \in ChunkIds, Stale(k)' PROVE Remedied(k)'
    <2>1. Remedied(k)
      BY <1>6 DEF Stale, StaleInv, DeletionInv, DeletionsCovered
    <2>2. \A v \in Workers \ {w} : /\ WillRemove(v, k)' = WillRemove(v, k)
                                   /\ WillClean(v, k)' = WillClean(v, k)
      BY <1>1, <1>c DEF WillRemove, WillClean, SnapIds
    <2>3. CASE RecoverLive /\ Disturbed(k)
      BY <2>3, <1>c DEF Remedied, Disturbed, StaleInv, TypeOK
    <2>4. ASSUME NEW x \in EntryIds, Unapplied(x, k) PROVE Remedied(k)'
      <3>1. \A v \in Workers : cur'[v] = x => WillRemove(v, k)'
        BY <1>1, <2>2, <2>4, SentinelAssumption DEF Unapplied
      <3>2. status'[x] \notin {"free", "done"}
        BY <2>4 DEF Unapplied, WillRemove
      <3> QED
        BY <3>1, <3>2, <2>4, <1>c DEF Unapplied, Remedied
    <2>5. ASSUME NEW v \in Workers, WillClean(v, k) PROVE Remedied(k)'
      BY <2>2, <2>5 DEF Remedied
    <2> QED
      BY <2>1, <2>3, <2>4, <2>5 DEF Remedied
  <1> QED
    BY <1>3, <1>4, <1>5, <1>6 DEF DeletionInv, DeletionsCovered

\* Without overtaking, an entry that its only worker leaves unfinished is taken up
\* again from the start.
LEMMA LeftUnapplied ==
    ASSUME StaleInv, TypeOK', ~RecoverLive, NEW w \in Workers, pc[w] # "idle", Forget(w),
           UNCHANGED <<home, job>>, status'[cur[w]] \notin {"free", "done"},
           NEW k \in ChunkIds, Covers(cur[w], k)
    PROVE  Remedied(k)'
  <1>1. PICK e \in EntryIds : e = cur[w]
    BY HolderEntry
  <1>2. \A v \in Workers : cur'[v] # e
    BY <1>1, SentinelAssumption DEF Forget, StaleInv, TypeOK, DeletionInv, Holders, HeldEntries
  <1>3. Covers(e, k)'
    BY <1>1, CoversStay
  <1>4. Unapplied(e, k)'
    BY <1>1, <1>2, <1>3 DEF Unapplied
  <1> QED
    BY <1>4 DEF Remedied

\* What is reported done has been applied.
LEMMA CommitDoneSettles ==
    ASSUME StaleInv, TypeOK', NEW w \in Workers, CommitDone(w) PROVE DeletionInv'
  <1>1. pc[w] = "commit" /\ cur[w] \in EntryIds
    BY HolderEntry DEF CommitDone
  <1>2. \A k \in ChunkIds : ~WillClean(w, k)
    BY <1>1 DEF WillClean
  <1>3. /\ UNCHANGED <<home, chunk, job, point, attempts, crashes>> /\ Forget(w)
        /\ \A e \in EntryIds : e # cur[w] => status'[e] = status[e]
        /\ status'[cur[w]] = "done"
    BY <1>1 DEF CommitDone, qdrantVars, StaleInv, TypeOK
  <1>4. \A e \in EntryIds : attempts'[e] >= attempts[e]
    BY <1>3 DEF StaleInv, TypeOK
  <1>5. crashes' >= crashes
    BY <1>3, MaxCrashesAssumption DEF StaleInv, TypeOK
  <1> QED
    BY <1>1, <1>2, <1>3, <1>4, <1>5, ForgetKeeps

\* A failed attempt leaves its entry to the next one, or a trace in attempts.
LEMMA MarkFailedLeaves ==
    ASSUME StaleInv, TypeOK', NEW w \in Workers, MarkFailed(w) PROVE DeletionInv'
  <1>1. pc[w] = "failing" /\ cur[w] \in EntryIds
    BY HolderEntry DEF MarkFailed
  <1>2. /\ UNCHANGED <<home, chunk, job, point, crashes>> /\ Forget(w)
        /\ \A e \in EntryIds : e # cur[w] => status'[e] = status[e] /\ attempts'[e] = attempts[e]
        /\ status'[cur[w]] \in {"dead_letter", "failed"}
        /\ attempts'[cur[w]] = attempts[cur[w]] + 1
    BY <1>1 DEF MarkFailed, sqlVars, qdrantVars, StaleInv, TypeOK
  <1>3. \A e \in EntryIds : attempts[e] \in Nat
    BY DEF StaleInv, TypeOK
  <1>4. \A e \in EntryIds : attempts'[e] >= attempts[e]
    BY <1>2, <1>3
  <1>5. crashes' >= crashes
    BY <1>2, MaxCrashesAssumption DEF StaleInv, TypeOK
  <1>6. ASSUME NEW k \in ChunkIds, WillClean(w, k) PROVE Remedied(k)'
    <2>1. Covers(cur[w], k)
      BY <1>1, <1>6 DEF WillClean
    <2>2. CASE RecoverLive
      <3>1. PICK e \in EntryIds : e = cur[w]
        BY <1>1
      <3>2. Covers(e, k)' /\ attempts'[e] > 0
        BY <1>2, <1>3, <2>1, <3>1, CoversStay
      <3> QED
        BY <2>2, <3>2 DEF Remedied, Disturbed
    <2>3. CASE ~RecoverLive
      BY <1>1, <1>2, <2>1, <2>3, LeftUnapplied
    <2> QED
      BY <2>2, <2>3
  <1> QED
    BY <1>1, <1>2, <1>4, <1>5, <1>6, ForgetKeeps

\* A dead worker leaves its entry to the recovery, or a trace in crashes.
LEMMA CrashLeaves ==
    ASSUME StaleInv, TypeOK', NEW w \in Workers, Crash(w) PROVE DeletionInv'
  <1>1. pc[w] # "idle" /\ cur[w] \in EntryIds /\ status[cur[w]] # "free"
    BY HolderEntry DEF Crash
  <1>2. /\ UNCHANGED <<home, chunk, job, status, attempts, point>> /\ Forget(w)
        /\ crashes' = crashes + 1
    BY DEF Crash, sqlVars, outboxVars, qdrantVars
  <1>3. crashes \in Nat
    BY MaxCrashesAssumption DEF StaleInv, TypeOK
  <1>4. \A e \in EntryIds : attempts'[e] >= attempts[e]
    BY <1>2 DEF StaleInv, TypeOK
  <1>6. ASSUME NEW k \in ChunkIds, WillClean(w, k) PROVE Remedied(k)'
    <2>1. Covers(cur[w], k)
      BY <1>6 DEF WillClean, Covers, StaleInv, DeletionInv, Snapshots, Uploading
    <2>2. CASE RecoverLive
      BY <2>2, <1>2, <1>3 DEF Remedied, Disturbed
    <2>3. CASE ~RecoverLive
      <3>1. status'[cur[w]] = "in_progress"
        BY <1>1, <1>2, <2>3, SentinelAssumption DEF StaleInv, DeletionInv, Holders, HeldEntries
      <3> QED
        BY <1>1, <1>2, <2>1, <2>3, <3>1, LeftUnapplied
    <2> QED
      BY <2>2, <2>3
  <1> QED
    BY <1>1, <1>2, <1>3, <1>4, <1>6, ForgetKeeps

\* Recovery makes an entry pending again, under its worker if it can be overtaken.
LEMMA RecoverStuckKeeps ==
    ASSUME StaleInv, TypeOK', NEW e \in EntryIds, RecoverStuck(e) PROVE DeletionInv'
  <1>1. /\ status[e] = "in_progress" /\ status'[e] = "pending"
        /\ \A x \in EntryIds \ {e} : status'[x] = status[x]
        /\ UNCHANGED <<home, chunk, job, attempts, point, pc, cur, snap, todo, crashes>>
        /\ RecoverLive \/ \A w \in Workers : cur[w] # e
    BY DEF RecoverStuck, sqlVars, qdrantVars, localVars, StaleInv, TypeOK
  <1>2. Holders'
    <2>1. ASSUME ~RecoverLive PROVE HeldEntries'
      BY <1>1, <2>1 DEF StaleInv, TypeOK, DeletionInv, Holders, HeldEntries
    <2> QED
      BY <1>1, <2>1 DEF StaleInv, TypeOK, DeletionInv, Holders
  <1>3. Inserted' /\ Snapshots'
    BY <1>1 DEF StaleInv, DeletionInv, Inserted, Snapshots, Uploading, SnapIds
  <1>4. DeletionsCovered'
    BY <1>1 DEF StaleInv, DeletionInv, DeletionsCovered, Stale, Remedied, Disturbed,
                Unapplied, WillRemove, WillClean, Covers, SnapIds
  <1> QED
    BY <1>2, <1>3, <1>4 DEF DeletionInv

\* A transaction of the application keeps the invariant if the chunks whose rows it
\* deletes are covered by an entry that it enqueues.
LEMMA WriterKeeps ==
    ASSUME StaleInv, TypeOK', WriterUnchanged,
           \A k \in ChunkIds : home[k] # NoDoc => home'[k] = home[k],
           \A e \in EntryIds : status[e] # "free" => status'[e] = status[e] /\ job'[e] = job[e],
           \A e \in EntryIds : status[e] = "free" =>
               \/ status'[e] = "free" /\ job'[e] = job[e]
               \/ /\ status'[e] = "pending" /\ job'[e] \in Jobs
                  /\ job'[e].op = "upsert_chunks" => \A k \in job'[e].ids : home'[k] = job'[e].doc,
           \A k \in ChunkIds : (point[k] # Absent /\ chunk[k] # Absent /\ chunk'[k] = Absent) =>
               \E e \in EntryIds : status[e] = "free" /\ status'[e] = "pending" /\ Covers(e, k)'
    PROVE  DeletionInv'
  <1>1. UNCHANGED <<attempts, point, pc, cur, snap, todo, crashes>>
    BY DEF WriterUnchanged
  <1>2. \A w \in Workers : cur[w] # NoEntry => cur[w] \in EntryIds /\ status[cur[w]] # "free"
    BY DEF StaleInv, TypeOK, DeletionInv, Holders
  <1>3. Holders'
    <2>1. \A w \in Workers : cur[w] # NoEntry => status'[cur[w]] = status[cur[w]]
      BY <1>2
    <2>2. ASSUME ~RecoverLive PROVE HeldEntries'
      BY <1>1, <2>1, <2>2 DEF StaleInv, DeletionInv, Holders, HeldEntries
    <2> QED
      BY <1>1, <2>1, <2>2 DEF StaleInv, DeletionInv, Holders
  <1>4. Inserted'
    <2>1. ASSUME NEW e \in EntryIds, status[e] # "free"
          PROVE  /\ (status'[e] = "free") <=> (job'[e] = NoJob)
                 /\ job'[e].op = "upsert_chunks" => \A k \in job'[e].ids : home'[k] = job'[e].doc
      <3>1. job[e] \in Jobs
        BY <2>1 DEF StaleInv, TypeOK, DeletionInv, Inserted
      <3>2. job[e].doc # NoDoc /\ job[e].ids \subseteq ChunkIds
        BY <3>1, SentinelAssumption DEF Jobs
      <3> QED
        BY <2>1, <3>2 DEF StaleInv, DeletionInv, Inserted
    <2>2. ASSUME NEW e \in EntryIds, status[e] = "free"
          PROVE  /\ (status'[e] = "free") <=> (job'[e] = NoJob)
                 /\ job'[e].op = "upsert_chunks" => \A k \in job'[e].ids : home'[k] = job'[e].doc
      <3>1. CASE status'[e] = "free" /\ job'[e] = job[e]
        <4>1. job[e] = NoJob
          BY <2>2 DEF StaleInv, DeletionInv, Inserted
        <4>2. job'[e] = NoJob
          BY <3>1, <4>1
        <4>3. job'[e].op # "upsert_chunks"
          BY <4>2 DEF NoJob
        <4> QED
          BY <3>1, <4>2, <4>3
      <3>2. CASE status'[e] # "free"
        BY <2>2, <3>2, SentinelAssumption DEF Jobs, NoJob
      <3> QED
        BY <2>2, <3>1, <3>2
    <2>3. \A k \in ChunkIds : home'[k] = NoDoc => point'[k] = Absent
      BY <1>1 DEF StaleInv, DeletionInv, Inserted
    <2> QED
      BY <2>1, <2>2, <2>3 DEF Inserted
  <1>5. Snapshots'
    <2>1. ASSUME NEW w \in Workers, Uploading(w) PROVE job'[cur[w]] = job[cur[w]]
      BY <2>1, <1>2 DEF Uploading, StaleInv, DeletionInv, Holders
    <2> QED
      BY <1>1, <2>1 DEF StaleInv, DeletionInv, Snapshots, Uploading, SnapIds
  <1>6. ASSUME NEW k \in ChunkIds, Stale(k)' PROVE Remedied(k)'
    <2>1. home[k] # NoDoc /\ home'[k] = home[k]
      BY <1>1, <1>6 DEF Stale, StaleInv, DeletionInv, Inserted
    <2>2. \A e \in EntryIds : status[e] # "free" => Covers(e, k)' = Covers(e, k)
      BY <2>1 DEF Covers
    <2>3. \A e \in EntryIds : Covers(e, k) => status[e] # "free"
      BY DEF Covers, StaleInv, DeletionInv, Inserted, NoJob
    <2>4. CASE chunk[k] = Absent
      <3>1. Remedied(k)
        BY <1>1, <1>6, <2>4 DEF Stale, StaleInv, DeletionInv, DeletionsCovered
      <3>2. CASE RecoverLive /\ Disturbed(k)
        BY <1>1, <2>2, <2>3, <3>2 DEF Remedied, Disturbed
      <3>3. ASSUME NEW e \in EntryIds, Unapplied(e, k) PROVE Remedied(k)'
        <4>1. status'[e] \notin {"free", "done"} /\ Covers(e, k)'
          BY <2>2, <3>3 DEF Unapplied
        <4>2. \A w \in Workers : cur'[w] = e => WillRemove(w, k)'
          BY <1>1, <3>3 DEF Unapplied, WillRemove, SnapIds
        <4> QED
          BY <4>1, <4>2 DEF Unapplied, Remedied
      <3>4. ASSUME NEW w \in Workers, WillClean(w, k) PROVE Remedied(k)'
        <4>1. PICK e \in EntryIds : e = cur[w] /\ status[e] # "free"
          BY <3>4, HolderEntry DEF WillClean
        <4>2. Covers(cur[w], k)' = Covers(cur[w], k)
          BY <1>1, <2>2, <4>1 DEF Covers
        <4>3. WillClean(w, k)'
          BY <1>1, <3>4, <4>2 DEF WillClean, SnapIds
        <4> QED
          BY <4>3 DEF Remedied
      <3> QED
        BY <3>1, <3>2, <3>3, <3>4 DEF Remedied
    <2>5. CASE chunk[k] # Absent
      <3>1. PICK e \in EntryIds : status[e] = "free" /\ status'[e] = "pending" /\ Covers(e, k)'
        BY <1>1, <1>6, <2>5 DEF Stale
      <3>2. \A w \in Workers : cur'[w] # e
        BY <1>1, <1>2, <3>1, SentinelAssumption
      <3> QED
        BY <3>1, <3>2 DEF Unapplied, Remedied
    <2> QED
      BY <2>4, <2>5
  <1> QED
    BY <1>3, <1>4, <1>5, <1>6 DEF DeletionInv, DeletionsCovered

\* The replaced chunks are covered by the second entry of the ingestion.
LEMMA IngestCovers ==
    ASSUME StaleInv, TypeOK', NEW d \in Docs, NEW ids \in SUBSET ChunkIds,
           NEW text \in [ids -> Contents], Ingest(d, ids, text)
    PROVE  DeletionInv'
  <1> DEFINE replaced == ChunksOf(d)
             up == NewEntry({})
             del == NewEntry({up})
             enqueued == IF replaced = {} THEN {up} ELSE {up, del}
  <1>1. up \in FreeEntries /\ (replaced # {} => del \in FreeEntries \ {up})
    BY NewEntryIsFree DEF Ingest
  <1>2. enqueued \subseteq FreeEntries /\ FreeEntries \subseteq EntryIds
    BY <1>1 DEF FreeEntries
  <1>3. /\ \A k \in ChunkIds : home'[k] = IF k \in ids THEN d ELSE home[k]
        /\ \A k \in ChunkIds : chunk'[k] = IF k \in ids THEN text[k]
                                           ELSE IF k \in replaced THEN Absent ELSE chunk[k]
        /\ \A e \in EntryIds : status'[e] = IF e \in enqueued THEN "pending" ELSE status[e]
        /\ \A e \in EntryIds : e \notin enqueued => job'[e] = job[e]
        /\ job'[up] = UpsertJob(d, ids)
        /\ replaced # {} => job'[del] = DeleteChunksJob(d, replaced)
        /\ \A k \in ids : home[k] = NoDoc
        /\ WriterUnchanged
    BY <1>1, <1>2 DEF Ingest, FreeChunks
  <1>4. replaced \subseteq ChunkIds
    BY DEF ChunksOf
  <1>5. UpsertJob(d, ids) \in Jobs /\ DeleteChunksJob(d, replaced) \in Jobs
    BY <1>4 DEF StaleInv, TypeOK, UpsertJob, DeleteChunksJob, Jobs, Operation
  <1>6. \A e \in EntryIds : e \in enqueued <=> (e = up \/ (replaced # {} /\ e = del))
    OBVIOUS
  <1>h. \A e \in EntryIds : (status[e] = "free") <=> (e \in FreeEntries)
    BY DEF FreeEntries
  <1> HIDE DEF replaced, up, del, enqueued
  <1>7. ASSUME NEW e \in EntryIds, status[e] = "free"
        PROVE  \/ status'[e] = "free" /\ job'[e] = job[e]
               \/ /\ status'[e] = "pending" /\ job'[e] \in Jobs
                  /\ job'[e].op = "upsert_chunks" => \A k \in job'[e].ids : home'[k] = job'[e].doc
    <2>1. CASE e = up
      BY <1>3, <1>5, <1>6, <2>1 DEF UpsertJob
    <2>2. CASE replaced # {} /\ e = del
      BY <1>3, <1>5, <1>6, <2>2 DEF DeleteChunksJob
    <2>3. CASE e \notin enqueued
      BY <1>3, <1>7, <2>3
    <2> QED
      BY <1>6, <2>1, <2>2, <2>3
  <1>8. ASSUME NEW k \in ChunkIds, chunk[k] # Absent, chunk'[k] = Absent
        PROVE  \E e \in EntryIds : status[e] = "free" /\ status'[e] = "pending" /\ Covers(e, k)'
    <2>1. k \in replaced
      BY <1>3, <1>8, SentinelAssumption
    <2>2. del \in EntryIds /\ status[del] = "free" /\ status'[del] = "pending"
      BY <1>1, <1>2, <1>3, <1>6, <1>h, <2>1
    <2>3. job'[del].op = "delete_chunks" /\ k \in job'[del].ids
      BY <1>3, <2>1 DEF DeleteChunksJob
    <2>4. PICK e \in EntryIds : e = del
      BY <2>2
    <2>5. Covers(e, k)'
      BY <2>3, <2>4 DEF Covers
    <2> QED
      BY <2>2, <2>4, <2>5
  <1>9. \A e \in EntryIds : status[e] # "free" => status'[e] = status[e] /\ job'[e] = job[e]
    BY <1>2, <1>3, <1>h
  <1>10. \A k \in ChunkIds : home[k] # NoDoc => home'[k] = home[k]
    BY <1>3
  <1> QED
    BY <1>3, <1>7, <1>8, <1>9, <1>10, WriterKeeps

\* A transaction that enqueues one entry.
LEMMA EnqueueKeeps ==
    ASSUME StaleInv, TypeOK', WriterUnchanged, FreeEntries # {}, NEW j \in Jobs,
           Enqueue(NewEntry({}), j),
           \A k \in ChunkIds : home[k] # NoDoc => home'[k] = home[k],
           j.op = "upsert_chunks" => \A k \in j.ids : home'[k] = j.doc,
           \A k \in ChunkIds : (chunk[k] # Absent /\ chunk'[k] = Absent) =>
               \/ j.op = "delete_chunks" /\ k \in j.ids
               \/ j.op = "delete_by_document" /\ home'[k] = j.doc
    PROVE  DeletionInv'
  <1>1. PICK n \in FreeEntries : n = NewEntry({})
    BY NewEntryIsFree
  <1>2. /\ n \in EntryIds /\ status[n] = "free"
        /\ status'[n] = "pending" /\ job'[n] = j
        /\ \A e \in EntryIds \ {n} : status'[e] = status[e] /\ job'[e] = job[e]
    BY <1>1 DEF Enqueue, FreeEntries, StaleInv, TypeOK
  <1>3. \A k \in ChunkIds : (chunk[k] # Absent /\ chunk'[k] = Absent) => Covers(n, k)'
    BY <1>2 DEF Covers
  <1> QED
    BY <1>2, <1>3, WriterKeeps

\* Each transaction of the application.
LEMMA WritersCover == ASSUME StaleInv, TypeOK', NEW d \in Docs, Writer(d) PROVE DeletionInv'
  <1>h. \A k \in ChunkIds : k \in FreeChunks <=> home[k] = NoDoc
    BY DEF FreeChunks
  <1>t. /\ \A k \in ChunkIds : home[k] \in Docs \cup {NoDoc}
        /\ chunk \in [ChunkIds -> Contents \cup {Absent}]
        /\ home \in [ChunkIds -> Docs \cup {NoDoc}]
        /\ vmeta[d] \in MetaValues \cup {NoMeta}
    BY DEF StaleInv, TypeOK
  <1>1. CASE CreateDocument(d)
    BY <1>1, WriterKeeps DEF CreateDocument
  <1>2. ASSUME NEW ids \in SUBSET ChunkIds, NEW text \in [ids -> Contents], Ingest(d, ids, text)
        PROVE  DeletionInv'
    BY <1>2, IngestCovers
  <1>3. ASSUME NEW k \in ChunkIds, NEW c \in Contents, AddChunk(d, k, c) PROVE DeletionInv'
    <2>1. /\ WriterUnchanged /\ FreeEntries # {} /\ Enqueue(NewEntry({}), UpsertJob(d, {k}))
          /\ home[k] = NoDoc /\ home'[k] = d /\ \A i \in ChunkIds \ {k} : home'[i] = home[i]
          /\ \A i \in ChunkIds : chunk[i] # Absent => chunk'[i] # Absent
      BY <1>3, <1>h, <1>t, SentinelAssumption DEF AddChunk
    <2>2. /\ UpsertJob(d, {k}) \in Jobs /\ UpsertJob(d, {k}).ids = {k}
          /\ UpsertJob(d, {k}).doc = d
      BY <1>t DEF UpsertJob, Jobs, Operation
    <2> QED
      BY <2>1, <2>2, EnqueueKeeps
  <1>4. ASSUME NEW k \in ChunkIds, NEW c \in Contents, EditChunk(d, k, c) PROVE DeletionInv'
    <2>1. /\ WriterUnchanged /\ FreeEntries # {} /\ Enqueue(NewEntry({}), UpsertJob(d, {k}))
          /\ home[k] = d /\ home' = home
          /\ \A i \in ChunkIds : chunk[i] # Absent => chunk'[i] # Absent
      BY <1>4, <1>t, SentinelAssumption DEF EditChunk, ChunksOf
    <2>2. /\ UpsertJob(d, {k}) \in Jobs /\ UpsertJob(d, {k}).ids = {k}
          /\ UpsertJob(d, {k}).doc = d
      BY <1>t DEF UpsertJob, Jobs, Operation
    <2> QED
      BY <2>1, <2>2, EnqueueKeeps
  <1>5. ASSUME NEW k \in ChunkIds, DeleteChunk(d, k) PROVE DeletionInv'
    <2>1. /\ WriterUnchanged /\ FreeEntries # {} /\ Enqueue(NewEntry({}), DeleteChunksJob(d, {k}))
          /\ home' = home
          /\ \A i \in ChunkIds \ {k} : chunk'[i] = chunk[i]
      BY <1>5, <1>t DEF DeleteChunk
    <2>2. /\ DeleteChunksJob(d, {k}) \in Jobs /\ DeleteChunksJob(d, {k}).ids = {k}
          /\ DeleteChunksJob(d, {k}).op = "delete_chunks"
      BY DEF DeleteChunksJob, Jobs, Operation
    <2> QED
      BY <2>1, <2>2, EnqueueKeeps
  <1>6. CASE DeleteDocument(d)
    <2>1. /\ WriterUnchanged /\ FreeEntries # {} /\ Enqueue(NewEntry({}), DeleteDocJob(d))
          /\ home' = home
          /\ \A i \in ChunkIds : home[i] # d => chunk'[i] = chunk[i]
      BY <1>6, <1>t DEF DeleteDocument
    <2>2. /\ DeleteDocJob(d) \in Jobs /\ DeleteDocJob(d).doc = d
          /\ DeleteDocJob(d).op = "delete_by_document"
      BY DEF DeleteDocJob, Jobs, Operation
    <2> QED
      BY <2>1, <2>2, EnqueueKeeps
  <1>7. ASSUME NEW m \in MetaValues, SaveVersion(d, m) PROVE DeletionInv'
    <2>1. /\ WriterUnchanged /\ FreeEntries # {} /\ Enqueue(NewEntry({}), MetadataJob(d, m))
          /\ home' = home /\ chunk' = chunk
      BY <1>7 DEF SaveVersion
    <2>2. MetadataJob(d, m) \in Jobs /\ MetadataJob(d, m).op = "update_metadata"
      BY DEF MetadataJob, Jobs, Operation
    <2> QED
      BY <2>1, <2>2, EnqueueKeeps
  <1> QED
    BY <1>1, <1>2, <1>3, <1>4, <1>5, <1>6, <1>7 DEF Writer

\* Initially there are no points and no workers at work.
LEMMA StaleInit == Init => StaleInv
  <1> SUFFICES ASSUME Init PROVE StaleInv
    OBVIOUS
  <1>1. TypeOK
    BY TypeInit DEF TypeInv
  <1>2. Holders
    BY SentinelAssumption DEF Init, Holders, HeldEntries
  <1>3. Inserted /\ Snapshots /\ DeletionsCovered
    BY DEF Init, Inserted, Snapshots, DeletionsCovered, Stale, Uploading, NoJob
  <1> QED
    BY <1>1, <1>2, <1>3 DEF StaleInv, DeletionInv

\* Every step keeps the invariant, whatever the replicas show and whoever is overtaken.
LEMMA StaleNext == ASSUME StaleInv, [Next]_vars PROVE StaleInv'
  <1>t. TypeOK'
    <2>1. TypeInv
      BY HolderEntry DEF StaleInv, TypeInv, DeletionInv, Holders, Inserted, TypeOK
    <2> QED
      BY <2>1, TypeNext DEF TypeInv
  <1>1. ASSUME NEW w \in Workers, Worker(w) PROVE DeletionInv'
    <2>1. ASSUME Proceed(w) PROVE DeletionInv'
      BY <1>t, <2>1, ApplyDeleteClears, StartUpsertReads, PurgeObsoleteClears,
         UploadBatchRemembers, UploadEndsRemembers, VerifyFinds, CleanUploadedClears,
         ReadVersionKeeps, PatchVersionKeeps, CountByDocumentKeeps, CommitDoneSettles,
         MarkFailedLeaves
         DEF Proceed
    <2> QED
      BY <1>t, <1>1, <2>1, ClaimRemembers, FailRemembers, CrashLeaves DEF Worker
  <1>2. ASSUME NEW d \in Docs, Writer(d) PROVE DeletionInv'
    BY <1>t, <1>2, WritersCover
  <1>3. ASSUME NEW e \in EntryIds, RecoverStuck(e) PROVE DeletionInv'
    BY <1>t, <1>3, RecoverStuckKeeps
  <1>4. ASSUME UNCHANGED <<home, chunk, job, status, attempts, point, pc, cur, snap, todo, crashes>>
        PROVE  DeletionInv'
    BY <1>4 DEF StaleInv, DeletionInv, Holders, HeldEntries, Inserted, Snapshots, Uploading,
                SnapIds, DeletionsCovered, Stale, Remedied, Disturbed, Unapplied, WillRemove,
                WillClean, Covers
  <1>5. ASSUME NEW d \in Docs, ReconcileIndexing(d) PROVE DeletionInv'
    BY <1>4, <1>5 DEF ReconcileIndexing, outboxVars, qdrantVars, localVars
  <1>6. CASE ReplicaCatchUp
    BY <1>t, <1>4, <1>6 DEF StaleInv, ReplicaCatchUp, sqlVars, outboxVars, qdrantVars, localVars
  <1>7. CASE UNCHANGED vars
    BY <1>t, <1>4, <1>7 DEF StaleInv, vars
  <1> QED
    BY <1>t, <1>1, <1>2, <1>3, <1>5, <1>6, <1>7 DEF Next, StaleInv

\* Once everything that covers a deleted chunk is done, its text is not in the index,
\* with any lag of the replicas and however often entries are applied; where workers can
\* be overtaken, if no attempt at these entries failed and no worker died.
THEOREM DeletedTextsLeave == Spec => []NothingDeletedServed
  <1>1. StaleInv => NothingDeletedServed
    <2> SUFFICES ASSUME StaleInv, NEW k \in ChunkIds, Quiet(k), RecoverLive => ~Disturbed(k),
                        Stale(k)
                 PROVE  FALSE
      BY DEF NothingDeletedServed, Stale
    <2>1. Remedied(k)
      BY DEF StaleInv, DeletionInv, DeletionsCovered
    <2>2. ASSUME NEW e \in EntryIds, Unapplied(e, k) PROVE FALSE
      BY <2>2 DEF Unapplied, Quiet
    <2>3. ASSUME NEW w \in Workers, WillClean(w, k) PROVE FALSE
      <3>1. cur[w] # NoEntry
        BY <2>3 DEF WillClean, StaleInv, DeletionInv, Holders
      <3>2. Covers(cur[w], k)
        BY <2>3 DEF WillClean, Covers, StaleInv, DeletionInv, Snapshots, Uploading
      <3> QED
        BY <3>1, <3>2 DEF Quiet
    <2> QED
      BY <2>1, <2>2, <2>3 DEF Remedied
  <1>2. Init => StaleInv
    BY StaleInit
  <1>3. StaleInv /\ [Next]_vars => StaleInv'
    BY StaleNext
  <1> QED
    BY <1>1, <1>2, <1>3, PTL DEF Spec

=============================================================================
