---------------------------- MODULE DocumentJobs ----------------------------
(***************************************************************************)
(* Documents and the background jobs that process and delete them.          *)
(*                                                                          *)
(* The API writes a row and its object, then a job row, then a message of   *)
(* the arq queue: three systems that no transaction joins.  A worker runs   *)
(* the message through the admission of its principal, the bookkeeping of   *)
(* run_tracked_job and the body of the task; cron jobs repair what was      *)
(* lost.  Every transaction and every call of Redis or of the object store  *)
(* is one step, and a worker is named by the job it runs: arq gives a       *)
(* message to one worker at a time.                                         *)
(*                                                                          *)
(* Time is not counted: a cron job may find any row old enough, because a   *)
(* message waits in the queue, or behind its principal, without a limit.    *)
(***************************************************************************)
EXTENDS Naturals, FiniteSets

CONSTANTS
    Docs,           \* document ids, never reused
    Jobs,           \* ids of job rows; the supply bounds the requests
    Principals,
    Owner,          \* document -> principal whose admission its processing takes
    MaxTries,       \* MAX_JOB_TRIES
    MaxWaits,       \* bound on the waits of one message for the admission
    MaxFaults,      \* bound on failed calls, lost processes and cancellations
    CronDies,       \* may the cron process end between its two transactions?
    HasReplica,     \* are reads of uow_factory.create() served by a replica?
    NoDoc, Free, Abandoned

ASSUME BoundsAssumption ==
    MaxTries \in Nat \ {0} /\ MaxWaits \in Nat /\ MaxFaults \in Nat
ASSUME OwnerAssumption == Owner \in [Docs -> Principals]
ASSUME FlagsAssumption == CronDies \in BOOLEAN /\ HasReplica \in BOOLEAN
ASSUME NamesAssumption ==
    NoDoc \notin Docs /\ Free \notin Jobs /\ Abandoned \notin Jobs /\ Free # Abandoned

VARIABLES
    \* PostgreSQL
    stat,           \* documents.status, "absent" or "gone" when there is no row
    replaces,       \* replace_id of an upload
    content,        \* documents whose chunks have been committed
    jstat,          \* background_jobs.status, "free" or "deleted" when there is no row
    kind, target,   \* job_type and related_id
    \* object store
    files,          \* documents whose object is stored
    \* Redis
    msg,            \* "unsent" while the request that enqueues it goes on
    tries,          \* deliveries counted by arq (job_try)
    waits,          \* rag:worker:waits
    lease,          \* holder of a principal's admission, Abandoned if it died
    \* requests, workers and the cron job
    awaiting,       \* uploaded documents whose request has no job row yet
    pc, out,        \* step and outcome of a job's body
    doomed,         \* storage_deletes
    dead,           \* documents of the pending jobs just failed by the cron
    \* history
    runs,           \* admitted deliveries of a processing job
    invalidated,    \* documents whose answers a deletion job dropped
    faults

docVars == <<stat, replaces, content>>
rowVars == <<jstat, kind, target>>
queueVars == <<msg, tries, waits, lease, runs>>
bodyVars == <<pc, out, doomed>>
vars == <<stat, replaces, content, jstat, kind, target, files, msg, tries, waits,
          lease, awaiting, pc, out, doomed, dead, runs, invalidated, faults>>

-----------------------------------------------------------------------------
DocStatus == {"pending", "processing", "indexing", "done", "failed"}
JobStatus == {"pending", "running", "done", "failed"}
ProcessSteps == {"lookup", "begin", "parse", "check", "persist", "invalidate",
                 "handle", "cleanup"}
DeleteSteps == {"dlookup", "erase", "dfile", "dinvalidate"}
Steps == {"idle", "admitted", "settle", "leave"} \cup ProcessSteps \cup DeleteSteps
Outcomes == {"ok", "error", "timeout", "shutdown"}

Exists(d) == stat[d] \in DocStatus
Running(j) == pc[j] # "idle"
Principal(j) == Owner[target[j]]

\* job_try without the deliveries that only waited for the admission.
Try(j) == IF tries[j] > waits[j] THEN tries[j] - waits[j] ELSE 1

\* A fault is allowed when the condition that calls for one holds.
Faulty(bad) ==
    /\ bad => faults < MaxFaults
    /\ faults' = IF bad THEN faults + 1 ELSE faults

Goto(j, step) == pc' = [pc EXCEPT ![j] = step]
Outcome(j, o) == out' = [out EXCEPT ![j] = o]
SetStatus(d, s) == stat' = IF Exists(d) THEN [stat EXCEPT ![d] = s] ELSE stat
SetJob(j, s) == jstat' = IF jstat[j] \in JobStatus THEN [jstat EXCEPT ![j] = s] ELSE jstat

TypeOK ==
    /\ stat \in [Docs -> DocStatus \cup {"absent", "gone"}]
    /\ replaces \in [Docs -> Docs \cup {NoDoc}]
    /\ content \subseteq Docs
    /\ jstat \in [Jobs -> JobStatus \cup {"free", "deleted"}]
    /\ kind \in [Jobs -> {"none", "process", "delete"}]
    /\ target \in [Jobs -> Docs \cup {NoDoc}]
    /\ files \subseteq Docs
    /\ msg \in [Jobs -> {"none", "unsent", "queued", "running"}]
    /\ tries \in [Jobs -> Nat] /\ waits \in [Jobs -> Nat] /\ runs \in [Jobs -> Nat]
    /\ lease \in [Principals -> Jobs \cup {Free, Abandoned}]
    /\ awaiting \subseteq Docs
    /\ pc \in [Jobs -> Steps]
    /\ out \in [Jobs -> Outcomes]
    /\ doomed \in [Jobs -> SUBSET Docs]
    /\ dead \subseteq Docs
    /\ invalidated \subseteq Docs
    /\ faults \in 0..MaxFaults

Init ==
    /\ stat = [d \in Docs |-> "absent"] /\ replaces = [d \in Docs |-> NoDoc]
    /\ content = {} /\ files = {} /\ awaiting = {} /\ dead = {} /\ invalidated = {}
    /\ jstat = [j \in Jobs |-> "free"] /\ kind = [j \in Jobs |-> "none"]
    /\ target = [j \in Jobs |-> NoDoc]
    /\ msg = [j \in Jobs |-> "none"]
    /\ tries = [j \in Jobs |-> 0] /\ waits = [j \in Jobs |-> 0] /\ runs = [j \in Jobs |-> 0]
    /\ lease = [p \in Principals |-> Free]
    /\ pc = [j \in Jobs |-> "idle"] /\ out = [j \in Jobs |-> "ok"]
    /\ doomed = [j \in Jobs |-> {}]
    /\ faults = 0

-----------------------------------------------------------------------------
(* Requests of the API. *)

\* An upload may replace a document of the same scope that is not being processed.
MayReplace(d, r) == Owner[r] = Owner[d] /\ stat[r] \in {"done", "failed"}

\* The row and the object are written in one transaction.
Upload(d, r) ==
    /\ stat[d] = "absent"
    /\ r # NoDoc => MayReplace(d, r)
    /\ stat' = [stat EXCEPT ![d] = "pending"]
    /\ replaces' = [replaces EXCEPT ![d] = r]
    /\ files' = files \cup {d}
    /\ awaiting' = awaiting \cup {d}
    /\ UNCHANGED <<content, rowVars, queueVars, bodyVars, dead, invalidated, faults>>

\* The process dies, or the commit fails, after the object was stored.
UploadLost(d) ==
    /\ stat[d] = "absent"
    /\ Faulty(TRUE)
    /\ stat' = [stat EXCEPT ![d] = "gone"]
    /\ files' = files \cup {d}
    /\ UNCHANGED <<replaces, content, rowVars, queueVars, awaiting, bodyVars, dead, invalidated>>

NewRow(j, k, d) ==
    /\ jstat[j] = "free"
    /\ jstat' = [jstat EXCEPT ![j] = "pending"]
    /\ kind' = [kind EXCEPT ![j] = k]
    /\ target' = [target EXCEPT ![j] = d]
    /\ msg' = [msg EXCEPT ![j] = "unsent"]
    /\ UNCHANGED <<docVars, files, tries, waits, lease, runs, bodyVars, dead, invalidated>>

CreateJob(d, j) ==
    /\ d \in awaiting
    /\ awaiting' = awaiting \ {d}
    /\ NewRow(j, "process", d)
    /\ UNCHANGED faults

\* The request ends between the upload and the job row.
CreateJobLost(d) ==
    /\ d \in awaiting
    /\ Faulty(TRUE)
    /\ awaiting' = awaiting \ {d}
    /\ UNCHANGED <<docVars, rowVars, files, queueVars, bodyVars, dead, invalidated>>

RequestDeletion(d, j) ==
    /\ Exists(d)
    /\ NewRow(j, "delete", d)
    /\ UNCHANGED <<awaiting, faults>>

Enqueue(j) ==
    /\ msg[j] = "unsent"
    /\ msg' = [msg EXCEPT ![j] = "queued"]
    /\ UNCHANGED <<docVars, rowVars, files, tries, waits, lease, runs, awaiting, bodyVars,
                   dead, invalidated, faults>>

\* The request ends before the message is stored: the row stays pending.
EnqueueLost(j) ==
    /\ msg[j] = "unsent"
    /\ Faulty(TRUE)
    /\ msg' = [msg EXCEPT ![j] = "none"]
    /\ UNCHANGED <<docVars, rowVars, files, tries, waits, lease, runs, awaiting, bodyVars,
                   dead, invalidated>>

\* A deletion that could not be enqueued is failed at once, although the message
\* may have been stored before the error.
EnqueueRefused(j) ==
    /\ msg[j] = "unsent" /\ kind[j] = "delete"
    /\ Faulty(TRUE)
    /\ SetJob(j, "failed")
    /\ \E m \in {"none", "queued"} : msg' = [msg EXCEPT ![j] = m]
    /\ UNCHANGED <<docVars, kind, target, files, tries, waits, lease, runs, awaiting,
                   bodyVars, dead, invalidated>>

-----------------------------------------------------------------------------
(* Delivery and admission. *)

Delivered(j, k) ==
    /\ msg[j] = "queued" /\ kind[j] = k
    /\ tries' = [tries EXCEPT ![j] = @ + 1]

\* SET NX of the principal's key succeeds.
Admit(j) ==
    /\ Delivered(j, "process")
    /\ lease[Principal(j)] = Free
    /\ lease' = [lease EXCEPT ![Principal(j)] = j]
    /\ msg' = [msg EXCEPT ![j] = "running"]
    /\ runs' = [runs EXCEPT ![j] = @ + 1]
    /\ Goto(j, "admitted")
    /\ UNCHANGED <<docVars, rowVars, files, waits, awaiting, out, doomed, dead, invalidated, faults>>

\* Mutant: the wait is not subtracted from the retries.
WaitMutant(j) ==
    /\ waits[j] < MaxWaits
    /\ Delivered(j, "process")
    /\ lease[Principal(j)] # Free
    /\ UNCHANGED <<docVars, rowVars, files, msg, waits, lease, runs, awaiting, bodyVars, dead,
                   invalidated, faults>>

\* Another job of the principal runs: Retry(defer=5).
Wait(j) ==
    /\ waits[j] < MaxWaits
    /\ Delivered(j, "process")
    /\ lease[Principal(j)] # Free
    /\ waits' = [waits EXCEPT ![j] = @ + 1]
    /\ UNCHANGED <<docVars, rowVars, files, msg, lease, runs, awaiting, bodyVars, dead,
                   invalidated, faults>>

\* The admission fails on Redis, which ends the message, or the worker is shut
\* down before the wait is counted, and arq delivers the message again.
AdmissionFails(j) ==
    /\ Delivered(j, "process")
    /\ Faulty(TRUE)
    /\ \E m \in {"none", "queued"} : msg' = [msg EXCEPT ![j] = m]
    /\ UNCHANGED <<docVars, rowVars, files, waits, lease, runs, awaiting, bodyVars, dead,
                   invalidated>>

StartDeletion(j) ==
    /\ tries[j] < MaxTries
    /\ Delivered(j, "delete")
    /\ msg' = [msg EXCEPT ![j] = "running"]
    /\ Goto(j, "admitted")
    /\ UNCHANGED <<docVars, rowVars, files, waits, lease, runs, awaiting, out, doomed, dead,
                   invalidated, faults>>

\* arq drops a message delivered max_tries times already.
Exhaust(j) ==
    /\ msg[j] = "queued" /\ kind[j] = "delete" /\ tries[j] >= MaxTries
    /\ msg' = [msg EXCEPT ![j] = "none"]
    /\ UNCHANGED <<docVars, rowVars, files, tries, waits, lease, runs, awaiting, bodyVars, dead,
                   invalidated, faults>>

LeaseExpires(p) ==
    /\ lease[p] = Abandoned
    /\ lease' = [lease EXCEPT ![p] = Free]
    /\ UNCHANGED <<docVars, rowVars, files, msg, tries, waits, runs, awaiting, bodyVars, dead,
                   invalidated, faults>>

-----------------------------------------------------------------------------
(* The body of a job between its delivery and its outcome. *)

workFrame == <<kind, target, queueVars, awaiting, dead>>

\* A failure to mark the row running is logged, and the body runs all the same.
MarkRunning(j, recorded) ==
    /\ pc[j] = "admitted"
    /\ Faulty(~recorded)
    /\ IF recorded THEN SetJob(j, "running") ELSE UNCHANGED jstat
    /\ Goto(j, IF kind[j] = "process" THEN "lookup" ELSE "dlookup")
    /\ UNCHANGED <<docVars, files, workFrame, out, doomed, invalidated>>

\* process_document reads the row from a read session, outside the processor.
Lookup(j, seen) ==
    /\ pc[j] = "lookup"
    /\ ~HasReplica => seen = Exists(target[j])
    /\ Goto(j, IF seen THEN "begin" ELSE "settle")
    /\ Outcome(j, "ok")
    /\ UNCHANGED <<docVars, jstat, files, workFrame, doomed, invalidated, faults>>

Begin(j) ==
    /\ pc[j] = "begin"
    /\ SetStatus(target[j], "processing")
    /\ Goto(j, "parse")
    /\ UNCHANGED <<replaces, content, jstat, files, workFrame, out, doomed, invalidated, faults>>

\* Download, parse, split and plan; a bad file fails, and so does a missing object.
Parse(j, good) ==
    /\ pc[j] = "parse"
    /\ good => target[j] \in files
    /\ Goto(j, IF good THEN "check" ELSE "handle")
    /\ Outcome(j, IF good THEN "ok" ELSE "error")
    /\ UNCHANGED <<docVars, jstat, files, workFrame, doomed, invalidated, faults>>

Check(j, seen) ==
    /\ pc[j] = "check"
    /\ ~HasReplica => seen = Exists(target[j])
    /\ Goto(j, IF seen THEN "persist" ELSE "cleanup")
    /\ UNCHANGED <<docVars, jstat, files, workFrame, out, doomed, invalidated, faults>>

\* The document that d replaces, unless its domain keeps old editions.
Replaced(d, keep) == {r \in Docs : r = replaces[d] /\ Exists(r) /\ ~keep}

\* Mutant: the old object is listed for deletion whatever became of the row.
PersistMutant(j, keep) ==
    LET d == target[j]
        r == replaces[d]
    IN  /\ pc[j] = "persist" /\ Exists(d)
        /\ stat' = [stat EXCEPT ![d] = "indexing"]
        /\ content' = content \cup {d}
        /\ doomed' = [doomed EXCEPT ![j] = IF r # NoDoc THEN {r} ELSE {}]
        /\ Goto(j, "invalidate")
        /\ UNCHANGED <<replaces, jstat, files, workFrame, out, invalidated, faults>>

\* Mutant: the replaced row goes, its object is forgotten.
PersistForgetsMutant(j, keep) ==
    LET d == target[j]
        old == Replaced(d, keep)
    IN  /\ pc[j] = "persist" /\ Exists(d)
        /\ stat' = [x \in Docs |-> IF x \in old THEN "gone"
                                   ELSE IF x = d THEN "indexing" ELSE stat[x]]
        /\ content' = content \cup {d}
        /\ Goto(j, "invalidate")
        /\ UNCHANGED <<replaces, jstat, files, workFrame, out, doomed, invalidated, faults>>

\* Chunks, outbox entries, status and the removal of the replaced document commit
\* together.
Persist(j, keep) ==
    LET d == target[j]
        old == Replaced(d, keep)
    IN  /\ pc[j] = "persist" /\ Exists(d)
        /\ stat' = [x \in Docs |-> IF x \in old THEN "gone"
                                   ELSE IF x = d THEN "indexing" ELSE stat[x]]
        /\ content' = content \cup {d}
        /\ doomed' = [doomed EXCEPT ![j] = old]
        /\ Goto(j, "invalidate")
        /\ UNCHANGED <<replaces, jstat, files, workFrame, out, invalidated, faults>>

\* The document was deleted in the meantime.
PersistNothing(j) ==
    /\ pc[j] = "persist" /\ ~Exists(target[j])
    /\ Goto(j, "cleanup")
    /\ UNCHANGED <<docVars, jstat, files, workFrame, out, doomed, invalidated, faults>>

Invalidate(j) ==
    /\ pc[j] = "invalidate"
    /\ Goto(j, "cleanup")
    /\ UNCHANGED <<docVars, jstat, files, workFrame, out, doomed, invalidated, faults>>

\* handle_processing_failure, which logs an error of its own.
Handle(j, recorded) ==
    /\ pc[j] = "handle"
    /\ Faulty(~recorded)
    /\ IF recorded THEN SetStatus(target[j], "failed") ELSE UNCHANGED stat
    /\ Goto(j, "cleanup")
    /\ UNCHANGED <<replaces, content, jstat, files, workFrame, out, doomed, invalidated>>

\* finally: objects of replaced documents; a failed deletion is logged.
Cleanup(j, removed) ==
    /\ pc[j] = "cleanup"
    /\ Faulty(~removed)
    /\ files' = IF removed THEN files \ doomed[j] ELSE files
    /\ doomed' = [doomed EXCEPT ![j] = {}]
    /\ Goto(j, "settle")
    /\ UNCHANGED <<docVars, jstat, workFrame, out, invalidated>>

\* delete_document reads the row and its requester from the master.
DeletionLookup(j) ==
    /\ pc[j] = "dlookup"
    /\ Goto(j, IF Exists(target[j]) THEN "erase" ELSE "dinvalidate")
    /\ UNCHANGED <<docVars, jstat, files, workFrame, out, doomed, invalidated, faults>>

\* The requester is no longer active or may no longer delete.
Denied(j) ==
    /\ pc[j] = "dlookup" /\ Exists(target[j])
    /\ Outcome(j, "error")
    /\ Goto(j, "settle")
    /\ UNCHANGED <<docVars, jstat, files, workFrame, doomed, invalidated, faults>>

\* DocumentDeleteCommand.execute; another job may have deleted the row.
Erase(j) ==
    /\ pc[j] = "erase"
    /\ SetStatus(target[j], "gone")
    /\ Goto(j, IF Exists(target[j]) THEN "dfile" ELSE "dinvalidate")
    /\ UNCHANGED <<replaces, content, jstat, files, workFrame, out, doomed, invalidated, faults>>

RemoveObject(j, removed) ==
    /\ pc[j] = "dfile"
    /\ Faulty(~removed)
    /\ files' = IF removed THEN files \ {target[j]} ELSE files
    /\ Goto(j, "dinvalidate")
    /\ UNCHANGED <<docVars, jstat, workFrame, out, doomed, invalidated>>

DeletionInvalidate(j) ==
    /\ pc[j] = "dinvalidate"
    /\ invalidated' = invalidated \cup {target[j]}
    /\ Outcome(j, "ok")
    /\ Goto(j, "settle")
    /\ UNCHANGED <<docVars, jstat, files, workFrame, doomed, faults>>

\* Mutant: an error of the cache does not fail the deletion.
BodyFailsMutant(j) ==
    /\ pc[j] \in {"lookup", "begin", "check", "persist", "invalidate"} \cup (DeleteSteps \ {"dfile"})
    /\ Faulty(TRUE)
    /\ Outcome(j, IF pc[j] = "dinvalidate" THEN "ok" ELSE "error")
    /\ Goto(j, IF pc[j] \in {"begin", "check", "persist", "invalidate"} THEN "handle" ELSE "settle")
    /\ UNCHANGED <<docVars, jstat, files, workFrame, doomed, invalidated>>

\* A database or Redis error; inside the processor it marks the document failed.
BodyFails(j) ==
    /\ pc[j] \in {"lookup", "begin", "check", "persist", "invalidate"} \cup (DeleteSteps \ {"dfile"})
    /\ Faulty(TRUE)
    /\ Outcome(j, "error")
    /\ Goto(j, IF pc[j] \in {"begin", "check", "persist", "invalidate"} THEN "handle" ELSE "settle")
    /\ UNCHANGED <<docVars, jstat, files, workFrame, doomed, invalidated>>

-----------------------------------------------------------------------------
(* How a delivery ends. *)

\* The last attempt: what failed is not retried.
Last(j) == out[j] # "error" \/ Try(j) >= MaxTries
\* arq delivers a message again after Retry, and after a shutdown.
Again(j) == ~Last(j) \/ out[j] = "shutdown"

\* Mutant: the outcome is stored as the status.
SettleMutant(j, recorded) ==
    /\ pc[j] = "settle" /\ Last(j)
    /\ Faulty(~recorded)
    /\ SetJob(j, out[j])
    /\ Goto(j, "leave")
    /\ UNCHANGED <<docVars, files, workFrame, out, doomed, invalidated>>

\* mark_done or mark_failed; a failed mark_failed is logged, a failed mark_done
\* ends the message all the same.
Settle(j, recorded) ==
    /\ pc[j] = "settle" /\ Last(j)
    /\ Faulty(~recorded)
    /\ IF recorded THEN SetJob(j, IF out[j] = "ok" THEN "done" ELSE "failed")
                   ELSE UNCHANGED jstat
    /\ Goto(j, "leave")
    /\ UNCHANGED <<docVars, files, workFrame, out, doomed, invalidated>>

Release(j, m, released) ==
    /\ msg' = [msg EXCEPT ![j] = m]
    /\ lease' = [p \in Principals |-> IF lease[p] # j THEN lease[p]
                                      ELSE IF released THEN Free ELSE Abandoned]
    /\ Goto(j, "idle")
    /\ UNCHANGED <<docVars, rowVars, files, tries, waits, runs, awaiting, out, dead, invalidated>>

\* The worker releases the lease, which may fail, and arq ends or defers the
\* message; the row of a job that is retried stays running.
Leave(j, released) ==
    /\ pc[j] = "leave" \/ (pc[j] = "settle" /\ ~Last(j))
    /\ Faulty(~released)
    /\ Release(j, IF Again(j) THEN "queued" ELSE "none", released)
    /\ UNCHANGED doomed

\* arq cancels the body after _PROCESS_TIMEOUT, in one of its long calls, or at a
\* shutdown of the worker; the finally clause of the processor still runs.
Cancel(j, why) ==
    /\ why \in {"timeout", "shutdown"}
    /\ pc[j] \in IF why = "timeout" THEN {"parse", "persist", "erase", "dfile"}
                 ELSE (ProcessSteps \cup DeleteSteps) \ {"cleanup"}
    /\ Faulty(TRUE)
    /\ Outcome(j, why)
    /\ Goto(j, IF pc[j] \in ProcessSteps \ {"lookup"} THEN "cleanup" ELSE "settle")
    /\ UNCHANGED <<docVars, jstat, files, workFrame, doomed, invalidated>>

\* The process dies: arq delivers the message again, the lease waits for its end.
Crash(j) ==
    /\ Running(j)
    /\ Faulty(TRUE)
    /\ Release(j, "queued", FALSE)
    /\ doomed' = [doomed EXCEPT ![j] = {}]

-----------------------------------------------------------------------------
(* Cron jobs, and the index that finishes a document. *)

cronFrame == <<kind, target, files, queueVars, awaiting, bodyVars, replaces, content, invalidated>>

\* Rows that may be older than the timeouts; a running body touches the heartbeat.
Orphans == {j \in Jobs : jstat[j] = "running"}
Stale == {j \in Jobs : jstat[j] = "pending" /\ ~Running(j) /\ msg[j] # "unsent"}

\* Mutant: only running rows are recovered.
RecoverJobsMutant(orphans, stale) ==
    /\ dead = {} /\ orphans # {} /\ stale = {}
    /\ orphans \subseteq Orphans
    /\ jstat' = [j \in Jobs |-> IF j \in orphans THEN "failed" ELSE jstat[j]]
    /\ UNCHANGED <<cronFrame, stat, dead, faults>>

\* Mutant: the documents of stale pending jobs are left alone.
RecoverJobsSilentMutant(orphans, stale) ==
    /\ dead = {} /\ orphans \cup stale # {}
    /\ orphans \subseteq Orphans /\ stale \subseteq Stale
    /\ jstat' = [j \in Jobs |-> IF j \in orphans \cup stale THEN "failed" ELSE jstat[j]]
    /\ UNCHANGED <<cronFrame, stat, dead, faults>>

\* cron_recover_orphaned_jobs, first transaction.
RecoverJobs(orphans, stale) ==
    /\ dead = {} /\ orphans \cup stale # {}
    /\ orphans \subseteq Orphans /\ stale \subseteq Stale
    /\ jstat' = [j \in Jobs |-> IF j \in orphans \cup stale THEN "failed" ELSE jstat[j]]
    /\ dead' = {target[j] : j \in {i \in stale : kind[i] = "process"}}
    /\ UNCHANGED <<cronFrame, stat, faults>>

\* Mutant: the status of the document is not looked at again.
FailDocumentsMutant ==
    /\ dead # {}
    /\ stat' = [d \in Docs |-> IF d \in dead /\ Exists(d) THEN "failed" ELSE stat[d]]
    /\ dead' = {}
    /\ UNCHANGED <<cronFrame, jstat, faults>>

\* Its second transaction, _fail_documents_of_dead_jobs.
FailDocuments ==
    /\ dead # {}
    /\ stat' = [d \in Docs |-> IF d \in dead /\ stat[d] \in {"pending", "processing"}
                               THEN "failed" ELSE stat[d]]
    /\ dead' = {}
    /\ UNCHANGED <<cronFrame, jstat, faults>>

CronLost ==
    /\ CronDies /\ dead # {}
    /\ Faulty(TRUE)
    /\ dead' = {}
    /\ UNCHANGED <<cronFrame, stat, jstat>>

\* Mutant: a document with an unfinished job row is spared.
RecoverStuckMutant(d) ==
    /\ stat[d] = "processing"
    /\ \A j \in Jobs : target[j] = d => jstat[j] \notin {"failed"}
    /\ stat' = [stat EXCEPT ![d] = "failed"]
    /\ UNCHANGED <<cronFrame, jstat, dead, faults>>

\* cron_recover_stuck_processing looks at the age of the row, not at its job.
RecoverStuck(d) ==
    /\ stat[d] = "processing"
    /\ stat' = [stat EXCEPT ![d] = "failed"]
    /\ UNCHANGED <<cronFrame, jstat, dead, faults>>

\* cron_job_cleanup; no message outlives the retention of its row.
DeleteOld(j) ==
    /\ jstat[j] \in {"done", "failed"} /\ msg[j] = "none"
    /\ jstat' = [jstat EXCEPT ![j] = "deleted"]
    /\ UNCHANGED <<cronFrame, stat, dead, faults>>

\* The outbox has applied the entries of the document.
Indexed(d) ==
    /\ stat[d] = "indexing"
    /\ stat' = [stat EXCEPT ![d] = "done"]
    /\ UNCHANGED <<cronFrame, jstat, dead, faults>>

-----------------------------------------------------------------------------
Request ==
    \/ \E d \in Docs, r \in Docs \cup {NoDoc} : Upload(d, r)
    \/ \E d \in Docs : UploadLost(d) \/ CreateJobLost(d)
    \/ \E d \in Docs, j \in Jobs : CreateJob(d, j) \/ RequestDeletion(d, j)
    \/ \E j \in Jobs : EnqueueLost(j) \/ EnqueueRefused(j)

\* Steps that the worker takes by itself, without an error.
Progress(j) ==
    \/ Admit(j) \/ Wait(j) \/ StartDeletion(j) \/ Exhaust(j)
    \/ MarkRunning(j, TRUE)
    \/ \E seen \in BOOLEAN : Lookup(j, seen) \/ Check(j, seen)
    \/ Begin(j)
    \/ \E good \in BOOLEAN : Parse(j, good)
    \/ \E keep \in BOOLEAN : Persist(j, keep)
    \/ PersistNothing(j) \/ Invalidate(j) \/ Handle(j, TRUE) \/ Cleanup(j, TRUE)
    \/ DeletionLookup(j) \/ Denied(j) \/ Erase(j) \/ RemoveObject(j, TRUE)
    \/ DeletionInvalidate(j)
    \/ Settle(j, TRUE) \/ Leave(j, TRUE)

Fault(j) ==
    \/ AdmissionFails(j) \/ BodyFails(j) \/ Crash(j)
    \/ MarkRunning(j, FALSE) \/ Handle(j, FALSE) \/ Cleanup(j, FALSE) \/ RemoveObject(j, FALSE)
    \/ \E why \in {"timeout", "shutdown"} : Cancel(j, why)
    \/ Settle(j, FALSE) \/ Leave(j, FALSE)

Cron ==
    \/ \E orphans, stale \in SUBSET Jobs : RecoverJobs(orphans, stale)
    \/ FailDocuments
    \/ CronLost
    \/ \E d \in Docs : RecoverStuck(d)
    \/ \E j \in Jobs : DeleteOld(j)

Next ==
    \/ Request
    \/ \E j \in Jobs : Enqueue(j) \/ Progress(j) \/ Fault(j)
    \/ Cron
    \/ \E p \in Principals : LeaseExpires(p)
    \/ \E d \in Docs : Indexed(d)

Spec == Init /\ [][Next]_vars

\* Requests and workers go on unless they fail, leases expire, the cron jobs run
\* every fifteen minutes and find every row that stays as it is old enough.
Fairness ==
    /\ \A j \in Jobs : WF_vars(Enqueue(j)) /\ WF_vars(Progress(j))
    /\ \A d \in Docs : WF_vars(\E j \in Jobs : CreateJob(d, j))
    /\ \A p \in Principals : WF_vars(LeaseExpires(p))
    /\ \A j \in Jobs : WF_vars(\E orphans, stale \in SUBSET Jobs :
                                   j \in orphans \cup stale /\ RecoverJobs(orphans, stale))
    /\ WF_vars(FailDocuments)
    /\ \A d \in Docs : WF_vars(RecoverStuck(d))
FairSpec == Spec /\ Fairness

-----------------------------------------------------------------------------
\* The object of a document is stored as long as its row exists, through
\* replacements and deletions that fail, are retried or are interrupted.
RowsHaveObjects == \A d \in Docs : Exists(d) => d \in files

\* A processing job that gives up has been admitted MaxTries times, however often
\* it waited for its principal; only a fault may cost it an attempt.
WaitsCostNoRetry ==
    \A j \in Jobs :
        (kind[j] = "process" /\ pc[j] = "settle" /\ out[j] = "error" /\ Last(j))
            => runs[j] + faults >= MaxTries

\* A deletion reported as done has removed the row and dropped the cached answers,
\* whichever of its deliveries did either.
DoneDeletion ==
    \A j \in Jobs : kind[j] = "delete" /\ jstat[j] = "done"
        => stat[target[j]] = "gone" /\ target[j] \in invalidated

\* A processing job reported as done leaves its document with its chunks, on the
\* way to the index, whatever the cron jobs did to the rows in between.  It takes
\* two faults to undo that: the worker dies between the report and the end of the
\* message, and the next delivery cannot mark the row running again.
DoneProcessing ==
    faults <= 1 =>
        \A j \in Jobs : kind[j] = "process" /\ jstat[j] = "done"
            => \/ stat[target[j]] = "gone"
               \/ stat[target[j]] \in {"indexing", "done"} /\ target[j] \in content

\* Without a fault no object outlives its row, except while the job that removed
\* the row is about to delete it.
NoOrphanObject ==
    faults = 0 =>
        \A d \in files : \/ Exists(d)
                         \/ \E j \in Jobs : d \in doomed[j]
                         \/ \E j \in Jobs : pc[j] = "dfile" /\ target[j] = d

-----------------------------------------------------------------------------
(* The inductive invariant of the proofs, conjunct by conjunct. *)

\* A job row has its document, and its body the steps of its kind.
Shape ==
    \A j \in Jobs :
        /\ jstat[j] = "free" => kind[j] = "none"
        /\ kind[j] # "none" => target[j] \in Docs
        /\ msg[j] # "none" => kind[j] # "none"
        /\ Running(j) <=> msg[j] = "running"
        /\ pc[j] \in ProcessSteps => kind[j] = "process"
        /\ pc[j] \in DeleteSteps => kind[j] = "delete"

\* What a body is about to delete from the store has no row.
Removals ==
    /\ \A j \in Jobs, d \in Docs : d \in doomed[j] => stat[d] = "gone"
    /\ \A j \in Jobs : pc[j] = "dfile" => stat[target[j]] = "gone"
    /\ \A j \in Jobs : pc[j] \notin {"invalidate", "handle", "cleanup"} => doomed[j] = {}

\* A deletion that is past the removal of the row, or ended well, has done its part.
Deletions ==
    \A j \in Jobs : kind[j] = "delete" =>
        /\ stat[target[j]] # "absent"
        /\ pc[j] = "dinvalidate" => stat[target[j]] = "gone"
        /\ pc[j] = "settle" /\ out[j] = "ok"
              => stat[target[j]] = "gone" /\ target[j] \in invalidated

\* A delivery is a wait, an admitted attempt or a fault.
Attempts ==
    \A j \in Jobs : kind[j] # "delete" =>
        /\ tries[j] <= waits[j] + runs[j] + faults
        /\ Running(j) => runs[j] >= 1

IInv == TypeOK /\ Shape /\ RowsHaveObjects /\ Removals /\ Deletions /\ DoneDeletion
            /\ Attempts /\ NoOrphanObject

-----------------------------------------------------------------------------
\* Every job is eventually done or failed, whatever was lost.
JobsEnd ==
    \A j \in Jobs : jstat[j] \in {"pending", "running"}
        ~> jstat[j] \in {"done", "failed", "deleted"}

\* A document with a job row does not stay pending, although the message, or the
\* worker, may be lost.
PendingEnds ==
    \A d \in Docs : (stat[d] = "pending" /\ \E j \in Jobs : kind[j] = "process" /\ target[j] = d)
        ~> stat[d] # "pending"

\* A document does not stay in processing when its worker is lost.
ProcessingEnds == \A d \in Docs : stat[d] = "processing" ~> stat[d] # "processing"

=============================================================================
