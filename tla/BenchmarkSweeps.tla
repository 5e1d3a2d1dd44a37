-------------------------- MODULE BenchmarkSweeps --------------------------
(***************************************************************************)
(* Parameter sweeps of the benchmark: long paid evaluations that can be    *)
(* cancelled and resumed.  A sweep has a row and checkpoints, the rows of  *)
(* its results, a job row that changes with every resume, and one message  *)
(* of the arq queue, whose id is made of the sweep's alone: a message that *)
(* is enqueued while the former one exists is suppressed.                  *)
(*                                                                         *)
(* Requests and workers commit each transaction in a step of its own.  A   *)
(* request is named by the job row it will create, a worker by the sweep   *)
(* it evaluates: arq gives a message to one worker at a time.  A job that  *)
(* runs longer than stuck_job_timeout_minutes is failed by the cron job    *)
(* although its worker is alive; a sweep may run for hours.                *)
(***************************************************************************)
EXTENDS Naturals

CONSTANTS
    Sweeps,
    Jobs,       \* ids of job rows, one per request: the bound on resumes
    Configs,    \* configurations a sweep evaluates
    MaxFaults,  \* bound on failed calls, lost processes and cancelled bodies
    NoJob

ASSUME FaultsAssumption == MaxFaults \in Nat
ASSUME NamesAssumption == NoJob \notin Jobs

VARIABLES
    \* benchmark_sweeps, its checkpoints and its complete results
    status, jobOf, checkpoints, results,
    old,        \* the checkpoints are older than CHECKPOINT_RETENTION
    \* background_jobs
    jstat, target,
    msg,        \* the queued message of a sweep carries this job
    \* requests
    req, resumes,
    \* workers: step, outcome, complete results in memory
    pc, out, found,
    faults

sweepVars == <<status, jobOf, checkpoints, results, old>>
requestVars == <<target, req, resumes>>
workVars == <<pc, out, found>>
vars == <<status, jobOf, checkpoints, results, old, jstat, target, msg, req, resumes,
          pc, out, found, faults>>

-----------------------------------------------------------------------------
SweepStatus == {"pending", "running", "done", "failed", "cancelled"}
Requests == {"idle", "requeue", "job", "attach", "enqueue", "giveup", "ended"}
Steps == {"idle", "start", "run", "cancelled", "save", "complete", "purge", "fail",
          "settle", "lost"}
Outcomes == {"ok", "error", "timeout", "shutdown"}

Active(s) == status[s] \in {"pending", "running"}
ActiveJob(j) == jstat[j] \in {"pending", "running"}
NothingActive == \A s \in Sweeps : ~Active(s)
\* Is the sweep j's, or between two jobs?
Holds(s, j) == jobOf[s] \in {NoJob, j}

Faulty(bad) ==
    /\ bad => faults < MaxFaults
    /\ faults' = IF bad THEN faults + 1 ELSE faults

Goto(s, step) == pc' = [pc EXCEPT ![s] = step]
Outcome(s, o) == out' = [out EXCEPT ![s] = o]
Request(j, step) == req' = [req EXCEPT ![j] = step]
SetStatus(s, v) == status' = [status EXCEPT ![s] = v]

TypeOK ==
    /\ status \in [Sweeps -> SweepStatus \cup {"absent"}]
    /\ jobOf \in [Sweeps -> Jobs \cup {NoJob}]
    /\ checkpoints \in [Sweeps -> SUBSET Configs] /\ results \in [Sweeps -> SUBSET Configs]
    /\ old \in [Sweeps -> BOOLEAN]
    /\ jstat \in [Jobs -> {"free", "pending", "running", "done", "failed"}]
    /\ target \in [Jobs -> Sweeps \cup {NoJob}]
    /\ msg \in [Sweeps -> Jobs \cup {NoJob}]
    /\ req \in [Jobs -> Requests] /\ resumes \in SUBSET Jobs
    /\ pc \in [Sweeps -> Steps] /\ out \in [Sweeps -> Outcomes]
    /\ found \in [Sweeps -> SUBSET Configs]
    /\ faults \in 0 .. MaxFaults

Init ==
    /\ status = [s \in Sweeps |-> "absent"]
    /\ jobOf = [s \in Sweeps |-> NoJob]
    /\ checkpoints = [s \in Sweeps |-> {}] /\ results = [s \in Sweeps |-> {}]
    /\ old = [s \in Sweeps |-> FALSE]
    /\ jstat = [j \in Jobs |-> "free"]
    /\ target = [j \in Jobs |-> NoJob]
    /\ msg = [s \in Sweeps |-> NoJob]
    /\ req = [j \in Jobs |-> "idle"] /\ resumes = {}
    /\ pc = [s \in Sweeps |-> "idle"] /\ out = [s \in Sweeps |-> "ok"]
    /\ found = [s \in Sweeps |-> {}]
    /\ faults = 0

-----------------------------------------------------------------------------
(* Requests of administrators. *)

\* The unique index of active sweeps decides between two requests.
Create(s, j) ==
    /\ status[s] = "absent" /\ req[j] = "idle" /\ NothingActive
    /\ SetStatus(s, "pending")
    /\ target' = [target EXCEPT ![j] = s]
    /\ Request(j, "job")
    /\ UNCHANGED <<jobOf, checkpoints, results, old, jstat, msg, resumes, workVars, faults>>

\* resume reads the former job without a lock ...
CheckResume(s, j) ==
    /\ status[s] # "absent" /\ req[j] = "idle"
    /\ jobOf[s] # NoJob => ~ActiveJob(jobOf[s])
    /\ target' = [target EXCEPT ![j] = s]
    /\ resumes' = resumes \cup {j}
    /\ Request(j, "requeue")
    /\ UNCHANGED <<sweepVars, jstat, msg, workVars, faults>>

\* ... and requeues by compare-and-set, unless another sweep is active.
Requeue(j) ==
    LET s == target[j]
        won == status[s] \in {"failed", "cancelled"} /\ NothingActive
    IN  /\ req[j] = "requeue"
        /\ status' = IF won THEN [status EXCEPT ![s] = "pending"] ELSE status
        /\ jobOf' = IF won THEN [jobOf EXCEPT ![s] = NoJob] ELSE jobOf
        /\ Request(j, IF won THEN "job" ELSE "ended")
        /\ UNCHANGED <<checkpoints, results, old, jstat, target, msg, resumes, workVars, faults>>

CreateJob(j) ==
    /\ req[j] = "job"
    /\ jstat' = [jstat EXCEPT ![j] = "pending"]
    /\ Request(j, "attach")
    /\ UNCHANGED <<sweepVars, target, msg, resumes, workVars, faults>>

\* Mutant: the related id is attached in place of the job's.
AttachMutant(j) ==
    /\ req[j] = "attach"
    /\ jobOf' = [jobOf EXCEPT ![target[j]] = target[j]]
    /\ Request(j, "enqueue")
    /\ UNCHANGED <<status, checkpoints, results, old, jstat, target, msg, resumes, workVars, faults>>

Attach(j) ==
    /\ req[j] = "attach"
    /\ jobOf' = [jobOf EXCEPT ![target[j]] = j]
    /\ Request(j, "enqueue")
    /\ UNCHANGED <<status, checkpoints, results, old, jstat, target, msg, resumes, workVars, faults>>

\* A duplicate is suppressed without an error.
Queued(j) == IF msg[target[j]] = NoJob THEN [msg EXCEPT ![target[j]] = j] ELSE msg

Enqueue(j) ==
    /\ req[j] = "enqueue"
    /\ msg' = Queued(j)
    /\ Request(j, "ended")
    /\ UNCHANGED <<sweepVars, jstat, target, resumes, workVars, faults>>

\* A call of the request fails, or its process ends; a message may be stored although
\* the caller saw an error.
RequestFails(j, handled) ==
    /\ req[j] \in {"job", "attach", "enqueue"}
    /\ handled => j \in resumes
    /\ Faulty(TRUE)
    /\ \/ msg' = msg
       \/ req[j] = "enqueue" /\ msg' = Queued(j)
    /\ Request(j, IF handled THEN "giveup" ELSE "ended")
    /\ UNCHANGED <<sweepVars, jstat, target, resumes, workVars>>

\* The handler of resume_sweep.
GiveUp(j) ==
    /\ req[j] = "giveup"
    /\ SetStatus(target[j], "failed")
    /\ Request(j, "ended")
    /\ UNCHANGED <<jobOf, checkpoints, results, old, jstat, target, msg, resumes, workVars, faults>>

Cancel(s) ==
    /\ Active(s)
    /\ SetStatus(s, "cancelled")
    /\ UNCHANGED <<jobOf, checkpoints, results, old, jstat, requestVars, msg, workVars, faults>>

-----------------------------------------------------------------------------
(* A worker. *)

workFrame == <<requestVars, msg>>

\* run_tracked_job: a failed mark_running is logged.
Deliver(s, marked) ==
    /\ msg[s] # NoJob /\ pc[s] = "idle"
    /\ Faulty(~marked)
    /\ jstat' = IF marked THEN [jstat EXCEPT ![msg[s]] = "running"] ELSE jstat
    /\ found' = [found EXCEPT ![s] = {}]
    /\ Goto(s, "start")
    /\ UNCHANGED <<sweepVars, workFrame, out>>

\* start_sweep_job locks the row; an inactive or superseded job does nothing.
Start(s) ==
    LET mine == status[s] = "pending" /\ Holds(s, msg[s])
    IN  /\ pc[s] = "start"
        /\ status' = IF mine THEN [status EXCEPT ![s] = "running"] ELSE status
        /\ Outcome(s, "ok")
        /\ Goto(s, IF mine THEN "run" ELSE "settle")
        /\ UNCHANGED <<jobOf, checkpoints, results, old, jstat, workFrame, found, faults>>

\* A configuration is restored or evaluated and its checkpoint committed.
Evaluate(s, c) ==
    /\ pc[s] = "run" /\ c \notin found[s]
    /\ found' = [found EXCEPT ![s] = @ \cup {c}]
    /\ checkpoints' = [checkpoints EXCEPT ![s] = @ \cup {c}]
    /\ old' = IF c \in checkpoints[s] THEN old ELSE [old EXCEPT ![s] = FALSE]
    /\ UNCHANGED <<status, jobOf, results, jstat, workFrame, pc, out, faults>>

\* save_sweep_run: the row of a configuration, over an older one even if judge scores
\* are missing now.
SaveRun(s, c) ==
    /\ c \in found[s] <=> c \notin results[s]
    /\ results' = [results EXCEPT ![s] = IF c \in found[s] THEN @ \cup {c} ELSE @ \ {c}]

\* record_sweep_progress
RecordProgress(s, c) ==
    /\ pc[s] = "run"
    /\ c \in found[s] \/ c \notin checkpoints[s]
    /\ SaveRun(s, c)
    /\ UNCHANGED <<status, jobOf, checkpoints, old, jstat, workFrame, workVars, faults>>

\* Configurations without all judge scores have neither checkpoint nor score.
EvaluationEnds(s) ==
    /\ pc[s] = "run" /\ checkpoints[s] \subseteq found[s]
    /\ Goto(s, "save")
    /\ UNCHANGED <<sweepVars, jstat, workFrame, out, found, faults>>

\* sweep_job_cancelled, polled during the evaluation.
Poll(s) ==
    /\ pc[s] = "run"
    /\ status[s] = "cancelled" \/ ~Holds(s, msg[s])
    /\ Goto(s, "cancelled")
    /\ UNCHANGED <<sweepVars, jstat, workFrame, out, found, faults>>

\* handle_sweep_cancelled does not look at the row again.
HandleCancelled(s) ==
    /\ pc[s] = "cancelled"
    /\ SetStatus(s, "cancelled")
    /\ Outcome(s, "ok")
    /\ Goto(s, "settle")
    /\ UNCHANGED <<jobOf, checkpoints, results, old, jstat, workFrame, found, faults>>

\* Mutant: the sweep is completed without validate_sweep_coverage.
SaveResultsMutant(s) ==
    /\ pc[s] = "save" /\ results[s] = found[s]
    /\ Goto(s, "complete")
    /\ UNCHANGED <<sweepVars, jstat, workFrame, found, out, faults>>

\* save_sweep_results writes the row of every configuration in a transaction of its own.
SaveRow(s, c) ==
    /\ pc[s] = "save"
    /\ SaveRun(s, c)
    /\ UNCHANGED <<status, jobOf, checkpoints, old, jstat, workFrame, workVars, faults>>

\* All rows are saved: the coverage is validated.
SaveResults(s) ==
    /\ pc[s] = "save" /\ results[s] = found[s]
    /\ Outcome(s, IF found[s] = Configs THEN out[s] ELSE "error")
    /\ Goto(s, IF found[s] = Configs THEN "complete" ELSE "fail")
    /\ UNCHANGED <<sweepVars, jstat, workFrame, found, faults>>

\* record_sweep_failure; a cancelled sweep ends as asked for.
RecordFailure(s) ==
    LET cancelled == status[s] = "cancelled"
    IN  /\ pc[s] = "fail"
        /\ status' = IF cancelled THEN status ELSE [status EXCEPT ![s] = "failed"]
        /\ Outcome(s, IF cancelled /\ out[s] = "error" THEN "ok" ELSE out[s])
        /\ Goto(s, "settle")
        /\ UNCHANGED <<jobOf, checkpoints, results, old, jstat, workFrame, found, faults>>

\* Mutant: the status is written without a look at the row.
CompleteMutant(s) ==
    /\ pc[s] = "complete"
    /\ SetStatus(s, "done")
    /\ Goto(s, "purge")
    /\ UNCHANGED <<jobOf, checkpoints, results, old, jstat, workFrame, out, found, faults>>

\* complete_sweep locks the row; a cancellation that came before wins.
Complete(s) ==
    LET cancelled == status[s] = "cancelled"
    IN  /\ pc[s] = "complete"
        /\ status' = IF cancelled THEN status ELSE [status EXCEPT ![s] = "done"]
        /\ Goto(s, IF cancelled THEN "settle" ELSE "purge")
        /\ UNCHANGED <<jobOf, checkpoints, results, old, jstat, workFrame, out, found, faults>>

\* The checkpoints go in a transaction of their own; an error is logged.
Purge(s, removed) ==
    /\ pc[s] = "purge"
    /\ Faulty(~removed)
    /\ checkpoints' = IF removed THEN [checkpoints EXCEPT ![s] = {}] ELSE checkpoints
    /\ Goto(s, "settle")
    /\ UNCHANGED <<status, jobOf, results, old, jstat, workFrame, out, found>>

\* mark_done or mark_failed; arq ends the message, or keeps it after a shutdown.
Settle(s, marked) ==
    /\ pc[s] = "settle"
    /\ Faulty(~marked)
    /\ jstat' = IF marked
                THEN [jstat EXCEPT ![msg[s]] = IF out[s] = "ok" THEN "done" ELSE "failed"]
                ELSE jstat
    /\ msg' = IF out[s] = "shutdown" THEN msg ELSE [msg EXCEPT ![s] = NoJob]
    /\ Goto(s, "idle")
    /\ UNCHANGED <<sweepVars, requestVars, out, found>>

-----------------------------------------------------------------------------
(* Failures of a worker. *)

\* The evaluation fails: a provider, the corpus or an invalid search space.
EvaluationFails(s) ==
    /\ pc[s] = "run"
    /\ Outcome(s, "error")
    /\ Goto(s, "fail")
    /\ UNCHANGED <<sweepVars, jstat, workFrame, found, faults>>

\* A transaction fails; only in the evaluation and in the saving is it recorded.
BodyFails(s) ==
    /\ pc[s] \in {"start", "save", "cancelled", "fail", "complete"}
    /\ Faulty(TRUE)
    /\ Outcome(s, "error")
    /\ Goto(s, IF pc[s] = "save" THEN "fail" ELSE "settle")
    /\ UNCHANGED <<sweepVars, jstat, workFrame, found>>

\* arq cancels the body after _SWEEP_TIMEOUT or at a shutdown, also when it publishes
\* its end or writes the reports.
CancelBody(s, why) ==
    /\ why \in {"timeout", "shutdown"}
    /\ pc[s] \in {"start", "run", "save", "cancelled", "fail", "complete", "purge", "settle"}
    /\ Faulty(TRUE)
    /\ Outcome(s, why)
    /\ Goto(s, IF pc[s] \in {"run", "save"} THEN "fail" ELSE "settle")
    /\ UNCHANGED <<sweepVars, jstat, workFrame, found>>

Crash(s) ==
    /\ pc[s] \notin {"idle", "lost"}
    /\ Faulty(TRUE)
    /\ Goto(s, "lost")
    /\ UNCHANGED <<sweepVars, jstat, workFrame, out, found>>

\* arq delivers again when its mark of the running message expires, ten seconds
\* after _SWEEP_TIMEOUT: by then the cron job has failed the job.
Expire(s) ==
    /\ pc[s] = "lost" /\ ~ActiveJob(msg[s])
    /\ Goto(s, "idle")
    /\ UNCHANGED <<sweepVars, jstat, workFrame, out, found, faults>>

-----------------------------------------------------------------------------
(* Cron jobs. *)

\* Mutant: without fail_dead_jobs.
RecoverJobsMutant(J) ==
    /\ \A j \in J : ActiveJob(j)
    /\ jstat' = [j \in Jobs |-> IF j \in J THEN "failed" ELSE jstat[j]]
    /\ UNCHANGED <<sweepVars, requestVars, msg, workVars, faults>>

\* recover_orphaned, fail_stale_pending and fail_dead_jobs are one transaction.
RecoverJobs(J) ==
    /\ \A j \in J : ActiveJob(j)
    /\ jstat' = [j \in Jobs |-> IF j \in J THEN "failed" ELSE jstat[j]]
    /\ status' = [s \in Sweeps |->
                     IF Active(s) /\ jobOf[s] # NoJob /\ jstat'[jobOf[s]] = "failed"
                     THEN "failed" ELSE status[s]]
    /\ UNCHANGED <<jobOf, checkpoints, results, old, requestVars, msg, workVars, faults>>

\* A day passes without a new checkpoint: no evaluation lasts that long.
Age(s) ==
    /\ pc[s] \in {"idle", "lost"} /\ checkpoints[s] # {} /\ ~old[s]
    /\ old' = [old EXCEPT ![s] = TRUE]
    /\ UNCHANGED <<status, jobOf, checkpoints, results, jstat, requestVars, msg, workVars, faults>>

\* Mutant: a resumed sweep looks as unused as a failed one.
CleanCheckpointsMutant(s) ==
    /\ checkpoints[s] # {}
    /\ status[s] = "done" \/ old[s]
    /\ jobOf[s] # NoJob => ~ActiveJob(jobOf[s])
    /\ checkpoints' = [checkpoints EXCEPT ![s] = {}]
    /\ UNCHANGED <<status, jobOf, results, old, jstat, requestVars, msg, workVars, faults>>

\* cleanup_checkpoints locks the rows it selects.
CleanCheckpoints(s) ==
    /\ checkpoints[s] # {} /\ ~Active(s)
    /\ status[s] = "done" \/ old[s]
    /\ jobOf[s] # NoJob => ~ActiveJob(jobOf[s])
    /\ checkpoints' = [checkpoints EXCEPT ![s] = {}]
    /\ UNCHANGED <<status, jobOf, results, old, jstat, requestVars, msg, workVars, faults>>

-----------------------------------------------------------------------------
Serve(j) == Requeue(j) \/ CreateJob(j) \/ Attach(j) \/ Enqueue(j) \/ GiveUp(j)

Work(s) ==
    \/ \E marked \in BOOLEAN : Deliver(s, marked) \/ Settle(s, marked)
    \/ Start(s) \/ HandleCancelled(s) \/ EvaluationEnds(s)
    \/ \E c \in Configs : Evaluate(s, c) \/ RecordProgress(s, c) \/ SaveRow(s, c)
    \/ SaveResults(s) \/ RecordFailure(s) \/ Complete(s)
    \/ \E removed \in BOOLEAN : Purge(s, removed)
    \/ Expire(s)

Disturb(s) ==
    \/ Poll(s) \/ EvaluationFails(s) \/ BodyFails(s) \/ Crash(s)
    \/ \E why \in {"timeout", "shutdown"} : CancelBody(s, why)

Next ==
    \/ \E s \in Sweeps, j \in Jobs : Create(s, j) \/ CheckResume(s, j)
    \/ \E j \in Jobs : Serve(j) \/ \E handled \in BOOLEAN : RequestFails(j, handled)
    \/ \E s \in Sweeps : Cancel(s) \/ Work(s) \/ Disturb(s) \/ Age(s) \/ CleanCheckpoints(s)
    \/ \E J \in SUBSET Jobs : RecoverJobs(J)

Spec == Init /\ [][Next]_vars

\* Requests and workers that run go on, arq delivers what is queued, and the cron jobs
\* come back every quarter of an hour.
Fairness ==
    /\ \A j \in Jobs : WF_vars(Serve(j))
    /\ \A s \in Sweeps : WF_vars(Work(s))
    /\ \A j \in Jobs : WF_vars(\E J \in SUBSET Jobs : j \in J /\ RecoverJobs(J))
    /\ WF_vars(RecoverJobs({}))
FairSpec == Spec /\ Fairness

-----------------------------------------------------------------------------
\* A sweep that is reported as done has the complete results of every configuration,
\* whatever execution of it, cancelled, resumed or given up for dead, reported it.
DoneHasResults == \A s \in Sweeps : status[s] = "done" => results[s] = Configs

\* A cancellation is final: only a resume sets a cancelled sweep going, and only a resume
\* that fails reports another end.
GivesUp(s) == \E j \in Jobs : req[j] = "giveup" /\ target[j] = s
CancellationHolds ==
    [][\A s \in Sweeps : status[s] = "cancelled" =>
           status'[s] \in {"cancelled", "pending"} \/ (status'[s] = "failed" /\ GivesUp(s))]_vars

\* Paid work is not lost: the checkpoints of a sweep go when all its results are stored,
\* or when nobody has gone on with it for a day.
CheckpointsKept ==
    [][\A s \in Sweeps : ~(checkpoints[s] \subseteq checkpoints'[s]) =>
           results[s] = Configs \/ (old[s] /\ ~Active(s))]_vars

\* A sweep with a job does not stay active behind a lost message, a suppressed
\* duplicate or a dead worker, unless its job is reported as done.
SweepsEnd ==
    \A s \in Sweeps : (Active(s) /\ jobOf[s] # NoJob)
        ~> (~Active(s) \/ jobOf[s] = NoJob \/ jstat[jobOf[s]] = "done")
=============================================================================
