----------------------- MODULE BenchmarkSweeps_proofs -----------------------
(***************************************************************************)
(* Proofs about BenchmarkSweeps.  Whether a sweep is done depends on where *)
(* its worker stands: only a worker that has saved every configuration     *)
(* comes to the step that reports it, and no sweep is done while a worker  *)
(* can still overwrite its results.                                        *)
(***************************************************************************)
EXTENDS BenchmarkSweeps, TLAPS

WorkFacts ==
    \A s \in Sweeps :
        /\ status[s] = "done" => results[s] = Configs
        /\ pc[s] \in {"complete", "purge"} => results[s] = Configs
        /\ pc[s] \in {"run", "save", "complete"} => status[s] # "done"

IInv == TypeOK /\ WorkFacts

LEMMA InitIInv == Init => IInv
BY FaultsAssumption DEF Init, IInv, TypeOK, WorkFacts, SweepStatus, Requests, Steps, Outcomes

(* An administrator: none of the requests reports a sweep as done.         *)
LEMMA OpenSteps ==
    ASSUME IInv, NEW s \in Sweeps, NEW j \in Jobs,
           Create(s, j) \/ CheckResume(s, j)
    PROVE  IInv'
<1> USE DEF IInv, sweepVars, workVars, Request, SetStatus
<1>1. CASE Create(s, j)
  <2>1. TypeOK' BY <1>1 DEF Create, TypeOK, SweepStatus, Requests
  <2>2. WorkFacts' BY <1>1 DEF Create, TypeOK, WorkFacts
  <2> QED BY <2>1, <2>2
<1>2. CASE CheckResume(s, j)
  <2>1. TypeOK' BY <1>2 DEF CheckResume, TypeOK, Requests
  <2>2. WorkFacts' BY <1>2 DEF CheckResume, WorkFacts
  <2> QED BY <2>1, <2>2
<1> QED BY <1>1, <1>2

LEMMA CancelStep ==
    ASSUME IInv, NEW s \in Sweeps, Cancel(s)
    PROVE  IInv'
<1> USE DEF IInv, Cancel, SetStatus, requestVars, workVars, TypeOK
<1>1. TypeOK' BY DEF SweepStatus
<1>2. WorkFacts' BY DEF WorkFacts
<1> QED BY <1>1, <1>2

LEMMA RequestSteps ==
    ASSUME IInv, NEW j \in Jobs, NEW handled \in BOOLEAN,
           Serve(j) \/ RequestFails(j, handled)
    PROVE  IInv'
<1> USE DEF IInv, sweepVars, workVars, Request, SetStatus
<1>1. CASE Requeue(j)
  <2>1. TypeOK' BY <1>1 DEF Requeue, TypeOK, SweepStatus, Requests
  <2>2. WorkFacts' BY <1>1 DEF Requeue, TypeOK, WorkFacts
  <2> QED BY <2>1, <2>2
<1>2. CASE CreateJob(j)
  <2>1. TypeOK' BY <1>2 DEF CreateJob, TypeOK, Requests
  <2>2. WorkFacts' BY <1>2 DEF CreateJob, WorkFacts
  <2> QED BY <2>1, <2>2
<1>3. CASE Attach(j)
  <2>1. TypeOK' BY <1>3 DEF Attach, TypeOK, Requests
  <2>2. WorkFacts' BY <1>3 DEF Attach, WorkFacts
  <2> QED BY <2>1, <2>2
<1>4. CASE Enqueue(j)
  <2>1. TypeOK' BY <1>4 DEF Enqueue, Queued, TypeOK, Requests
  <2>2. WorkFacts' BY <1>4 DEF Enqueue, WorkFacts
  <2> QED BY <2>1, <2>2
<1>5. CASE RequestFails(j, handled)
  <2>1. TypeOK' BY <1>5, FaultsAssumption DEF RequestFails, Queued, Faulty, TypeOK, Requests
  <2>2. WorkFacts' BY <1>5 DEF RequestFails, WorkFacts
  <2> QED BY <2>1, <2>2
<1>6. CASE GiveUp(j)
  <2>1. TypeOK' BY <1>6 DEF GiveUp, TypeOK, SweepStatus, Requests
  <2>2. WorkFacts' BY <1>6 DEF GiveUp, TypeOK, WorkFacts
  <2> QED BY <2>1, <2>2
<1> QED BY <1>1, <1>2, <1>3, <1>4, <1>5, <1>6 DEF Serve

(* The steps of a worker that goes on.                                     *)
LEMMA WorkSteps ==
    ASSUME IInv, NEW s \in Sweeps, Work(s)
    PROVE  IInv'
<1> USE DEF IInv, workFrame, sweepVars, requestVars, workVars, Goto, Outcome, SetStatus
<1>1. ASSUME NEW marked \in BOOLEAN, Deliver(s, marked) PROVE IInv'
  <2>1. TypeOK' BY <1>1, FaultsAssumption DEF Deliver, Faulty, TypeOK, Steps
  <2>2. WorkFacts' BY <1>1 DEF Deliver, TypeOK, WorkFacts
  <2> QED BY <2>1, <2>2
<1>2. ASSUME NEW marked \in BOOLEAN, Settle(s, marked) PROVE IInv'
  <2> USE <1>2 DEF Settle, TypeOK
  <2>1. jstat' \in [Jobs -> {"free", "pending", "running", "done", "failed"}]
    <3>1. CASE marked /\ out[s] = "ok" BY <3>1
    <3>2. CASE marked /\ out[s] # "ok" BY <3>2
    <3> QED BY <3>1, <3>2
  <2>2. msg' \in [Sweeps -> Jobs \cup {NoJob}] OBVIOUS
  <2>3. faults' \in 0 .. MaxFaults BY FaultsAssumption DEF Faulty
  <2>4. TypeOK' BY <2>1, <2>2, <2>3 DEF Steps
  <2>5. WorkFacts' BY <1>2 DEF Settle, TypeOK, WorkFacts
  <2> QED BY <2>4, <2>5
<1>3. CASE Start(s)
  <2>1. TypeOK' BY <1>3 DEF Start, TypeOK, SweepStatus, Steps, Outcomes
  <2>2. WorkFacts' BY <1>3 DEF Start, TypeOK, WorkFacts
  <2> QED BY <2>1, <2>2
<1>4. CASE HandleCancelled(s)
  <2>1. TypeOK' BY <1>4 DEF HandleCancelled, TypeOK, SweepStatus, Steps, Outcomes
  <2>2. WorkFacts' BY <1>4 DEF HandleCancelled, TypeOK, WorkFacts
  <2> QED BY <2>1, <2>2
<1>5. CASE EvaluationEnds(s)
  <2>1. TypeOK' BY <1>5 DEF EvaluationEnds, TypeOK, Steps
  <2>2. WorkFacts' BY <1>5 DEF EvaluationEnds, TypeOK, WorkFacts
  <2> QED BY <2>1, <2>2
<1>6. ASSUME NEW c \in Configs, Evaluate(s, c) PROVE IInv'
  <2>1. TypeOK' BY <1>6 DEF Evaluate, TypeOK
  <2>2. WorkFacts' BY <1>6 DEF Evaluate, WorkFacts
  <2> QED BY <2>1, <2>2
<1>7. ASSUME NEW c \in Configs, RecordProgress(s, c) PROVE IInv'
  <2>1. TypeOK' BY <1>7 DEF RecordProgress, SaveRun, TypeOK
  <2>2. WorkFacts' BY <1>7 DEF RecordProgress, SaveRun, TypeOK, WorkFacts
  <2> QED BY <2>1, <2>2
<1>8. CASE SaveResults(s)
  <2>1. TypeOK' BY <1>8 DEF SaveResults, TypeOK, Steps, Outcomes
  <2>2. WorkFacts' BY <1>8 DEF SaveResults, TypeOK, WorkFacts
  <2> QED BY <2>1, <2>2
<1>9. CASE RecordFailure(s)
  <2>1. TypeOK' BY <1>9 DEF RecordFailure, TypeOK, SweepStatus, Steps, Outcomes
  <2>2. WorkFacts' BY <1>9 DEF RecordFailure, TypeOK, WorkFacts
  <2> QED BY <2>1, <2>2
<1>10. CASE Complete(s)
  <2>1. TypeOK' BY <1>10 DEF Complete, TypeOK, SweepStatus, Steps
  <2>2. WorkFacts' BY <1>10 DEF Complete, TypeOK, WorkFacts
  <2> QED BY <2>1, <2>2
<1>11. ASSUME NEW removed \in BOOLEAN, Purge(s, removed) PROVE IInv'
  <2>1. TypeOK' BY <1>11, FaultsAssumption DEF Purge, Faulty, TypeOK, Steps
  <2>2. WorkFacts' BY <1>11 DEF Purge, TypeOK, WorkFacts
  <2> QED BY <2>1, <2>2
<1>12. CASE Expire(s)
  <2>1. TypeOK' BY <1>12 DEF Expire, TypeOK, Steps
  <2>2. WorkFacts' BY <1>12 DEF Expire, TypeOK, WorkFacts
  <2> QED BY <2>1, <2>2
<1>13. ASSUME NEW c \in Configs, SaveRow(s, c) PROVE IInv'
  <2>1. TypeOK' BY <1>13 DEF SaveRow, SaveRun, TypeOK
  <2>2. WorkFacts' BY <1>13 DEF SaveRow, SaveRun, TypeOK, WorkFacts
  <2> QED BY <2>1, <2>2
<1> QED BY <1>1, <1>2, <1>3, <1>4, <1>5, <1>6, <1>7, <1>8, <1>9, <1>10, <1>11, <1>12, <1>13 DEF Work

(* Polls, failures, cancelled bodies and lost processes.                   *)
LEMMA DisturbSteps ==
    ASSUME IInv, NEW s \in Sweeps, Disturb(s)
    PROVE  IInv'
<1> USE DEF IInv, workFrame, sweepVars, requestVars, workVars, Goto, Outcome
<1>1. CASE Poll(s)
  <2>1. TypeOK' BY <1>1 DEF Poll, TypeOK, Steps
  <2>2. WorkFacts' BY <1>1 DEF Poll, TypeOK, WorkFacts
  <2> QED BY <2>1, <2>2
<1>2. CASE EvaluationFails(s)
  <2>1. TypeOK' BY <1>2 DEF EvaluationFails, TypeOK, Steps, Outcomes
  <2>2. WorkFacts' BY <1>2 DEF EvaluationFails, TypeOK, WorkFacts
  <2> QED BY <2>1, <2>2
<1>3. CASE BodyFails(s)
  <2>1. TypeOK' BY <1>3, FaultsAssumption DEF BodyFails, Faulty, TypeOK, Steps, Outcomes
  <2>2. WorkFacts' BY <1>3 DEF BodyFails, TypeOK, WorkFacts
  <2> QED BY <2>1, <2>2
<1>4. ASSUME NEW why \in {"timeout", "shutdown"}, CancelBody(s, why) PROVE IInv'
  <2>1. TypeOK' BY <1>4, FaultsAssumption DEF CancelBody, Faulty, TypeOK, Steps, Outcomes
  <2>2. WorkFacts' BY <1>4 DEF CancelBody, TypeOK, WorkFacts
  <2> QED BY <2>1, <2>2
<1>5. CASE Crash(s)
  <2>1. TypeOK' BY <1>5, FaultsAssumption DEF Crash, Faulty, TypeOK, Steps
  <2>2. WorkFacts' BY <1>5 DEF Crash, TypeOK, WorkFacts
  <2> QED BY <2>1, <2>2
<1> QED BY <1>1, <1>2, <1>3, <1>4, <1>5 DEF Disturb

(* The cron jobs.                                                          *)
LEMMA RecoverStep ==
    ASSUME IInv, NEW J \in SUBSET Jobs, RecoverJobs(J)
    PROVE  IInv'
<1> USE DEF IInv, RecoverJobs, requestVars, workVars, TypeOK
<1>1. TypeOK' BY DEF SweepStatus
<1>2. WorkFacts' BY DEF WorkFacts
<1> QED BY <1>1, <1>2

LEMMA CheckpointSteps ==
    ASSUME IInv, NEW s \in Sweeps, Age(s) \/ CleanCheckpoints(s)
    PROVE  IInv'
<1> USE DEF IInv, requestVars, workVars
<1>1. CASE Age(s)
  <2>1. TypeOK' BY <1>1 DEF Age, TypeOK
  <2>2. WorkFacts' BY <1>1 DEF Age, WorkFacts
  <2> QED BY <2>1, <2>2
<1>2. CASE CleanCheckpoints(s)
  <2>1. TypeOK' BY <1>2 DEF CleanCheckpoints, TypeOK
  <2>2. WorkFacts' BY <1>2 DEF CleanCheckpoints, WorkFacts
  <2> QED BY <2>1, <2>2
<1> QED BY <1>1, <1>2

(* The inductive invariant of requests, workers and cron jobs on sweeps,   *)
(* whatever fails and whoever is cancelled.                                *)
THEOREM SweepInvariant == Spec => []IInv
<1>1. IInv /\ [Next]_vars => IInv'
  <2> SUFFICES ASSUME IInv, [Next]_vars PROVE IInv' OBVIOUS
  <2>1. ASSUME NEW s \in Sweeps, NEW j \in Jobs, Create(s, j) \/ CheckResume(s, j) PROVE IInv'
    BY <2>1, OpenSteps
  <2>2. ASSUME NEW j \in Jobs, Serve(j) \/ \E handled \in BOOLEAN : RequestFails(j, handled)
        PROVE  IInv'
    BY <2>2, RequestSteps
  <2>3. ASSUME NEW s \in Sweeps, Cancel(s) \/ Work(s) \/ Disturb(s) \/ Age(s) \/ CleanCheckpoints(s)
        PROVE  IInv'
    BY <2>3, CancelStep, WorkSteps, DisturbSteps, CheckpointSteps
  <2>4. ASSUME NEW J \in SUBSET Jobs, RecoverJobs(J) PROVE IInv'
    BY <2>4, RecoverStep
  <2>5. CASE UNCHANGED vars
    BY <2>5 DEF vars, IInv, TypeOK, WorkFacts
  <2> QED BY <2>1, <2>2, <2>3, <2>4, <2>5 DEF Next
<1> QED BY InitIInv, <1>1, PTL DEF Spec

(* Every row, job, message, request and worker keeps its type.             *)
THEOREM SweepsTypeCorrect == Spec => []TypeOK
<1>1. IInv => TypeOK BY DEF IInv
<1> QED BY SweepInvariant, <1>1, PTL

(* A sweep that is reported as done has all its results (complete_sweep    *)
(* after save_sweep_results and validate_sweep_coverage).                  *)
THEOREM DoneSweepsAreComplete == Spec => []DoneHasResults
<1>1. IInv => DoneHasResults BY DEF IInv, WorkFacts, DoneHasResults
<1> QED BY SweepInvariant, <1>1, PTL

(* Who may set a cancelled sweep going or report another end of it: a      *)
(* resume, or the handler of a resume that fails.                          *)
LEMMA CancelledStays ==
    ASSUME IInv, [Next]_vars, NEW t \in Sweeps, status[t] = "cancelled"
    PROVE  status'[t] \in {"cancelled", "pending"} \/ (status'[t] = "failed" /\ GivesUp(t))
<1> USE DEF IInv, TypeOK, sweepVars, requestVars, workVars, workFrame
<1> USE DEF SetStatus
<1>1. ASSUME NEW s \in Sweeps, NEW j \in Jobs, Create(s, j) \/ CheckResume(s, j)
      PROVE  status'[t] \in {"cancelled", "pending"}
  BY <1>1 DEF Create, CheckResume
<1>2. ASSUME NEW j \in Jobs, Requeue(j) PROVE status'[t] \in {"cancelled", "pending"}
  BY <1>2 DEF Requeue
<1>3. ASSUME NEW j \in Jobs, CreateJob(j) \/ Attach(j) \/ Enqueue(j)
      PROVE  status' = status
  BY <1>3 DEF CreateJob, Attach, Enqueue
<1>4. ASSUME NEW j \in Jobs, GiveUp(j)
      PROVE  status'[t] = "cancelled" \/ (status'[t] = "failed" /\ GivesUp(t))
  BY <1>4 DEF GiveUp, GivesUp
<1>5. ASSUME NEW j \in Jobs, NEW handled \in BOOLEAN, RequestFails(j, handled)
      PROVE  status' = status
  BY <1>5 DEF RequestFails
<1>6. ASSUME NEW s \in Sweeps, Cancel(s) \/ HandleCancelled(s)
      PROVE  status'[t] = "cancelled"
  BY <1>6 DEF Cancel, HandleCancelled
<1>7. ASSUME NEW s \in Sweeps, Start(s) \/ RecordFailure(s) \/ Complete(s)
      PROVE  status'[t] = "cancelled"
  BY <1>7 DEF Start, RecordFailure, Complete
<1>8. ASSUME NEW s \in Sweeps, NEW b \in BOOLEAN,
             Deliver(s, b) \/ Settle(s, b) \/ Purge(s, b) \/ EvaluationEnds(s)
             \/ SaveResults(s) \/ Expire(s)
      PROVE  status' = status
  BY <1>8 DEF Deliver, Settle, Purge, EvaluationEnds, SaveResults, Expire
<1>9. ASSUME NEW s \in Sweeps, NEW c \in Configs, Evaluate(s, c) \/ RecordProgress(s, c) \/ SaveRow(s, c)
      PROVE  status' = status
  BY <1>9 DEF Evaluate, RecordProgress, SaveRow, SaveRun
<1>10. ASSUME NEW s \in Sweeps, Disturb(s) \/ Age(s) \/ CleanCheckpoints(s)
       PROVE  status' = status
  BY <1>10 DEF Disturb, Poll, EvaluationFails, BodyFails, Crash, CancelBody, Age, CleanCheckpoints
<1>11. ASSUME NEW J \in SUBSET Jobs, RecoverJobs(J) PROVE status'[t] = "cancelled"
  BY <1>11 DEF RecoverJobs, Active
<1>12. CASE UNCHANGED vars BY <1>12 DEF vars
<1> QED BY <1>1, <1>2, <1>3, <1>4, <1>5, <1>6, <1>7, <1>8, <1>9, <1>10, <1>11, <1>12
        DEF Next, Serve, Work

(* A cancellation is final but for a resume (cancel, start_sweep_job,      *)
(* complete_sweep, record_sweep_failure and fail_dead_jobs).               *)
THEOREM CancellationsHold == Spec => CancellationHolds
<1>1. IInv /\ [Next]_vars =>
        [\A s \in Sweeps : status[s] = "cancelled" =>
             status'[s] \in {"cancelled", "pending"} \/ (status'[s] = "failed" /\ GivesUp(s))]_vars
  BY CancelledStays
<1> QED BY SweepInvariant, <1>1, PTL DEF Spec, CancellationHolds

(* Who may remove the checkpoints of a sweep.                              *)
LEMMA CheckpointsStay ==
    ASSUME IInv, [Next]_vars, NEW t \in Sweeps, ~(checkpoints[t] \subseteq checkpoints'[t])
    PROVE  results[t] = Configs \/ (old[t] /\ ~Active(t))
<1> USE DEF IInv, TypeOK, sweepVars, requestVars, workVars, workFrame
<1>1. ASSUME NEW s \in Sweeps, NEW j \in Jobs, Create(s, j) \/ CheckResume(s, j)
      PROVE  checkpoints' = checkpoints
  BY <1>1 DEF Create, CheckResume
<1>2. ASSUME NEW j \in Jobs, Serve(j) PROVE checkpoints' = checkpoints
  BY <1>2 DEF Serve, Requeue, CreateJob, Attach, Enqueue, GiveUp
<1>3. ASSUME NEW j \in Jobs, NEW handled \in BOOLEAN, RequestFails(j, handled)
      PROVE  checkpoints' = checkpoints
  BY <1>3 DEF RequestFails
<1>4. ASSUME NEW s \in Sweeps, NEW b \in BOOLEAN,
             Deliver(s, b) \/ Settle(s, b) \/ EvaluationEnds(s) \/ SaveResults(s) \/ Expire(s)
      PROVE  checkpoints' = checkpoints
  BY <1>4 DEF Deliver, Settle, EvaluationEnds, SaveResults, Expire
<1>5. ASSUME NEW s \in Sweeps,
             Cancel(s) \/ Start(s) \/ HandleCancelled(s) \/ RecordFailure(s) \/ Complete(s)
      PROVE  checkpoints' = checkpoints
  BY <1>5 DEF Cancel, Start, HandleCancelled, RecordFailure, Complete
<1>6. ASSUME NEW s \in Sweeps, NEW c \in Configs, Evaluate(s, c) \/ RecordProgress(s, c) \/ SaveRow(s, c)
      PROVE  checkpoints[t] \subseteq checkpoints'[t]
  BY <1>6 DEF Evaluate, RecordProgress, SaveRow, SaveRun
<1>7. ASSUME NEW s \in Sweeps, NEW removed \in BOOLEAN, Purge(s, removed)
      PROVE  results[t] = Configs
  BY <1>7 DEF Purge, WorkFacts
<1>8. ASSUME NEW s \in Sweeps, Disturb(s) \/ Age(s)
      PROVE  checkpoints' = checkpoints
  BY <1>8 DEF Disturb, Poll, EvaluationFails, BodyFails, Crash, CancelBody, Age
<1>9. ASSUME NEW s \in Sweeps, CleanCheckpoints(s)
      PROVE  results[t] = Configs \/ (old[t] /\ ~Active(t))
  BY <1>9 DEF CleanCheckpoints, WorkFacts
<1>10. ASSUME NEW J \in SUBSET Jobs, RecoverJobs(J) PROVE checkpoints' = checkpoints
  BY <1>10 DEF RecoverJobs
<1>11. CASE UNCHANGED vars BY <1>11 DEF vars
<1> QED BY <1>1, <1>2, <1>3, <1>4, <1>5, <1>6, <1>7, <1>8, <1>9, <1>10, <1>11 DEF Next, Work

(* A step removes checkpoints of a sweep only when the results of all its  *)
(* configurations are stored, or when the sweep is not active and its       *)
(* checkpoints are older than a day: such a sweep loses them without        *)
(* complete results, and one with complete results may lose them whatever   *)
(* its status (complete_sweep and cleanup_checkpoints).                    *)
THEOREM CheckpointsAreKept == Spec => CheckpointsKept
<1>1. IInv /\ [Next]_vars =>
        [\A s \in Sweeps : ~(checkpoints[s] \subseteq checkpoints'[s]) =>
             results[s] = Configs \/ (old[s] /\ ~Active(s))]_vars
  BY CheckpointsStay
<1> QED BY SweepInvariant, <1>1, PTL DEF Spec, CheckpointsKept
=============================================================================
