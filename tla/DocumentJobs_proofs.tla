------------------------ MODULE DocumentJobs_proofs ------------------------
(***************************************************************************)
(* Proofs about DocumentJobs.                                                *)
(***************************************************************************)
EXTENDS DocumentJobs, TLAPS

\* Every step keeps the types.
LEMMA TypeNext ==
    ASSUME TypeOK, Shape, Next
    PROVE  TypeOK'
<1> USE BoundsAssumption, NamesAssumption
<1>1. ASSUME NEW d \in Docs, NEW r \in Docs \cup {NoDoc}, Upload(d, r) PROVE TypeOK'
  BY <1>1
     DEF Upload, MayReplace, rowVars, queueVars, bodyVars, TypeOK, Steps, ProcessSteps,
         DeleteSteps, Outcomes, DocStatus, JobStatus
<1>2. ASSUME NEW d \in Docs, UploadLost(d) PROVE TypeOK'
  BY <1>2
     DEF UploadLost, Faulty, rowVars, queueVars, bodyVars, TypeOK, Steps, ProcessSteps,
         DeleteSteps, Outcomes, DocStatus, JobStatus
<1>3. ASSUME NEW d \in Docs, CreateJobLost(d) PROVE TypeOK'
  BY <1>3
     DEF CreateJobLost, Faulty, docVars, rowVars, queueVars, bodyVars, TypeOK, Steps,
         ProcessSteps, DeleteSteps, Outcomes, DocStatus, JobStatus
<1>4. ASSUME NEW d \in Docs, NEW j \in Jobs, CreateJob(d, j) PROVE TypeOK'
  BY <1>4
     DEF CreateJob, NewRow, docVars, bodyVars, TypeOK, Steps, ProcessSteps, DeleteSteps,
         Outcomes, DocStatus, JobStatus
<1>5. ASSUME NEW d \in Docs, NEW j \in Jobs, RequestDeletion(d, j) PROVE TypeOK'
  BY <1>5
     DEF RequestDeletion, Exists, NewRow, DocStatus, docVars, bodyVars, TypeOK, Steps,
         ProcessSteps, DeleteSteps, Outcomes, JobStatus
<1>6. ASSUME NEW j \in Jobs, EnqueueLost(j) PROVE TypeOK'
  BY <1>6
     DEF EnqueueLost, Faulty, docVars, rowVars, bodyVars, TypeOK, Steps, ProcessSteps,
         DeleteSteps, Outcomes, DocStatus, JobStatus
<1>7. ASSUME NEW j \in Jobs, EnqueueRefused(j) PROVE TypeOK'
  BY <1>7
     DEF EnqueueRefused, Faulty, SetJob, docVars, bodyVars, JobStatus, TypeOK, Steps,
         ProcessSteps, DeleteSteps, Outcomes, DocStatus
<1>8. ASSUME NEW j \in Jobs, Enqueue(j) PROVE TypeOK'
  BY <1>8
     DEF Enqueue, docVars, rowVars, bodyVars, TypeOK, Steps, ProcessSteps, DeleteSteps,
         Outcomes, DocStatus, JobStatus
<1>9. ASSUME NEW j \in Jobs, Admit(j) PROVE TypeOK'
  <2>1. tries' \in [Jobs -> Nat] /\ runs' \in [Jobs -> Nat]
    BY <1>9 DEF Admit, Delivered, TypeOK
  <2>2. lease' \in [Principals -> Jobs \cup {Free, Abandoned}]
    BY <1>9 DEF Admit, TypeOK
  <2>3. msg' \in [Jobs -> {"none", "unsent", "queued", "running"}] /\ pc' \in [Jobs -> Steps]
    BY <1>9 DEF Admit, Goto, TypeOK, Steps
  <2> QED
    BY <1>9, <2>1, <2>2, <2>3 DEF Admit, docVars, rowVars, TypeOK
<1>10. ASSUME NEW j \in Jobs, Wait(j) PROVE TypeOK'
  BY <1>10
     DEF Wait, Delivered, Principal, docVars, rowVars, bodyVars, TypeOK, Steps,
         ProcessSteps, DeleteSteps, Outcomes, DocStatus, JobStatus
<1>11. ASSUME NEW j \in Jobs, StartDeletion(j) PROVE TypeOK'
  BY <1>11
     DEF StartDeletion, Delivered, Goto, docVars, rowVars, TypeOK, Steps, ProcessSteps,
         DeleteSteps, Outcomes, DocStatus, JobStatus
<1>12. ASSUME NEW j \in Jobs, Exhaust(j) PROVE TypeOK'
  BY <1>12
     DEF Exhaust, docVars, rowVars, bodyVars, TypeOK, Steps, ProcessSteps, DeleteSteps,
         Outcomes, DocStatus, JobStatus
<1>13. ASSUME NEW j \in Jobs, NEW b \in BOOLEAN, MarkRunning(j, b) PROVE TypeOK'
  BY <1>13
     DEF MarkRunning, Faulty, SetJob, Goto, docVars, workFrame, JobStatus, queueVars,
         TypeOK, Steps, ProcessSteps, DeleteSteps, Outcomes, DocStatus
<1>14. ASSUME NEW j \in Jobs, NEW b \in BOOLEAN, Lookup(j, b) PROVE TypeOK'
  BY <1>14
     DEF Lookup, Exists, Goto, Outcome, docVars, workFrame, DocStatus, queueVars, TypeOK,
         Steps, ProcessSteps, DeleteSteps, Outcomes, JobStatus
<1>15. ASSUME NEW j \in Jobs, NEW b \in BOOLEAN, Check(j, b) PROVE TypeOK'
  BY <1>15
     DEF Check, Exists, Goto, docVars, workFrame, DocStatus, queueVars, TypeOK, Steps,
         ProcessSteps, DeleteSteps, Outcomes, JobStatus
<1>16. ASSUME NEW j \in Jobs, Begin(j) PROVE TypeOK'
  BY <1>16
     DEF Begin, SetStatus, Goto, workFrame, Exists, queueVars, DocStatus, TypeOK, Steps,
         ProcessSteps, DeleteSteps, Outcomes, JobStatus
<1>17. ASSUME NEW j \in Jobs, NEW b \in BOOLEAN, Parse(j, b) PROVE TypeOK'
  BY <1>17
     DEF Parse, Goto, Outcome, docVars, workFrame, queueVars, TypeOK, Steps, ProcessSteps,
         DeleteSteps, Outcomes, DocStatus, JobStatus
<1>18. ASSUME NEW j \in Jobs, NEW b \in BOOLEAN, Persist(j, b) PROVE TypeOK'
  <2>1. target[j] \in Docs
    BY <1>18 DEF Persist, Shape, ProcessSteps
  <2>2. stat' \in [Docs -> DocStatus \cup {"absent", "gone"}]
    BY <1>18 DEF Persist, Replaced, TypeOK, DocStatus
  <2>3. content' \subseteq Docs
    BY <1>18, <2>1 DEF Persist, TypeOK
  <2>4. doomed' \in [Jobs -> SUBSET Docs] /\ pc' \in [Jobs -> Steps]
    BY <1>18 DEF Persist, Replaced, Goto, TypeOK, Steps, ProcessSteps
  <2> QED
    BY <1>18, <2>2, <2>3, <2>4 DEF Persist, workFrame, queueVars, TypeOK
<1>19. ASSUME NEW j \in Jobs, PersistNothing(j) PROVE TypeOK'
  BY <1>19
     DEF PersistNothing, Exists, Goto, docVars, workFrame, DocStatus, queueVars, TypeOK,
         Steps, ProcessSteps, DeleteSteps, Outcomes, JobStatus
<1>20. ASSUME NEW j \in Jobs, Invalidate(j) PROVE TypeOK'
  BY <1>20
     DEF Invalidate, Goto, docVars, workFrame, queueVars, TypeOK, Steps, ProcessSteps,
         DeleteSteps, Outcomes, DocStatus, JobStatus
<1>21. ASSUME NEW j \in Jobs, NEW b \in BOOLEAN, Handle(j, b) PROVE TypeOK'
  BY <1>21
     DEF Handle, Faulty, SetStatus, Goto, workFrame, Exists, queueVars, DocStatus, TypeOK,
         Steps, ProcessSteps, DeleteSteps, Outcomes, JobStatus
<1>22. ASSUME NEW j \in Jobs, NEW b \in BOOLEAN, Cleanup(j, b) PROVE TypeOK'
  BY <1>22
     DEF Cleanup, Faulty, Goto, docVars, workFrame, queueVars, TypeOK, Steps, ProcessSteps,
         DeleteSteps, Outcomes, DocStatus, JobStatus
<1>23. ASSUME NEW j \in Jobs, DeletionLookup(j) PROVE TypeOK'
  BY <1>23
     DEF DeletionLookup, Goto, Exists, docVars, workFrame, DocStatus, queueVars, TypeOK,
         Steps, ProcessSteps, DeleteSteps, Outcomes, JobStatus
<1>24. ASSUME NEW j \in Jobs, Denied(j) PROVE TypeOK'
  BY <1>24
     DEF Denied, Exists, Outcome, Goto, docVars, workFrame, DocStatus, queueVars, TypeOK,
         Steps, ProcessSteps, DeleteSteps, Outcomes, JobStatus
<1>25. ASSUME NEW j \in Jobs, Erase(j) PROVE TypeOK'
  BY <1>25
     DEF Erase, SetStatus, Goto, Exists, workFrame, DocStatus, queueVars, TypeOK, Steps,
         ProcessSteps, DeleteSteps, Outcomes, JobStatus
<1>26. ASSUME NEW j \in Jobs, NEW b \in BOOLEAN, RemoveObject(j, b) PROVE TypeOK'
  BY <1>26
     DEF RemoveObject, Faulty, Goto, docVars, workFrame, queueVars, TypeOK, Steps,
         ProcessSteps, DeleteSteps, Outcomes, DocStatus, JobStatus
<1>27. ASSUME NEW j \in Jobs, DeletionInvalidate(j) PROVE TypeOK'
  <2>1. target[j] \in Docs
    BY <1>27 DEF DeletionInvalidate, Shape, DeleteSteps
  <2> QED
    BY <1>27, <2>1 DEF DeletionInvalidate, Goto, Outcome, docVars, workFrame, queueVars, TypeOK,
       Steps, Outcomes
<1>28. ASSUME NEW j \in Jobs, NEW b \in BOOLEAN, Settle(j, b) PROVE TypeOK'
  BY <1>28
     DEF Settle, Last, Faulty, SetJob, Goto, docVars, workFrame, Try, JobStatus, queueVars,
         TypeOK, Steps, ProcessSteps, DeleteSteps, Outcomes, DocStatus
<1>29. ASSUME NEW j \in Jobs, NEW b \in BOOLEAN, Leave(j, b) PROVE TypeOK'
  BY <1>29
     DEF Leave, Last, Faulty, Release, Again, Try, Goto, docVars, rowVars, TypeOK, Steps,
         ProcessSteps, DeleteSteps, Outcomes, DocStatus, JobStatus
<1>30. ASSUME NEW j \in Jobs, AdmissionFails(j) PROVE TypeOK'
  BY <1>30
     DEF AdmissionFails, Delivered, Faulty, docVars, rowVars, bodyVars, TypeOK, Steps,
         ProcessSteps, DeleteSteps, Outcomes, DocStatus, JobStatus
<1>31. ASSUME NEW j \in Jobs, BodyFails(j) PROVE TypeOK'
  BY <1>31
     DEF BodyFails, DeleteSteps, Faulty, Outcome, Goto, docVars, workFrame, queueVars,
         TypeOK, Steps, ProcessSteps, Outcomes, DocStatus, JobStatus
<1>32. ASSUME NEW j \in Jobs, Crash(j) PROVE TypeOK'
  BY <1>32
     DEF Crash, Running, Faulty, Release, Goto, docVars, rowVars, TypeOK, Steps,
         ProcessSteps, DeleteSteps, Outcomes, DocStatus, JobStatus
<1>33. ASSUME NEW j \in Jobs, NEW why \in {"timeout", "shutdown"}, Cancel(j, why)
      PROVE TypeOK'
  BY <1>33
     DEF Cancel, ProcessSteps, DeleteSteps, Faulty, Outcome, Goto, docVars, workFrame,
         queueVars, TypeOK, Steps, Outcomes, DocStatus, JobStatus
<1>34. ASSUME NEW orphans \in SUBSET Jobs, NEW stale \in SUBSET Jobs, RecoverJobs(orphans, stale)
      PROVE TypeOK'
  <2>1. dead' \subseteq Docs
    BY <1>34 DEF RecoverJobs, Stale, Shape
  <2>2. jstat' \in [Jobs -> JobStatus \cup {"free", "deleted"}]
    BY <1>34 DEF RecoverJobs, TypeOK, JobStatus
  <2> QED
    BY <1>34, <2>1, <2>2 DEF RecoverJobs, cronFrame, queueVars, bodyVars, TypeOK
<1>35. ASSUME FailDocuments PROVE TypeOK'
  BY <1>35
     DEF FailDocuments, cronFrame, queueVars, bodyVars, TypeOK, Steps, ProcessSteps,
         DeleteSteps, Outcomes, DocStatus, JobStatus
<1>36. ASSUME CronLost PROVE TypeOK'
  BY <1>36
     DEF CronLost, Faulty, cronFrame, queueVars, bodyVars, TypeOK, Steps, ProcessSteps,
         DeleteSteps, Outcomes, DocStatus, JobStatus
<1>37. ASSUME NEW d \in Docs, RecoverStuck(d) PROVE TypeOK'
  BY <1>37
     DEF RecoverStuck, cronFrame, queueVars, bodyVars, TypeOK, Steps, ProcessSteps,
         DeleteSteps, Outcomes, DocStatus, JobStatus
<1>38. ASSUME NEW j \in Jobs, DeleteOld(j) PROVE TypeOK'
  BY <1>38
     DEF DeleteOld, cronFrame, queueVars, bodyVars, TypeOK, Steps, ProcessSteps,
         DeleteSteps, Outcomes, DocStatus, JobStatus
<1>39. ASSUME NEW p \in Principals, LeaseExpires(p) PROVE TypeOK'
  BY <1>39
     DEF LeaseExpires, docVars, rowVars, bodyVars, TypeOK, Steps, ProcessSteps, DeleteSteps,
         Outcomes, DocStatus, JobStatus
<1>40. ASSUME NEW d \in Docs, Indexed(d) PROVE TypeOK'
  BY <1>40
     DEF Indexed, cronFrame, queueVars, bodyVars, TypeOK, Steps, ProcessSteps, DeleteSteps,
         Outcomes, DocStatus, JobStatus
<1> QED
  BY <1>1, <1>2, <1>3, <1>4, <1>5, <1>6, <1>7, <1>8, <1>9, <1>10, <1>11, <1>12, <1>13,
     <1>14, <1>15, <1>16, <1>17, <1>18, <1>19, <1>20, <1>21, <1>22, <1>23, <1>24, <1>25,
     <1>26, <1>27, <1>28, <1>29, <1>30, <1>31, <1>32, <1>33, <1>34, <1>35, <1>36, <1>37,
     <1>38, <1>39, <1>40
     DEF Next, Request, Progress, Fault, Cron
\* Every step keeps the shape of the jobs.
LEMMA ShapeNext ==
    ASSUME TypeOK, Shape, Next
    PROVE  Shape'
<1>0. /\ pc \in [Jobs -> Steps] /\ kind \in [Jobs -> {"none", "process", "delete"}]
      /\ jstat \in [Jobs -> JobStatus \cup {"free", "deleted"}]
      /\ msg \in [Jobs -> {"none", "unsent", "queued", "running"}]
      /\ target \in [Jobs -> Docs \cup {NoDoc}] /\ awaiting \subseteq Docs
  BY DEF TypeOK
<1>1. ASSUME NEW d \in Docs, NEW r \in Docs \cup {NoDoc}, Upload(d, r) PROVE Shape'
  BY <1>1, <1>0
     DEF Upload, MayReplace, rowVars, queueVars, bodyVars, Shape, Running, ProcessSteps,
         DeleteSteps, SetJob, JobStatus
<1>2. ASSUME NEW d \in Docs, UploadLost(d) PROVE Shape'
  BY <1>2, <1>0
     DEF UploadLost, Faulty, rowVars, queueVars, bodyVars, Shape, Running, ProcessSteps,
         DeleteSteps, SetJob, JobStatus
<1>3. ASSUME NEW d \in Docs, CreateJobLost(d) PROVE Shape'
  BY <1>3, <1>0
     DEF CreateJobLost, Faulty, docVars, rowVars, queueVars, bodyVars, Shape, Running,
         ProcessSteps, DeleteSteps, SetJob, JobStatus
<1>4. ASSUME NEW d \in Docs, NEW j \in Jobs, CreateJob(d, j) PROVE Shape'
  BY <1>4, <1>0
     DEF CreateJob, NewRow, docVars, bodyVars, Shape, Running, ProcessSteps, DeleteSteps,
         SetJob, JobStatus
<1>5. ASSUME NEW d \in Docs, NEW j \in Jobs, RequestDeletion(d, j) PROVE Shape'
  BY <1>5, <1>0
     DEF RequestDeletion, NewRow, docVars, bodyVars, Shape, Running, ProcessSteps,
         DeleteSteps, SetJob, JobStatus
<1>6. ASSUME NEW j \in Jobs, EnqueueLost(j) PROVE Shape'
  BY <1>6, <1>0
     DEF EnqueueLost, Faulty, docVars, rowVars, bodyVars, Shape, Running, ProcessSteps,
         DeleteSteps, SetJob, JobStatus
<1>7. ASSUME NEW j \in Jobs, EnqueueRefused(j) PROVE Shape'
  BY <1>7, <1>0
     DEF EnqueueRefused, Faulty, SetJob, docVars, bodyVars, Shape, Running, ProcessSteps,
         DeleteSteps, JobStatus
<1>8. ASSUME NEW j \in Jobs, Enqueue(j) PROVE Shape'
  BY <1>8, <1>0
     DEF Enqueue, docVars, rowVars, bodyVars, Shape, Running, ProcessSteps, DeleteSteps,
         SetJob, JobStatus
<1>9. ASSUME NEW j \in Jobs, Admit(j) PROVE Shape'
  BY <1>9, <1>0
     DEF Admit, Delivered, Principal, Goto, docVars, rowVars, Shape, Running, ProcessSteps,
         DeleteSteps, SetJob, JobStatus
<1>10. ASSUME NEW j \in Jobs, Wait(j) PROVE Shape'
  BY <1>10, <1>0
     DEF Wait, Delivered, Principal, docVars, rowVars, bodyVars, Shape, Running,
         ProcessSteps, DeleteSteps, SetJob, JobStatus
<1>11. ASSUME NEW j \in Jobs, StartDeletion(j) PROVE Shape'
  BY <1>11, <1>0
     DEF StartDeletion, Delivered, Goto, docVars, rowVars, Shape, Running, ProcessSteps,
         DeleteSteps, SetJob, JobStatus
<1>12. ASSUME NEW j \in Jobs, Exhaust(j) PROVE Shape'
  BY <1>12, <1>0
     DEF Exhaust, docVars, rowVars, bodyVars, Shape, Running, ProcessSteps, DeleteSteps,
         SetJob, JobStatus
<1>13. ASSUME NEW j \in Jobs, NEW b \in BOOLEAN, MarkRunning(j, b) PROVE Shape'
  BY <1>13, <1>0
     DEF MarkRunning, Faulty, SetJob, Goto, docVars, workFrame, queueVars, Shape, Running,
         ProcessSteps, DeleteSteps, JobStatus
<1>14. ASSUME NEW j \in Jobs, NEW b \in BOOLEAN, Lookup(j, b) PROVE Shape'
  BY <1>14, <1>0
     DEF Lookup, Goto, Outcome, docVars, workFrame, queueVars, Shape, Running, ProcessSteps,
         DeleteSteps, SetJob, JobStatus
<1>15. ASSUME NEW j \in Jobs, NEW b \in BOOLEAN, Check(j, b) PROVE Shape'
  BY <1>15, <1>0
     DEF Check, Goto, docVars, workFrame, queueVars, Shape, Running, ProcessSteps,
         DeleteSteps, SetJob, JobStatus
<1>16. ASSUME NEW j \in Jobs, Begin(j) PROVE Shape'
  BY <1>16, <1>0
     DEF Begin, Goto, workFrame, queueVars, Shape, Running, ProcessSteps, DeleteSteps,
         SetJob, JobStatus
<1>17. ASSUME NEW j \in Jobs, NEW b \in BOOLEAN, Parse(j, b) PROVE Shape'
  BY <1>17, <1>0
     DEF Parse, Goto, Outcome, docVars, workFrame, queueVars, Shape, Running, ProcessSteps,
         DeleteSteps, SetJob, JobStatus
<1>18. ASSUME NEW j \in Jobs, NEW b \in BOOLEAN, Persist(j, b) PROVE Shape'
  BY <1>18, <1>0
     DEF Persist, Replaced, Goto, workFrame, queueVars, Shape, Running, ProcessSteps,
         DeleteSteps, SetJob, JobStatus
<1>19. ASSUME NEW j \in Jobs, PersistNothing(j) PROVE Shape'
  BY <1>19, <1>0
     DEF PersistNothing, Goto, docVars, workFrame, queueVars, Shape, Running, ProcessSteps,
         DeleteSteps, SetJob, JobStatus
<1>20. ASSUME NEW j \in Jobs, Invalidate(j) PROVE Shape'
  BY <1>20, <1>0
     DEF Invalidate, Goto, docVars, workFrame, queueVars, Shape, Running, ProcessSteps,
         DeleteSteps, SetJob, JobStatus
<1>21. ASSUME NEW j \in Jobs, NEW b \in BOOLEAN, Handle(j, b) PROVE Shape'
  BY <1>21, <1>0
     DEF Handle, Faulty, Goto, workFrame, queueVars, Shape, Running, ProcessSteps,
         DeleteSteps, SetJob, JobStatus
<1>22. ASSUME NEW j \in Jobs, NEW b \in BOOLEAN, Cleanup(j, b) PROVE Shape'
  BY <1>22, <1>0
     DEF Cleanup, Faulty, Goto, docVars, workFrame, queueVars, Shape, Running, ProcessSteps,
         DeleteSteps, SetJob, JobStatus
<1>23. ASSUME NEW j \in Jobs, DeletionLookup(j) PROVE Shape'
  BY <1>23, <1>0
     DEF DeletionLookup, Goto, docVars, workFrame, queueVars, Shape, Running, ProcessSteps,
         DeleteSteps, SetJob, JobStatus
<1>24. ASSUME NEW j \in Jobs, Denied(j) PROVE Shape'
  BY <1>24, <1>0
     DEF Denied, Outcome, Goto, docVars, workFrame, queueVars, Shape, Running, ProcessSteps,
         DeleteSteps, SetJob, JobStatus
<1>25. ASSUME NEW j \in Jobs, Erase(j) PROVE Shape'
  BY <1>25, <1>0
     DEF Erase, Goto, workFrame, queueVars, Shape, Running, ProcessSteps, DeleteSteps,
         SetJob, JobStatus
<1>26. ASSUME NEW j \in Jobs, NEW b \in BOOLEAN, RemoveObject(j, b) PROVE Shape'
  BY <1>26, <1>0
     DEF RemoveObject, Faulty, Goto, docVars, workFrame, queueVars, Shape, Running,
         ProcessSteps, DeleteSteps, SetJob, JobStatus
<1>27. ASSUME NEW j \in Jobs, DeletionInvalidate(j) PROVE Shape'
  BY <1>27, <1>0
     DEF DeletionInvalidate, Outcome, Goto, docVars, workFrame, queueVars, Shape, Running,
         ProcessSteps, DeleteSteps, SetJob, JobStatus
<1>28. ASSUME NEW j \in Jobs, NEW b \in BOOLEAN, Settle(j, b) PROVE Shape'
  BY <1>28, <1>0
     DEF Settle, Faulty, SetJob, Goto, docVars, workFrame, queueVars, Shape, Running,
         ProcessSteps, DeleteSteps, JobStatus
<1>29. ASSUME NEW j \in Jobs, NEW b \in BOOLEAN, Leave(j, b) PROVE Shape'
  BY <1>29, <1>0
     DEF Leave, Faulty, Release, Again, Goto, docVars, rowVars, Shape, Running,
         ProcessSteps, DeleteSteps, SetJob, JobStatus
<1>30. ASSUME NEW j \in Jobs, AdmissionFails(j) PROVE Shape'
  BY <1>30, <1>0
     DEF AdmissionFails, Delivered, Faulty, docVars, rowVars, bodyVars, Shape, Running,
         ProcessSteps, DeleteSteps, SetJob, JobStatus
<1>31. ASSUME NEW j \in Jobs, BodyFails(j) PROVE Shape'
  BY <1>31, <1>0
     DEF BodyFails, DeleteSteps, Faulty, Outcome, Goto, docVars, workFrame, queueVars,
         Shape, Running, ProcessSteps, SetJob, JobStatus
<1>32. ASSUME NEW j \in Jobs, Crash(j) PROVE Shape'
  BY <1>32, <1>0
     DEF Crash, Running, Faulty, Release, Goto, docVars, rowVars, Shape, ProcessSteps,
         DeleteSteps, SetJob, JobStatus
<1>33. ASSUME NEW j \in Jobs, NEW why \in {"timeout", "shutdown"}, Cancel(j, why)
      PROVE Shape'
  BY <1>33, <1>0
     DEF Cancel, ProcessSteps, DeleteSteps, Faulty, Outcome, Goto, docVars, workFrame,
         queueVars, Shape, Running, SetJob, JobStatus
<1>34. ASSUME NEW orphans \in SUBSET Jobs, NEW stale \in SUBSET Jobs, RecoverJobs(orphans, stale)
      PROVE Shape'
  BY <1>34, <1>0
     DEF RecoverJobs, cronFrame, queueVars, bodyVars, Shape, Running, ProcessSteps,
         DeleteSteps, SetJob, JobStatus
<1>35. ASSUME FailDocuments PROVE Shape'
  BY <1>35, <1>0
     DEF FailDocuments, cronFrame, queueVars, bodyVars, Shape, Running, ProcessSteps,
         DeleteSteps, SetJob, JobStatus
<1>36. ASSUME CronLost PROVE Shape'
  BY <1>36, <1>0
     DEF CronLost, Faulty, cronFrame, queueVars, bodyVars, Shape, Running, ProcessSteps,
         DeleteSteps, SetJob, JobStatus
<1>37. ASSUME NEW d \in Docs, RecoverStuck(d) PROVE Shape'
  BY <1>37, <1>0
     DEF RecoverStuck, cronFrame, queueVars, bodyVars, Shape, Running, ProcessSteps,
         DeleteSteps, SetJob, JobStatus
<1>38. ASSUME NEW j \in Jobs, DeleteOld(j) PROVE Shape'
  BY <1>38, <1>0
     DEF DeleteOld, cronFrame, queueVars, bodyVars, Shape, Running, ProcessSteps,
         DeleteSteps, SetJob, JobStatus
<1>39. ASSUME NEW p \in Principals, LeaseExpires(p) PROVE Shape'
  BY <1>39, <1>0
     DEF LeaseExpires, docVars, rowVars, bodyVars, Shape, Running, ProcessSteps,
         DeleteSteps, SetJob, JobStatus
<1>40. ASSUME NEW d \in Docs, Indexed(d) PROVE Shape'
  BY <1>40, <1>0
     DEF Indexed, cronFrame, queueVars, bodyVars, Shape, Running, ProcessSteps, DeleteSteps,
         SetJob, JobStatus
<1> QED
  BY <1>1, <1>2, <1>3, <1>4, <1>5, <1>6, <1>7, <1>8, <1>9, <1>10, <1>11, <1>12, <1>13,
     <1>14, <1>15, <1>16, <1>17, <1>18, <1>19, <1>20, <1>21, <1>22, <1>23, <1>24, <1>25,
     <1>26, <1>27, <1>28, <1>29, <1>30, <1>31, <1>32, <1>33, <1>34, <1>35, <1>36, <1>37,
     <1>38, <1>39, <1>40
     DEF Next, Request, Progress, Fault, Cron
\* A removed row stays removed.
LEMMA GoneNext ==
    ASSUME TypeOK, Next
    PROVE  \A x \in Docs : stat[x] = "gone" => stat'[x] = "gone"
<1>0. stat \in [Docs -> DocStatus \cup {"absent", "gone"}]
  BY DEF TypeOK
<1>1. ASSUME NEW d \in Docs, NEW r \in Docs \cup {NoDoc}, Upload(d, r)
      PROVE \A x \in Docs : stat[x] = "gone" => stat'[x] = "gone"
  BY <1>1, <1>0
     DEF Upload, MayReplace, rowVars, queueVars, bodyVars, DocStatus
<1>2. ASSUME NEW d \in Docs, UploadLost(d)
      PROVE \A x \in Docs : stat[x] = "gone" => stat'[x] = "gone"
  BY <1>2, <1>0
     DEF UploadLost, Faulty, rowVars, queueVars, bodyVars, DocStatus
<1>3. ASSUME NEW d \in Docs, CreateJobLost(d)
      PROVE \A x \in Docs : stat[x] = "gone" => stat'[x] = "gone"
  BY <1>3, <1>0
     DEF CreateJobLost, Faulty, docVars, rowVars, queueVars, bodyVars, DocStatus
<1>4. ASSUME NEW d \in Docs, NEW j \in Jobs, CreateJob(d, j)
      PROVE \A x \in Docs : stat[x] = "gone" => stat'[x] = "gone"
  BY <1>4, <1>0
     DEF CreateJob, NewRow, docVars, bodyVars, DocStatus
<1>5. ASSUME NEW d \in Docs, NEW j \in Jobs, RequestDeletion(d, j)
      PROVE \A x \in Docs : stat[x] = "gone" => stat'[x] = "gone"
  BY <1>5, <1>0
     DEF RequestDeletion, Exists, NewRow, DocStatus, docVars, bodyVars
<1>6. ASSUME NEW j \in Jobs, EnqueueLost(j)
      PROVE \A x \in Docs : stat[x] = "gone" => stat'[x] = "gone"
  BY <1>6, <1>0
     DEF EnqueueLost, Faulty, docVars, rowVars, bodyVars, DocStatus
<1>7. ASSUME NEW j \in Jobs, EnqueueRefused(j)
      PROVE \A x \in Docs : stat[x] = "gone" => stat'[x] = "gone"
  BY <1>7, <1>0
     DEF EnqueueRefused, Faulty, SetJob, docVars, bodyVars, JobStatus, DocStatus
<1>8. ASSUME NEW j \in Jobs, Enqueue(j)
      PROVE \A x \in Docs : stat[x] = "gone" => stat'[x] = "gone"
  BY <1>8, <1>0
     DEF Enqueue, docVars, rowVars, bodyVars, DocStatus
<1>9. ASSUME NEW j \in Jobs, Admit(j)
      PROVE \A x \in Docs : stat[x] = "gone" => stat'[x] = "gone"
  BY <1>9, <1>0
     DEF Admit, Delivered, Principal, Goto, docVars, rowVars, DocStatus
<1>10. ASSUME NEW j \in Jobs, Wait(j)
      PROVE \A x \in Docs : stat[x] = "gone" => stat'[x] = "gone"
  BY <1>10, <1>0
     DEF Wait, Delivered, Principal, docVars, rowVars, bodyVars, DocStatus
<1>11. ASSUME NEW j \in Jobs, StartDeletion(j)
      PROVE \A x \in Docs : stat[x] = "gone" => stat'[x] = "gone"
  BY <1>11, <1>0
     DEF StartDeletion, Delivered, Goto, docVars, rowVars, DocStatus
<1>12. ASSUME NEW j \in Jobs, Exhaust(j)
      PROVE \A x \in Docs : stat[x] = "gone" => stat'[x] = "gone"
  BY <1>12, <1>0
     DEF Exhaust, docVars, rowVars, bodyVars, DocStatus
<1>13. ASSUME NEW j \in Jobs, NEW b \in BOOLEAN, MarkRunning(j, b)
      PROVE \A x \in Docs : stat[x] = "gone" => stat'[x] = "gone"
  BY <1>13, <1>0
     DEF MarkRunning, Faulty, SetJob, Goto, docVars, workFrame, JobStatus, queueVars,
         DocStatus
<1>14. ASSUME NEW j \in Jobs, NEW b \in BOOLEAN, Lookup(j, b)
      PROVE \A x \in Docs : stat[x] = "gone" => stat'[x] = "gone"
  BY <1>14, <1>0
     DEF Lookup, Exists, Goto, Outcome, docVars, workFrame, DocStatus, queueVars
<1>15. ASSUME NEW j \in Jobs, NEW b \in BOOLEAN, Check(j, b)
      PROVE \A x \in Docs : stat[x] = "gone" => stat'[x] = "gone"
  BY <1>15, <1>0
     DEF Check, Exists, Goto, docVars, workFrame, DocStatus, queueVars
<1>16. ASSUME NEW j \in Jobs, Begin(j)
      PROVE \A x \in Docs : stat[x] = "gone" => stat'[x] = "gone"
  BY <1>16, <1>0
     DEF Begin, SetStatus, Goto, workFrame, Exists, queueVars, DocStatus
<1>17. ASSUME NEW j \in Jobs, NEW b \in BOOLEAN, Parse(j, b)
      PROVE \A x \in Docs : stat[x] = "gone" => stat'[x] = "gone"
  BY <1>17, <1>0
     DEF Parse, Goto, Outcome, docVars, workFrame, queueVars, DocStatus
<1>18. ASSUME NEW j \in Jobs, NEW b \in BOOLEAN, Persist(j, b)
      PROVE \A x \in Docs : stat[x] = "gone" => stat'[x] = "gone"
  BY <1>18, <1>0
     DEF Persist, Replaced, Exists, Goto, workFrame, DocStatus, queueVars
<1>19. ASSUME NEW j \in Jobs, PersistNothing(j)
      PROVE \A x \in Docs : stat[x] = "gone" => stat'[x] = "gone"
  BY <1>19, <1>0
     DEF PersistNothing, Exists, Goto, docVars, workFrame, DocStatus, queueVars
<1>20. ASSUME NEW j \in Jobs, Invalidate(j)
      PROVE \A x \in Docs : stat[x] = "gone" => stat'[x] = "gone"
  BY <1>20, <1>0
     DEF Invalidate, Goto, docVars, workFrame, queueVars, DocStatus
<1>21. ASSUME NEW j \in Jobs, NEW b \in BOOLEAN, Handle(j, b)
      PROVE \A x \in Docs : stat[x] = "gone" => stat'[x] = "gone"
  BY <1>21, <1>0
     DEF Handle, Faulty, SetStatus, Goto, workFrame, Exists, queueVars, DocStatus
<1>22. ASSUME NEW j \in Jobs, NEW b \in BOOLEAN, Cleanup(j, b)
      PROVE \A x \in Docs : stat[x] = "gone" => stat'[x] = "gone"
  BY <1>22, <1>0
     DEF Cleanup, Faulty, Goto, docVars, workFrame, queueVars, DocStatus
<1>23. ASSUME NEW j \in Jobs, DeletionLookup(j)
      PROVE \A x \in Docs : stat[x] = "gone" => stat'[x] = "gone"
  BY <1>23, <1>0
     DEF DeletionLookup, Goto, Exists, docVars, workFrame, DocStatus, queueVars
<1>24. ASSUME NEW j \in Jobs, Denied(j)
      PROVE \A x \in Docs : stat[x] = "gone" => stat'[x] = "gone"
  BY <1>24, <1>0
     DEF Denied, Exists, Outcome, Goto, docVars, workFrame, DocStatus, queueVars
<1>25. ASSUME NEW j \in Jobs, Erase(j)
      PROVE \A x \in Docs : stat[x] = "gone" => stat'[x] = "gone"
  BY <1>25, <1>0
     DEF Erase, SetStatus, Goto, Exists, workFrame, DocStatus, queueVars
<1>26. ASSUME NEW j \in Jobs, NEW b \in BOOLEAN, RemoveObject(j, b)
      PROVE \A x \in Docs : stat[x] = "gone" => stat'[x] = "gone"
  BY <1>26, <1>0
     DEF RemoveObject, Faulty, Goto, docVars, workFrame, queueVars, DocStatus
<1>27. ASSUME NEW j \in Jobs, DeletionInvalidate(j)
      PROVE \A x \in Docs : stat[x] = "gone" => stat'[x] = "gone"
  BY <1>27, <1>0
     DEF DeletionInvalidate, Outcome, Goto, docVars, workFrame, queueVars, DocStatus
<1>28. ASSUME NEW j \in Jobs, NEW b \in BOOLEAN, Settle(j, b)
      PROVE \A x \in Docs : stat[x] = "gone" => stat'[x] = "gone"
  BY <1>28, <1>0
     DEF Settle, Last, Faulty, SetJob, Goto, docVars, workFrame, Try, JobStatus, queueVars,
         DocStatus
<1>29. ASSUME NEW j \in Jobs, NEW b \in BOOLEAN, Leave(j, b)
      PROVE \A x \in Docs : stat[x] = "gone" => stat'[x] = "gone"
  BY <1>29, <1>0
     DEF Leave, Last, Faulty, Release, Again, Try, Goto, docVars, rowVars, DocStatus
<1>30. ASSUME NEW j \in Jobs, AdmissionFails(j)
      PROVE \A x \in Docs : stat[x] = "gone" => stat'[x] = "gone"
  BY <1>30, <1>0
     DEF AdmissionFails, Delivered, Faulty, docVars, rowVars, bodyVars, DocStatus
<1>31. ASSUME NEW j \in Jobs, BodyFails(j)
      PROVE \A x \in Docs : stat[x] = "gone" => stat'[x] = "gone"
  BY <1>31, <1>0
     DEF BodyFails, DeleteSteps, Faulty, Outcome, Goto, docVars, workFrame, queueVars,
         DocStatus
<1>32. ASSUME NEW j \in Jobs, Crash(j)
      PROVE \A x \in Docs : stat[x] = "gone" => stat'[x] = "gone"
  BY <1>32, <1>0
     DEF Crash, Running, Faulty, Release, Goto, docVars, rowVars, DocStatus
<1>33. ASSUME NEW j \in Jobs, NEW why \in {"timeout", "shutdown"}, Cancel(j, why)
      PROVE \A x \in Docs : stat[x] = "gone" => stat'[x] = "gone"
  BY <1>33, <1>0
     DEF Cancel, ProcessSteps, DeleteSteps, Faulty, Outcome, Goto, docVars, workFrame,
         queueVars, DocStatus
<1>34. ASSUME NEW orphans \in SUBSET Jobs, NEW stale \in SUBSET Jobs, RecoverJobs(orphans, stale)
      PROVE \A x \in Docs : stat[x] = "gone" => stat'[x] = "gone"
  BY <1>34, <1>0
     DEF RecoverJobs, cronFrame, queueVars, bodyVars, DocStatus
<1>35. ASSUME FailDocuments PROVE \A x \in Docs : stat[x] = "gone" => stat'[x] = "gone"
  BY <1>35, <1>0
     DEF FailDocuments, cronFrame, queueVars, bodyVars, DocStatus
<1>36. ASSUME CronLost PROVE \A x \in Docs : stat[x] = "gone" => stat'[x] = "gone"
  BY <1>36, <1>0
     DEF CronLost, Faulty, cronFrame, queueVars, bodyVars, DocStatus
<1>37. ASSUME NEW d \in Docs, RecoverStuck(d)
      PROVE \A x \in Docs : stat[x] = "gone" => stat'[x] = "gone"
  BY <1>37, <1>0
     DEF RecoverStuck, cronFrame, queueVars, bodyVars, DocStatus
<1>38. ASSUME NEW j \in Jobs, DeleteOld(j)
      PROVE \A x \in Docs : stat[x] = "gone" => stat'[x] = "gone"
  BY <1>38, <1>0
     DEF DeleteOld, cronFrame, queueVars, bodyVars, DocStatus
<1>39. ASSUME NEW p \in Principals, LeaseExpires(p)
      PROVE \A x \in Docs : stat[x] = "gone" => stat'[x] = "gone"
  BY <1>39, <1>0
     DEF LeaseExpires, docVars, rowVars, bodyVars, DocStatus
<1>40. ASSUME NEW d \in Docs, Indexed(d)
      PROVE \A x \in Docs : stat[x] = "gone" => stat'[x] = "gone"
  BY <1>40, <1>0
     DEF Indexed, cronFrame, queueVars, bodyVars, DocStatus
<1> QED
  BY <1>1, <1>2, <1>3, <1>4, <1>5, <1>6, <1>7, <1>8, <1>9, <1>10, <1>11, <1>12, <1>13,
     <1>14, <1>15, <1>16, <1>17, <1>18, <1>19, <1>20, <1>21, <1>22, <1>23, <1>24, <1>25,
     <1>26, <1>27, <1>28, <1>29, <1>30, <1>31, <1>32, <1>33, <1>34, <1>35, <1>36, <1>37,
     <1>38, <1>39, <1>40
     DEF Next, Request, Progress, Fault, Cron
\* Objects are deleted only when their rows are gone.
LEMMA ObjectsNext ==
    ASSUME TypeOK, Shape, RowsHaveObjects, Removals, Next
    PROVE  RowsHaveObjects' /\ Removals'
<1>0. /\ stat \in [Docs -> DocStatus \cup {"absent", "gone"}] /\ pc \in [Jobs -> Steps]
      /\ doomed \in [Jobs -> SUBSET Docs]
  BY DEF TypeOK
<1>a. \A x \in Docs : stat[x] = "gone" => stat'[x] = "gone"
  BY GoneNext
<1>b. \A j \in Jobs : pc[j] # "idle" => target[j] \in Docs
  BY DEF Shape, Running
<1>1. ASSUME NEW d \in Docs, NEW r \in Docs \cup {NoDoc}, Upload(d, r)
      PROVE RowsHaveObjects' /\ Removals'
  BY <1>1, <1>0, <1>a, <1>b
     DEF Upload, MayReplace, rowVars, queueVars, bodyVars, RowsHaveObjects, Removals,
         Exists, DocStatus
<1>2. ASSUME NEW d \in Docs, UploadLost(d) PROVE RowsHaveObjects' /\ Removals'
  BY <1>2, <1>0, <1>a, <1>b
     DEF UploadLost, Faulty, rowVars, queueVars, bodyVars, RowsHaveObjects, Removals,
         Exists, DocStatus
<1>3. ASSUME NEW d \in Docs, CreateJobLost(d) PROVE RowsHaveObjects' /\ Removals'
  BY <1>3, <1>0, <1>a, <1>b
     DEF CreateJobLost, Faulty, docVars, rowVars, queueVars, bodyVars, RowsHaveObjects,
         Removals, Exists, DocStatus
<1>4. ASSUME NEW d \in Docs, NEW j \in Jobs, CreateJob(d, j)
      PROVE RowsHaveObjects' /\ Removals'
  BY <1>4, <1>0, <1>a, <1>b
     DEF CreateJob, NewRow, docVars, bodyVars, Shape, Running, JobStatus, ProcessSteps,
         DeleteSteps, RowsHaveObjects, Removals, Exists, DocStatus
<1>5. ASSUME NEW d \in Docs, NEW j \in Jobs, RequestDeletion(d, j)
      PROVE RowsHaveObjects' /\ Removals'
  BY <1>5, <1>0, <1>a, <1>b
     DEF RequestDeletion, Exists, NewRow, DocStatus, docVars, bodyVars, Shape, Running,
         JobStatus, ProcessSteps, DeleteSteps, RowsHaveObjects, Removals
<1>6. ASSUME NEW j \in Jobs, EnqueueLost(j) PROVE RowsHaveObjects' /\ Removals'
  BY <1>6, <1>0, <1>a, <1>b
     DEF EnqueueLost, Faulty, docVars, rowVars, bodyVars, RowsHaveObjects, Removals, Exists,
         DocStatus
<1>7. ASSUME NEW j \in Jobs, EnqueueRefused(j) PROVE RowsHaveObjects' /\ Removals'
  BY <1>7, <1>0, <1>a, <1>b
     DEF EnqueueRefused, Faulty, SetJob, docVars, bodyVars, JobStatus, RowsHaveObjects,
         Removals, Exists, DocStatus
<1>8. ASSUME NEW j \in Jobs, Enqueue(j) PROVE RowsHaveObjects' /\ Removals'
  BY <1>8, <1>0, <1>a, <1>b
     DEF Enqueue, docVars, rowVars, bodyVars, RowsHaveObjects, Removals, Exists, DocStatus
<1>9. ASSUME NEW j \in Jobs, Admit(j) PROVE RowsHaveObjects' /\ Removals'
  BY <1>9, <1>0, <1>a, <1>b
     DEF Admit, Delivered, Principal, Goto, docVars, rowVars, Shape, Running, JobStatus,
         ProcessSteps, DeleteSteps, RowsHaveObjects, Removals, Exists, DocStatus
<1>10. ASSUME NEW j \in Jobs, Wait(j) PROVE RowsHaveObjects' /\ Removals'
  BY <1>10, <1>0, <1>a, <1>b
     DEF Wait, Delivered, Principal, docVars, rowVars, bodyVars, RowsHaveObjects, Removals,
         Exists, DocStatus
<1>11. ASSUME NEW j \in Jobs, StartDeletion(j) PROVE RowsHaveObjects' /\ Removals'
  BY <1>11, <1>0, <1>a, <1>b
     DEF StartDeletion, Delivered, Goto, docVars, rowVars, Shape, Running, JobStatus,
         ProcessSteps, DeleteSteps, RowsHaveObjects, Removals, Exists, DocStatus
<1>12. ASSUME NEW j \in Jobs, Exhaust(j) PROVE RowsHaveObjects' /\ Removals'
  BY <1>12, <1>0, <1>a, <1>b
     DEF Exhaust, docVars, rowVars, bodyVars, RowsHaveObjects, Removals, Exists, DocStatus
<1>13. ASSUME NEW j \in Jobs, NEW b \in BOOLEAN, MarkRunning(j, b)
      PROVE RowsHaveObjects' /\ Removals'
  BY <1>13, <1>0, <1>a, <1>b
     DEF MarkRunning, Faulty, SetJob, Goto, docVars, workFrame, JobStatus, queueVars,
         RowsHaveObjects, Removals, Exists, DocStatus
<1>14. ASSUME NEW j \in Jobs, NEW b \in BOOLEAN, Lookup(j, b)
      PROVE RowsHaveObjects' /\ Removals'
  BY <1>14, <1>0, <1>a, <1>b
     DEF Lookup, Exists, Goto, Outcome, docVars, workFrame, DocStatus, queueVars,
         RowsHaveObjects, Removals
<1>15. ASSUME NEW j \in Jobs, NEW b \in BOOLEAN, Check(j, b)
      PROVE RowsHaveObjects' /\ Removals'
  BY <1>15, <1>0, <1>a, <1>b
     DEF Check, Exists, Goto, docVars, workFrame, DocStatus, queueVars, RowsHaveObjects,
         Removals
<1>16. ASSUME NEW j \in Jobs, Begin(j) PROVE RowsHaveObjects' /\ Removals'
  BY <1>16, <1>0, <1>a, <1>b
     DEF Begin, SetStatus, Goto, workFrame, Exists, queueVars, DocStatus, RowsHaveObjects,
         Removals
<1>17. ASSUME NEW j \in Jobs, NEW b \in BOOLEAN, Parse(j, b)
      PROVE RowsHaveObjects' /\ Removals'
  BY <1>17, <1>0, <1>a, <1>b
     DEF Parse, Goto, Outcome, docVars, workFrame, queueVars, RowsHaveObjects, Removals,
         Exists, DocStatus
<1>18. ASSUME NEW j \in Jobs, NEW b \in BOOLEAN, Persist(j, b)
      PROVE RowsHaveObjects' /\ Removals'
  BY <1>18, <1>0, <1>a, <1>b
     DEF Persist, Replaced, Exists, Goto, workFrame, DocStatus, queueVars, RowsHaveObjects,
         Removals
<1>19. ASSUME NEW j \in Jobs, PersistNothing(j) PROVE RowsHaveObjects' /\ Removals'
  BY <1>19, <1>0, <1>a, <1>b
     DEF PersistNothing, Exists, Goto, docVars, workFrame, DocStatus, queueVars,
         RowsHaveObjects, Removals
<1>20. ASSUME NEW j \in Jobs, Invalidate(j) PROVE RowsHaveObjects' /\ Removals'
  BY <1>20, <1>0, <1>a, <1>b
     DEF Invalidate, Goto, docVars, workFrame, queueVars, RowsHaveObjects, Removals, Exists,
         DocStatus
<1>21. ASSUME NEW j \in Jobs, NEW b \in BOOLEAN, Handle(j, b)
      PROVE RowsHaveObjects' /\ Removals'
  BY <1>21, <1>0, <1>a, <1>b
     DEF Handle, Faulty, SetStatus, Goto, workFrame, Exists, queueVars, DocStatus,
         RowsHaveObjects, Removals
<1>22. ASSUME NEW j \in Jobs, NEW b \in BOOLEAN, Cleanup(j, b)
      PROVE RowsHaveObjects' /\ Removals'
  BY <1>22, <1>0, <1>a, <1>b
     DEF Cleanup, Faulty, Goto, docVars, workFrame, queueVars, RowsHaveObjects, Removals,
         Exists, DocStatus
<1>23. ASSUME NEW j \in Jobs, DeletionLookup(j) PROVE RowsHaveObjects' /\ Removals'
  BY <1>23, <1>0, <1>a, <1>b
     DEF DeletionLookup, Goto, Exists, docVars, workFrame, DocStatus, queueVars,
         RowsHaveObjects, Removals
<1>24. ASSUME NEW j \in Jobs, Denied(j) PROVE RowsHaveObjects' /\ Removals'
  BY <1>24, <1>0, <1>a, <1>b
     DEF Denied, Exists, Outcome, Goto, docVars, workFrame, DocStatus, queueVars,
         RowsHaveObjects, Removals
<1>25. ASSUME NEW j \in Jobs, Erase(j) PROVE RowsHaveObjects' /\ Removals'
  BY <1>25, <1>0, <1>a, <1>b
     DEF Erase, SetStatus, Goto, Exists, workFrame, DocStatus, queueVars, RowsHaveObjects,
         Removals
<1>26. ASSUME NEW j \in Jobs, NEW b \in BOOLEAN, RemoveObject(j, b)
      PROVE RowsHaveObjects' /\ Removals'
  BY <1>26, <1>0, <1>a, <1>b
     DEF RemoveObject, Faulty, Goto, docVars, workFrame, queueVars, RowsHaveObjects,
         Removals, Exists, DocStatus
<1>27. ASSUME NEW j \in Jobs, DeletionInvalidate(j) PROVE RowsHaveObjects' /\ Removals'
  BY <1>27, <1>0, <1>a, <1>b
     DEF DeletionInvalidate, Outcome, Goto, docVars, workFrame, queueVars, RowsHaveObjects,
         Removals, Exists, DocStatus
<1>28. ASSUME NEW j \in Jobs, NEW b \in BOOLEAN, Settle(j, b)
      PROVE RowsHaveObjects' /\ Removals'
  BY <1>28, <1>0, <1>a, <1>b
     DEF Settle, Last, Faulty, SetJob, Goto, docVars, workFrame, Try, JobStatus, queueVars,
         RowsHaveObjects, Removals, Exists, DocStatus
<1>29. ASSUME NEW j \in Jobs, NEW b \in BOOLEAN, Leave(j, b)
      PROVE RowsHaveObjects' /\ Removals'
  BY <1>29, <1>0, <1>a, <1>b
     DEF Leave, Last, Faulty, Release, Again, Try, Goto, docVars, rowVars, RowsHaveObjects,
         Removals, Exists, DocStatus
<1>30. ASSUME NEW j \in Jobs, AdmissionFails(j) PROVE RowsHaveObjects' /\ Removals'
  BY <1>30, <1>0, <1>a, <1>b
     DEF AdmissionFails, Delivered, Faulty, docVars, rowVars, bodyVars, RowsHaveObjects,
         Removals, Exists, DocStatus
<1>31. ASSUME NEW j \in Jobs, BodyFails(j) PROVE RowsHaveObjects' /\ Removals'
  BY <1>31, <1>0, <1>a, <1>b
     DEF BodyFails, DeleteSteps, Faulty, Outcome, Goto, docVars, workFrame, queueVars,
         RowsHaveObjects, Removals, Exists, DocStatus
<1>32. ASSUME NEW j \in Jobs, Crash(j) PROVE RowsHaveObjects' /\ Removals'
  BY <1>32, <1>0, <1>a, <1>b
     DEF Crash, Running, Faulty, Release, Goto, docVars, rowVars, RowsHaveObjects, Removals,
         Exists, DocStatus
<1>33. ASSUME NEW j \in Jobs, NEW why \in {"timeout", "shutdown"}, Cancel(j, why)
      PROVE RowsHaveObjects' /\ Removals'
  BY <1>33, <1>0, <1>a, <1>b
     DEF Cancel, ProcessSteps, DeleteSteps, Faulty, Outcome, Goto, docVars, workFrame,
         queueVars, RowsHaveObjects, Removals, Exists, DocStatus
<1>34. ASSUME NEW orphans \in SUBSET Jobs, NEW stale \in SUBSET Jobs, RecoverJobs(orphans, stale)
      PROVE RowsHaveObjects' /\ Removals'
  BY <1>34, <1>0, <1>a, <1>b
     DEF RecoverJobs, cronFrame, queueVars, bodyVars, RowsHaveObjects, Removals, Exists,
         DocStatus
<1>35. ASSUME FailDocuments PROVE RowsHaveObjects' /\ Removals'
  BY <1>35, <1>0, <1>a, <1>b
     DEF FailDocuments, cronFrame, queueVars, bodyVars, RowsHaveObjects, Removals, Exists,
         DocStatus
<1>36. ASSUME CronLost PROVE RowsHaveObjects' /\ Removals'
  BY <1>36, <1>0, <1>a, <1>b
     DEF CronLost, Faulty, cronFrame, queueVars, bodyVars, RowsHaveObjects, Removals,
         Exists, DocStatus
<1>37. ASSUME NEW d \in Docs, RecoverStuck(d) PROVE RowsHaveObjects' /\ Removals'
  BY <1>37, <1>0, <1>a, <1>b
     DEF RecoverStuck, cronFrame, queueVars, bodyVars, RowsHaveObjects, Removals, Exists,
         DocStatus
<1>38. ASSUME NEW j \in Jobs, DeleteOld(j) PROVE RowsHaveObjects' /\ Removals'
  BY <1>38, <1>0, <1>a, <1>b
     DEF DeleteOld, cronFrame, queueVars, bodyVars, RowsHaveObjects, Removals, Exists,
         DocStatus
<1>39. ASSUME NEW p \in Principals, LeaseExpires(p) PROVE RowsHaveObjects' /\ Removals'
  BY <1>39, <1>0, <1>a, <1>b
     DEF LeaseExpires, docVars, rowVars, bodyVars, RowsHaveObjects, Removals, Exists,
         DocStatus
<1>40. ASSUME NEW d \in Docs, Indexed(d) PROVE RowsHaveObjects' /\ Removals'
  BY <1>40, <1>0, <1>a, <1>b
     DEF Indexed, cronFrame, queueVars, bodyVars, RowsHaveObjects, Removals, Exists,
         DocStatus
<1> QED
  BY <1>1, <1>2, <1>3, <1>4, <1>5, <1>6, <1>7, <1>8, <1>9, <1>10, <1>11, <1>12, <1>13,
     <1>14, <1>15, <1>16, <1>17, <1>18, <1>19, <1>20, <1>21, <1>22, <1>23, <1>24, <1>25,
     <1>26, <1>27, <1>28, <1>29, <1>30, <1>31, <1>32, <1>33, <1>34, <1>35, <1>36, <1>37,
     <1>38, <1>39, <1>40
     DEF Next, Request, Progress, Fault, Cron
\* A deletion that ends well leaves neither the row nor answers that cite it.
LEMMA DeletionsNext ==
    ASSUME TypeOK, Shape, Removals, Deletions, DoneDeletion, Next
    PROVE  Deletions' /\ DoneDeletion'
<1>0. /\ stat \in [Docs -> DocStatus \cup {"absent", "gone"}] /\ pc \in [Jobs -> Steps]
      /\ kind \in [Jobs -> {"none", "process", "delete"}] /\ out \in [Jobs -> Outcomes] /\ target \in [Jobs -> Docs \cup {NoDoc}]
      /\ jstat \in [Jobs -> JobStatus \cup {"free", "deleted"}]
  BY DEF TypeOK
<1>a. \A x \in Docs : stat[x] = "gone" => stat'[x] = "gone"
  BY GoneNext
<1>b. \A j \in Jobs : pc[j] # "idle" => target[j] \in Docs
  BY DEF Shape, Running
<1>c. \A j \in Jobs : kind[j] = "delete" => target[j] \in Docs
  BY DEF Shape
<1>1. ASSUME NEW d \in Docs, NEW r \in Docs \cup {NoDoc}, Upload(d, r)
      PROVE Deletions' /\ DoneDeletion'
  BY <1>1, <1>0, <1>a, <1>b, <1>c
     DEF Upload, MayReplace, rowVars, queueVars, bodyVars, Removals, Deletions,
         DoneDeletion, Shape, Running, JobStatus, DocStatus, Exists, Outcomes, ProcessSteps,
         DeleteSteps
<1>2. ASSUME NEW d \in Docs, UploadLost(d) PROVE Deletions' /\ DoneDeletion'
  BY <1>2, <1>0, <1>a, <1>b, <1>c
     DEF UploadLost, Faulty, rowVars, queueVars, bodyVars, Removals, Deletions,
         DoneDeletion, Shape, Running, JobStatus, DocStatus, Exists, Outcomes, ProcessSteps,
         DeleteSteps
<1>3. ASSUME NEW d \in Docs, CreateJobLost(d) PROVE Deletions' /\ DoneDeletion'
  BY <1>3, <1>0, <1>a, <1>b, <1>c
     DEF CreateJobLost, Faulty, docVars, rowVars, queueVars, bodyVars, Removals, Deletions,
         DoneDeletion, Shape, Running, JobStatus, DocStatus, Exists, Outcomes, ProcessSteps,
         DeleteSteps
<1>4. ASSUME NEW d \in Docs, NEW j \in Jobs, CreateJob(d, j)
      PROVE Deletions' /\ DoneDeletion'
  BY <1>4, <1>0, <1>a, <1>b, <1>c
     DEF CreateJob, NewRow, docVars, bodyVars, Removals, Deletions, DoneDeletion, Shape,
         Running, JobStatus, DocStatus, Exists, Outcomes, ProcessSteps, DeleteSteps
<1>5. ASSUME NEW d \in Docs, NEW j \in Jobs, RequestDeletion(d, j)
      PROVE Deletions' /\ DoneDeletion'
  BY <1>5, <1>0, <1>a, <1>b, <1>c
     DEF RequestDeletion, Exists, NewRow, DocStatus, docVars, bodyVars, Removals, Deletions,
         DoneDeletion, Shape, Running, JobStatus, Outcomes, ProcessSteps, DeleteSteps
<1>6. ASSUME NEW j \in Jobs, EnqueueLost(j) PROVE Deletions' /\ DoneDeletion'
  BY <1>6, <1>0, <1>a, <1>b, <1>c
     DEF EnqueueLost, Faulty, docVars, rowVars, bodyVars, Removals, Deletions, DoneDeletion,
         Shape, Running, JobStatus, DocStatus, Exists, Outcomes, ProcessSteps, DeleteSteps
<1>7. ASSUME NEW j \in Jobs, EnqueueRefused(j) PROVE Deletions' /\ DoneDeletion'
  BY <1>7, <1>0, <1>a, <1>b, <1>c
     DEF EnqueueRefused, Faulty, SetJob, docVars, bodyVars, JobStatus, Removals, Deletions,
         DoneDeletion, Shape, Running, DocStatus, Exists, Outcomes, ProcessSteps,
         DeleteSteps
<1>8. ASSUME NEW j \in Jobs, Enqueue(j) PROVE Deletions' /\ DoneDeletion'
  BY <1>8, <1>0, <1>a, <1>b, <1>c
     DEF Enqueue, docVars, rowVars, bodyVars, Removals, Deletions, DoneDeletion, Shape,
         Running, JobStatus, DocStatus, Exists, Outcomes, ProcessSteps, DeleteSteps
<1>9. ASSUME NEW j \in Jobs, Admit(j) PROVE Deletions' /\ DoneDeletion'
  BY <1>9, <1>0, <1>a, <1>b, <1>c
     DEF Admit, Delivered, Principal, Goto, docVars, rowVars, Removals, Deletions,
         DoneDeletion, Shape, Running, JobStatus, DocStatus, Exists, Outcomes, ProcessSteps,
         DeleteSteps
<1>10. ASSUME NEW j \in Jobs, Wait(j) PROVE Deletions' /\ DoneDeletion'
  BY <1>10, <1>0, <1>a, <1>b, <1>c
     DEF Wait, Delivered, Principal, docVars, rowVars, bodyVars, Removals, Deletions,
         DoneDeletion, Shape, Running, JobStatus, DocStatus, Exists, Outcomes, ProcessSteps,
         DeleteSteps
<1>11. ASSUME NEW j \in Jobs, StartDeletion(j) PROVE Deletions' /\ DoneDeletion'
  BY <1>11, <1>0, <1>a, <1>b, <1>c
     DEF StartDeletion, Delivered, Goto, docVars, rowVars, Removals, Deletions,
         DoneDeletion, Shape, Running, JobStatus, DocStatus, Exists, Outcomes, ProcessSteps,
         DeleteSteps
<1>12. ASSUME NEW j \in Jobs, Exhaust(j) PROVE Deletions' /\ DoneDeletion'
  BY <1>12, <1>0, <1>a, <1>b, <1>c
     DEF Exhaust, docVars, rowVars, bodyVars, Removals, Deletions, DoneDeletion, Shape,
         Running, JobStatus, DocStatus, Exists, Outcomes, ProcessSteps, DeleteSteps
<1>13. ASSUME NEW j \in Jobs, NEW b \in BOOLEAN, MarkRunning(j, b)
      PROVE Deletions' /\ DoneDeletion'
  BY <1>13, <1>0, <1>a, <1>b, <1>c
     DEF MarkRunning, Faulty, SetJob, Goto, docVars, workFrame, JobStatus, queueVars,
         Removals, Deletions, DoneDeletion, Shape, Running, DocStatus, Exists, Outcomes,
         ProcessSteps, DeleteSteps
<1>14. ASSUME NEW j \in Jobs, NEW b \in BOOLEAN, Lookup(j, b)
      PROVE Deletions' /\ DoneDeletion'
  BY <1>14, <1>0, <1>a, <1>b, <1>c
     DEF Lookup, Exists, Goto, Outcome, docVars, workFrame, DocStatus, queueVars, Removals,
         Deletions, DoneDeletion, Shape, Running, JobStatus, Outcomes, ProcessSteps,
         DeleteSteps
<1>15. ASSUME NEW j \in Jobs, NEW b \in BOOLEAN, Check(j, b)
      PROVE Deletions' /\ DoneDeletion'
  BY <1>15, <1>0, <1>a, <1>b, <1>c
     DEF Check, Exists, Goto, docVars, workFrame, DocStatus, queueVars, Removals, Deletions,
         DoneDeletion, Shape, Running, JobStatus, Outcomes, ProcessSteps, DeleteSteps
<1>16. ASSUME NEW j \in Jobs, Begin(j) PROVE Deletions' /\ DoneDeletion'
  BY <1>16, <1>0, <1>a, <1>b, <1>c
     DEF Begin, SetStatus, Goto, workFrame, Exists, queueVars, DocStatus, Removals,
         Deletions, DoneDeletion, Shape, Running, JobStatus, Outcomes, ProcessSteps,
         DeleteSteps
<1>17. ASSUME NEW j \in Jobs, NEW b \in BOOLEAN, Parse(j, b)
      PROVE Deletions' /\ DoneDeletion'
  BY <1>17, <1>0, <1>a, <1>b, <1>c
     DEF Parse, Goto, Outcome, docVars, workFrame, queueVars, Removals, Deletions,
         DoneDeletion, Shape, Running, JobStatus, DocStatus, Exists, Outcomes, ProcessSteps,
         DeleteSteps
<1>18. ASSUME NEW j \in Jobs, NEW b \in BOOLEAN, Persist(j, b)
      PROVE Deletions' /\ DoneDeletion'
  BY <1>18, <1>0, <1>a, <1>b, <1>c
     DEF Persist, Replaced, Exists, Goto, workFrame, DocStatus, queueVars, Removals,
         Deletions, DoneDeletion, Shape, Running, JobStatus, Outcomes, ProcessSteps,
         DeleteSteps
<1>19. ASSUME NEW j \in Jobs, PersistNothing(j) PROVE Deletions' /\ DoneDeletion'
  BY <1>19, <1>0, <1>a, <1>b, <1>c
     DEF PersistNothing, Exists, Goto, docVars, workFrame, DocStatus, queueVars, Removals,
         Deletions, DoneDeletion, Shape, Running, JobStatus, Outcomes, ProcessSteps,
         DeleteSteps
<1>20. ASSUME NEW j \in Jobs, Invalidate(j) PROVE Deletions' /\ DoneDeletion'
  BY <1>20, <1>0, <1>a, <1>b, <1>c
     DEF Invalidate, Goto, docVars, workFrame, queueVars, Removals, Deletions, DoneDeletion,
         Shape, Running, JobStatus, DocStatus, Exists, Outcomes, ProcessSteps, DeleteSteps
<1>21. ASSUME NEW j \in Jobs, NEW b \in BOOLEAN, Handle(j, b)
      PROVE Deletions' /\ DoneDeletion'
  BY <1>21, <1>0, <1>a, <1>b, <1>c
     DEF Handle, Faulty, SetStatus, Goto, workFrame, Exists, queueVars, DocStatus, Removals,
         Deletions, DoneDeletion, Shape, Running, JobStatus, Outcomes, ProcessSteps,
         DeleteSteps
<1>22. ASSUME NEW j \in Jobs, NEW b \in BOOLEAN, Cleanup(j, b)
      PROVE Deletions' /\ DoneDeletion'
  BY <1>22, <1>0, <1>a, <1>b, <1>c
     DEF Cleanup, Faulty, Goto, docVars, workFrame, queueVars, Removals, Deletions,
         DoneDeletion, Shape, Running, JobStatus, DocStatus, Exists, Outcomes, ProcessSteps,
         DeleteSteps
<1>23. ASSUME NEW j \in Jobs, DeletionLookup(j) PROVE Deletions' /\ DoneDeletion'
  BY <1>23, <1>0, <1>a, <1>b, <1>c
     DEF DeletionLookup, Goto, Exists, docVars, workFrame, DocStatus, queueVars, Removals,
         Deletions, DoneDeletion, Shape, Running, JobStatus, Outcomes, ProcessSteps,
         DeleteSteps
<1>24. ASSUME NEW j \in Jobs, Denied(j) PROVE Deletions' /\ DoneDeletion'
  BY <1>24, <1>0, <1>a, <1>b, <1>c
     DEF Denied, Exists, Outcome, Goto, docVars, workFrame, DocStatus, queueVars, Removals,
         Deletions, DoneDeletion, Shape, Running, JobStatus, Outcomes, ProcessSteps,
         DeleteSteps
<1>25. ASSUME NEW j \in Jobs, Erase(j) PROVE Deletions' /\ DoneDeletion'
  BY <1>25, <1>0, <1>a, <1>b, <1>c
     DEF Erase, SetStatus, Goto, Exists, workFrame, DocStatus, queueVars, Removals,
         Deletions, DoneDeletion, Shape, Running, JobStatus, Outcomes, ProcessSteps,
         DeleteSteps
<1>26. ASSUME NEW j \in Jobs, NEW b \in BOOLEAN, RemoveObject(j, b)
      PROVE Deletions' /\ DoneDeletion'
  BY <1>26, <1>0, <1>a, <1>b, <1>c
     DEF RemoveObject, Faulty, Goto, docVars, workFrame, queueVars, Removals, Deletions,
         DoneDeletion, Shape, Running, JobStatus, DocStatus, Exists, Outcomes, ProcessSteps,
         DeleteSteps
<1>27. ASSUME NEW j \in Jobs, DeletionInvalidate(j) PROVE Deletions' /\ DoneDeletion'
  BY <1>27, <1>0, <1>a, <1>b, <1>c
     DEF DeletionInvalidate, Outcome, Goto, docVars, workFrame, queueVars, Removals,
         Deletions, DoneDeletion, Shape, Running, JobStatus, DocStatus, Exists, Outcomes,
         ProcessSteps, DeleteSteps
<1>28. ASSUME NEW j \in Jobs, NEW b \in BOOLEAN, Settle(j, b)
      PROVE Deletions' /\ DoneDeletion'
  BY <1>28, <1>0, <1>a, <1>b, <1>c
     DEF Settle, Last, Faulty, SetJob, Goto, docVars, workFrame, Try, JobStatus, queueVars,
         Removals, Deletions, DoneDeletion, Shape, Running, DocStatus, Exists, Outcomes,
         ProcessSteps, DeleteSteps
<1>29. ASSUME NEW j \in Jobs, NEW b \in BOOLEAN, Leave(j, b)
      PROVE Deletions' /\ DoneDeletion'
  BY <1>29, <1>0, <1>a, <1>b, <1>c
     DEF Leave, Last, Faulty, Release, Again, Try, Goto, docVars, rowVars, Removals,
         Deletions, DoneDeletion, Shape, Running, JobStatus, DocStatus, Exists, Outcomes,
         ProcessSteps, DeleteSteps
<1>30. ASSUME NEW j \in Jobs, AdmissionFails(j) PROVE Deletions' /\ DoneDeletion'
  BY <1>30, <1>0, <1>a, <1>b, <1>c
     DEF AdmissionFails, Delivered, Faulty, docVars, rowVars, bodyVars, Removals, Deletions,
         DoneDeletion, Shape, Running, JobStatus, DocStatus, Exists, Outcomes, ProcessSteps,
         DeleteSteps
<1>31. ASSUME NEW j \in Jobs, BodyFails(j) PROVE Deletions' /\ DoneDeletion'
  BY <1>31, <1>0, <1>a, <1>b, <1>c
     DEF BodyFails, DeleteSteps, Faulty, Outcome, Goto, docVars, workFrame, queueVars,
         Removals, Deletions, DoneDeletion, Shape, Running, JobStatus, DocStatus, Exists,
         Outcomes, ProcessSteps
<1>32. ASSUME NEW j \in Jobs, Crash(j) PROVE Deletions' /\ DoneDeletion'
  BY <1>32, <1>0, <1>a, <1>b, <1>c
     DEF Crash, Running, Faulty, Release, Goto, docVars, rowVars, Removals, Deletions,
         DoneDeletion, Shape, JobStatus, DocStatus, Exists, Outcomes, ProcessSteps,
         DeleteSteps
<1>33. ASSUME NEW j \in Jobs, NEW why \in {"timeout", "shutdown"}, Cancel(j, why)
      PROVE Deletions' /\ DoneDeletion'
  BY <1>33, <1>0, <1>a, <1>b, <1>c
     DEF Cancel, ProcessSteps, DeleteSteps, Faulty, Outcome, Goto, docVars, workFrame,
         queueVars, Removals, Deletions, DoneDeletion, Shape, Running, JobStatus, DocStatus,
         Exists, Outcomes
<1>34. ASSUME NEW orphans \in SUBSET Jobs, NEW stale \in SUBSET Jobs, RecoverJobs(orphans, stale)
      PROVE Deletions' /\ DoneDeletion'
  BY <1>34, <1>0, <1>a, <1>b, <1>c
     DEF RecoverJobs, cronFrame, queueVars, bodyVars, Removals, Deletions, DoneDeletion,
         Shape, Running, JobStatus, DocStatus, Exists, Outcomes, ProcessSteps, DeleteSteps
<1>35. ASSUME FailDocuments PROVE Deletions' /\ DoneDeletion'
  BY <1>35, <1>0, <1>a, <1>b, <1>c
     DEF FailDocuments, cronFrame, queueVars, bodyVars, Removals, Deletions, DoneDeletion,
         Shape, Running, JobStatus, DocStatus, Exists, Outcomes, ProcessSteps, DeleteSteps
<1>36. ASSUME CronLost PROVE Deletions' /\ DoneDeletion'
  BY <1>36, <1>0, <1>a, <1>b, <1>c
     DEF CronLost, Faulty, cronFrame, queueVars, bodyVars, Removals, Deletions,
         DoneDeletion, Shape, Running, JobStatus, DocStatus, Exists, Outcomes, ProcessSteps,
         DeleteSteps
<1>37. ASSUME NEW d \in Docs, RecoverStuck(d) PROVE Deletions' /\ DoneDeletion'
  BY <1>37, <1>0, <1>a, <1>b, <1>c
     DEF RecoverStuck, cronFrame, queueVars, bodyVars, Removals, Deletions, DoneDeletion,
         Shape, Running, JobStatus, DocStatus, Exists, Outcomes, ProcessSteps, DeleteSteps
<1>38. ASSUME NEW j \in Jobs, DeleteOld(j) PROVE Deletions' /\ DoneDeletion'
  BY <1>38, <1>0, <1>a, <1>b, <1>c
     DEF DeleteOld, cronFrame, queueVars, bodyVars, Removals, Deletions, DoneDeletion,
         Shape, Running, JobStatus, DocStatus, Exists, Outcomes, ProcessSteps, DeleteSteps
<1>39. ASSUME NEW p \in Principals, LeaseExpires(p) PROVE Deletions' /\ DoneDeletion'
  BY <1>39, <1>0, <1>a, <1>b, <1>c
     DEF LeaseExpires, docVars, rowVars, bodyVars, Removals, Deletions, DoneDeletion, Shape,
         Running, JobStatus, DocStatus, Exists, Outcomes, ProcessSteps, DeleteSteps
<1>40. ASSUME NEW d \in Docs, Indexed(d) PROVE Deletions' /\ DoneDeletion'
  BY <1>40, <1>0, <1>a, <1>b, <1>c
     DEF Indexed, cronFrame, queueVars, bodyVars, Removals, Deletions, DoneDeletion, Shape,
         Running, JobStatus, DocStatus, Exists, Outcomes, ProcessSteps, DeleteSteps
<1> QED
  BY <1>1, <1>2, <1>3, <1>4, <1>5, <1>6, <1>7, <1>8, <1>9, <1>10, <1>11, <1>12, <1>13,
     <1>14, <1>15, <1>16, <1>17, <1>18, <1>19, <1>20, <1>21, <1>22, <1>23, <1>24, <1>25,
     <1>26, <1>27, <1>28, <1>29, <1>30, <1>31, <1>32, <1>33, <1>34, <1>35, <1>36, <1>37,
     <1>38, <1>39, <1>40
     DEF Next, Request, Progress, Fault, Cron
\* Every delivery is accounted for.
LEMMA AttemptsNext ==
    ASSUME TypeOK, Shape, Attempts, Next
    PROVE  Attempts'
<1>0. /\ tries \in [Jobs -> Nat] /\ waits \in [Jobs -> Nat] /\ runs \in [Jobs -> Nat]
      /\ faults \in Nat /\ pc \in [Jobs -> Steps]
      /\ kind \in [Jobs -> {"none", "process", "delete"}]
  BY BoundsAssumption DEF TypeOK
<1>1. ASSUME NEW d \in Docs, NEW r \in Docs \cup {NoDoc}, Upload(d, r) PROVE Attempts'
  BY <1>1, <1>0
     DEF Upload, MayReplace, rowVars, queueVars, bodyVars, Attempts, Shape, Running
<1>2. ASSUME NEW d \in Docs, UploadLost(d) PROVE Attempts'
  BY <1>2, <1>0
     DEF UploadLost, Faulty, rowVars, queueVars, bodyVars, Attempts, Shape, Running
<1>3. ASSUME NEW d \in Docs, CreateJobLost(d) PROVE Attempts'
  BY <1>3, <1>0
     DEF CreateJobLost, Faulty, docVars, rowVars, queueVars, bodyVars, Attempts, Shape,
         Running
<1>4. ASSUME NEW d \in Docs, NEW j \in Jobs, CreateJob(d, j) PROVE Attempts'
  BY <1>4, <1>0
     DEF CreateJob, NewRow, docVars, bodyVars, Attempts, Shape, Running
<1>5. ASSUME NEW d \in Docs, NEW j \in Jobs, RequestDeletion(d, j) PROVE Attempts'
  BY <1>5, <1>0
     DEF RequestDeletion, Exists, NewRow, DocStatus, docVars, bodyVars, Attempts, Shape,
         Running
<1>6. ASSUME NEW j \in Jobs, EnqueueLost(j) PROVE Attempts'
  BY <1>6, <1>0
     DEF EnqueueLost, Faulty, docVars, rowVars, bodyVars, Attempts, Shape, Running
<1>7. ASSUME NEW j \in Jobs, EnqueueRefused(j) PROVE Attempts'
  BY <1>7, <1>0
     DEF EnqueueRefused, Faulty, SetJob, docVars, bodyVars, JobStatus, Attempts, Shape,
         Running
<1>8. ASSUME NEW j \in Jobs, Enqueue(j) PROVE Attempts'
  BY <1>8, <1>0
     DEF Enqueue, docVars, rowVars, bodyVars, Attempts, Shape, Running
<1>9. ASSUME NEW j \in Jobs, Admit(j) PROVE Attempts'
  BY <1>9, <1>0
     DEF Admit, Delivered, Principal, Goto, docVars, rowVars, Attempts, Shape, Running
<1>10. ASSUME NEW j \in Jobs, Wait(j) PROVE Attempts'
  BY <1>10, <1>0
     DEF Wait, Delivered, Principal, docVars, rowVars, bodyVars, Attempts, Shape, Running
<1>11. ASSUME NEW j \in Jobs, StartDeletion(j) PROVE Attempts'
  BY <1>11, <1>0
     DEF StartDeletion, Delivered, Goto, docVars, rowVars, Attempts, Shape, Running
<1>12. ASSUME NEW j \in Jobs, Exhaust(j) PROVE Attempts'
  BY <1>12, <1>0
     DEF Exhaust, docVars, rowVars, bodyVars, Attempts, Shape, Running
<1>13. ASSUME NEW j \in Jobs, NEW b \in BOOLEAN, MarkRunning(j, b) PROVE Attempts'
  BY <1>13, <1>0
     DEF MarkRunning, Faulty, SetJob, Goto, docVars, workFrame, JobStatus, queueVars,
         Attempts, Shape, Running
<1>14. ASSUME NEW j \in Jobs, NEW b \in BOOLEAN, Lookup(j, b) PROVE Attempts'
  BY <1>14, <1>0
     DEF Lookup, Exists, Goto, Outcome, docVars, workFrame, DocStatus, queueVars, Attempts,
         Shape, Running
<1>15. ASSUME NEW j \in Jobs, NEW b \in BOOLEAN, Check(j, b) PROVE Attempts'
  BY <1>15, <1>0
     DEF Check, Exists, Goto, docVars, workFrame, DocStatus, queueVars, Attempts, Shape,
         Running
<1>16. ASSUME NEW j \in Jobs, Begin(j) PROVE Attempts'
  BY <1>16, <1>0
     DEF Begin, SetStatus, Goto, workFrame, Exists, queueVars, DocStatus, Attempts, Shape,
         Running
<1>17. ASSUME NEW j \in Jobs, NEW b \in BOOLEAN, Parse(j, b) PROVE Attempts'
  BY <1>17, <1>0
     DEF Parse, Goto, Outcome, docVars, workFrame, queueVars, Attempts, Shape, Running
<1>18. ASSUME NEW j \in Jobs, NEW b \in BOOLEAN, Persist(j, b) PROVE Attempts'
  BY <1>18, <1>0
     DEF Persist, Replaced, Exists, Goto, workFrame, DocStatus, queueVars, Attempts, Shape,
         Running
<1>19. ASSUME NEW j \in Jobs, PersistNothing(j) PROVE Attempts'
  BY <1>19, <1>0
     DEF PersistNothing, Exists, Goto, docVars, workFrame, DocStatus, queueVars, Attempts,
         Shape, Running
<1>20. ASSUME NEW j \in Jobs, Invalidate(j) PROVE Attempts'
  BY <1>20, <1>0
     DEF Invalidate, Goto, docVars, workFrame, queueVars, Attempts, Shape, Running
<1>21. ASSUME NEW j \in Jobs, NEW b \in BOOLEAN, Handle(j, b) PROVE Attempts'
  BY <1>21, <1>0
     DEF Handle, Faulty, SetStatus, Goto, workFrame, Exists, queueVars, DocStatus, Attempts,
         Shape, Running
<1>22. ASSUME NEW j \in Jobs, NEW b \in BOOLEAN, Cleanup(j, b) PROVE Attempts'
  BY <1>22, <1>0
     DEF Cleanup, Faulty, Goto, docVars, workFrame, queueVars, Attempts, Shape, Running
<1>23. ASSUME NEW j \in Jobs, DeletionLookup(j) PROVE Attempts'
  BY <1>23, <1>0
     DEF DeletionLookup, Goto, Exists, docVars, workFrame, DocStatus, queueVars, Attempts,
         Shape, Running
<1>24. ASSUME NEW j \in Jobs, Denied(j) PROVE Attempts'
  BY <1>24, <1>0
     DEF Denied, Exists, Outcome, Goto, docVars, workFrame, DocStatus, queueVars, Attempts,
         Shape, Running
<1>25. ASSUME NEW j \in Jobs, Erase(j) PROVE Attempts'
  BY <1>25, <1>0
     DEF Erase, SetStatus, Goto, Exists, workFrame, DocStatus, queueVars, Attempts, Shape,
         Running
<1>26. ASSUME NEW j \in Jobs, NEW b \in BOOLEAN, RemoveObject(j, b) PROVE Attempts'
  BY <1>26, <1>0
     DEF RemoveObject, Faulty, Goto, docVars, workFrame, queueVars, Attempts, Shape, Running
<1>27. ASSUME NEW j \in Jobs, DeletionInvalidate(j) PROVE Attempts'
  BY <1>27, <1>0
     DEF DeletionInvalidate, Outcome, Goto, docVars, workFrame, queueVars, Attempts, Shape,
         Running
<1>28. ASSUME NEW j \in Jobs, NEW b \in BOOLEAN, Settle(j, b) PROVE Attempts'
  BY <1>28, <1>0
     DEF Settle, Last, Faulty, SetJob, Goto, docVars, workFrame, Try, JobStatus, queueVars,
         Attempts, Shape, Running
<1>29. ASSUME NEW j \in Jobs, NEW b \in BOOLEAN, Leave(j, b) PROVE Attempts'
  BY <1>29, <1>0
     DEF Leave, Last, Faulty, Release, Again, Try, Goto, docVars, rowVars, Attempts, Shape,
         Running
<1>30. ASSUME NEW j \in Jobs, AdmissionFails(j) PROVE Attempts'
  BY <1>30, <1>0
     DEF AdmissionFails, Delivered, Faulty, docVars, rowVars, bodyVars, Attempts, Shape,
         Running
<1>31. ASSUME NEW j \in Jobs, BodyFails(j) PROVE Attempts'
  BY <1>31, <1>0
     DEF BodyFails, DeleteSteps, Faulty, Outcome, Goto, docVars, workFrame, queueVars,
         Attempts, Shape, Running
<1>32. ASSUME NEW j \in Jobs, Crash(j) PROVE Attempts'
  BY <1>32, <1>0
     DEF Crash, Running, Faulty, Release, Goto, docVars, rowVars, Attempts, Shape
<1>33. ASSUME NEW j \in Jobs, NEW why \in {"timeout", "shutdown"}, Cancel(j, why)
      PROVE Attempts'
  BY <1>33, <1>0
     DEF Cancel, ProcessSteps, DeleteSteps, Faulty, Outcome, Goto, docVars, workFrame,
         queueVars, Attempts, Shape, Running
<1>34. ASSUME NEW orphans \in SUBSET Jobs, NEW stale \in SUBSET Jobs, RecoverJobs(orphans, stale)
      PROVE Attempts'
  BY <1>34, <1>0
     DEF RecoverJobs, cronFrame, queueVars, bodyVars, Attempts, Shape, Running
<1>35. ASSUME FailDocuments PROVE Attempts'
  BY <1>35, <1>0
     DEF FailDocuments, cronFrame, queueVars, bodyVars, Attempts, Shape, Running
<1>36. ASSUME CronLost PROVE Attempts'
  BY <1>36, <1>0
     DEF CronLost, Faulty, cronFrame, queueVars, bodyVars, Attempts, Shape, Running
<1>37. ASSUME NEW d \in Docs, RecoverStuck(d) PROVE Attempts'
  BY <1>37, <1>0
     DEF RecoverStuck, cronFrame, queueVars, bodyVars, Attempts, Shape, Running
<1>38. ASSUME NEW j \in Jobs, DeleteOld(j) PROVE Attempts'
  BY <1>38, <1>0
     DEF DeleteOld, cronFrame, queueVars, bodyVars, Attempts, Shape, Running
<1>39. ASSUME NEW p \in Principals, LeaseExpires(p) PROVE Attempts'
  BY <1>39, <1>0
     DEF LeaseExpires, docVars, rowVars, bodyVars, Attempts, Shape, Running
<1>40. ASSUME NEW d \in Docs, Indexed(d) PROVE Attempts'
  BY <1>40, <1>0
     DEF Indexed, cronFrame, queueVars, bodyVars, Attempts, Shape, Running
<1> QED
  BY <1>1, <1>2, <1>3, <1>4, <1>5, <1>6, <1>7, <1>8, <1>9, <1>10, <1>11, <1>12, <1>13,
     <1>14, <1>15, <1>16, <1>17, <1>18, <1>19, <1>20, <1>21, <1>22, <1>23, <1>24, <1>25,
     <1>26, <1>27, <1>28, <1>29, <1>30, <1>31, <1>32, <1>33, <1>34, <1>35, <1>36, <1>37,
     <1>38, <1>39, <1>40
     DEF Next, Request, Progress, Fault, Cron
\* Without a fault an object whose row is removed is deleted next.
LEMMA OrphansNext ==
    ASSUME TypeOK, Shape, Removals, NoOrphanObject, Next
    PROVE  NoOrphanObject'
<1>0. /\ stat \in [Docs -> DocStatus \cup {"absent", "gone"}] /\ pc \in [Jobs -> Steps]
      /\ files \subseteq Docs /\ faults \in Nat /\ doomed \in [Jobs -> SUBSET Docs]
  BY BoundsAssumption DEF TypeOK
<1>a. \A x \in Docs : stat[x] = "gone" => stat'[x] = "gone"
  BY GoneNext
<1>b. \A j \in Jobs : pc[j] # "idle" => target[j] \in Docs
  BY DEF Shape, Running
<1>1. ASSUME NEW d \in Docs, NEW r \in Docs \cup {NoDoc}, Upload(d, r) PROVE NoOrphanObject'
  BY <1>1, <1>0, <1>a, <1>b
     DEF Upload, MayReplace, rowVars, queueVars, bodyVars, NoOrphanObject, Removals, Exists,
         DocStatus
<1>2. ASSUME NEW d \in Docs, UploadLost(d) PROVE NoOrphanObject'
  BY <1>2, <1>0, <1>a, <1>b
     DEF UploadLost, Faulty, rowVars, queueVars, bodyVars, NoOrphanObject, Removals, Exists,
         DocStatus
<1>3. ASSUME NEW d \in Docs, CreateJobLost(d) PROVE NoOrphanObject'
  BY <1>3, <1>0, <1>a, <1>b
     DEF CreateJobLost, Faulty, docVars, rowVars, queueVars, bodyVars, NoOrphanObject,
         Removals, Exists, DocStatus
<1>4. ASSUME NEW d \in Docs, NEW j \in Jobs, CreateJob(d, j) PROVE NoOrphanObject'
  BY <1>4, <1>0, <1>a, <1>b
     DEF CreateJob, NewRow, docVars, bodyVars, Shape, Running, JobStatus, ProcessSteps,
         DeleteSteps, NoOrphanObject, Removals, Exists, DocStatus
<1>5. ASSUME NEW d \in Docs, NEW j \in Jobs, RequestDeletion(d, j) PROVE NoOrphanObject'
  BY <1>5, <1>0, <1>a, <1>b
     DEF RequestDeletion, Exists, NewRow, DocStatus, docVars, bodyVars, Shape, Running,
         JobStatus, ProcessSteps, DeleteSteps, NoOrphanObject, Removals
<1>6. ASSUME NEW j \in Jobs, EnqueueLost(j) PROVE NoOrphanObject'
  BY <1>6, <1>0, <1>a, <1>b
     DEF EnqueueLost, Faulty, docVars, rowVars, bodyVars, NoOrphanObject, Removals, Exists,
         DocStatus
<1>7. ASSUME NEW j \in Jobs, EnqueueRefused(j) PROVE NoOrphanObject'
  BY <1>7, <1>0, <1>a, <1>b
     DEF EnqueueRefused, Faulty, SetJob, docVars, bodyVars, JobStatus, NoOrphanObject,
         Removals, Exists, DocStatus
<1>8. ASSUME NEW j \in Jobs, Enqueue(j) PROVE NoOrphanObject'
  BY <1>8, <1>0, <1>a, <1>b
     DEF Enqueue, docVars, rowVars, bodyVars, NoOrphanObject, Removals, Exists, DocStatus
<1>9. ASSUME NEW j \in Jobs, Admit(j) PROVE NoOrphanObject'
  BY <1>9, <1>0, <1>a, <1>b
     DEF Admit, Delivered, Principal, Goto, docVars, rowVars, Shape, Running, JobStatus,
         ProcessSteps, DeleteSteps, NoOrphanObject, Removals, Exists, DocStatus
<1>10. ASSUME NEW j \in Jobs, Wait(j) PROVE NoOrphanObject'
  BY <1>10, <1>0, <1>a, <1>b
     DEF Wait, Delivered, Principal, docVars, rowVars, bodyVars, NoOrphanObject, Removals,
         Exists, DocStatus
<1>11. ASSUME NEW j \in Jobs, StartDeletion(j) PROVE NoOrphanObject'
  BY <1>11, <1>0, <1>a, <1>b
     DEF StartDeletion, Delivered, Goto, docVars, rowVars, Shape, Running, JobStatus,
         ProcessSteps, DeleteSteps, NoOrphanObject, Removals, Exists, DocStatus
<1>12. ASSUME NEW j \in Jobs, Exhaust(j) PROVE NoOrphanObject'
  BY <1>12, <1>0, <1>a, <1>b
     DEF Exhaust, docVars, rowVars, bodyVars, NoOrphanObject, Removals, Exists, DocStatus
<1>13. ASSUME NEW j \in Jobs, NEW b \in BOOLEAN, MarkRunning(j, b) PROVE NoOrphanObject'
  BY <1>13, <1>0, <1>a, <1>b
     DEF MarkRunning, Faulty, SetJob, Goto, docVars, workFrame, JobStatus, queueVars,
         NoOrphanObject, Removals, Exists, DocStatus
<1>14. ASSUME NEW j \in Jobs, NEW b \in BOOLEAN, Lookup(j, b) PROVE NoOrphanObject'
  BY <1>14, <1>0, <1>a, <1>b
     DEF Lookup, Exists, Goto, Outcome, docVars, workFrame, DocStatus, queueVars,
         NoOrphanObject, Removals
<1>15. ASSUME NEW j \in Jobs, NEW b \in BOOLEAN, Check(j, b) PROVE NoOrphanObject'
  BY <1>15, <1>0, <1>a, <1>b
     DEF Check, Exists, Goto, docVars, workFrame, DocStatus, queueVars, NoOrphanObject,
         Removals
<1>16. ASSUME NEW j \in Jobs, Begin(j) PROVE NoOrphanObject'
  BY <1>16, <1>0, <1>a, <1>b
     DEF Begin, SetStatus, Goto, workFrame, Exists, queueVars, DocStatus, NoOrphanObject,
         Removals
<1>17. ASSUME NEW j \in Jobs, NEW b \in BOOLEAN, Parse(j, b) PROVE NoOrphanObject'
  BY <1>17, <1>0, <1>a, <1>b
     DEF Parse, Goto, Outcome, docVars, workFrame, queueVars, NoOrphanObject, Removals,
         Exists, DocStatus
<1>18. ASSUME NEW j \in Jobs, NEW b \in BOOLEAN, Persist(j, b) PROVE NoOrphanObject'
  BY <1>18, <1>0, <1>a, <1>b
     DEF Persist, Replaced, Exists, Goto, workFrame, DocStatus, queueVars, NoOrphanObject,
         Removals
<1>19. ASSUME NEW j \in Jobs, PersistNothing(j) PROVE NoOrphanObject'
  BY <1>19, <1>0, <1>a, <1>b
     DEF PersistNothing, Exists, Goto, docVars, workFrame, DocStatus, queueVars,
         NoOrphanObject, Removals
<1>20. ASSUME NEW j \in Jobs, Invalidate(j) PROVE NoOrphanObject'
  BY <1>20, <1>0, <1>a, <1>b
     DEF Invalidate, Goto, docVars, workFrame, queueVars, NoOrphanObject, Removals, Exists,
         DocStatus
<1>21. ASSUME NEW j \in Jobs, NEW b \in BOOLEAN, Handle(j, b) PROVE NoOrphanObject'
  BY <1>21, <1>0, <1>a, <1>b
     DEF Handle, Faulty, SetStatus, Goto, workFrame, Exists, queueVars, DocStatus,
         NoOrphanObject, Removals
<1>22. ASSUME NEW j \in Jobs, NEW b \in BOOLEAN, Cleanup(j, b) PROVE NoOrphanObject'
  BY <1>22, <1>0, <1>a, <1>b
     DEF Cleanup, Faulty, Goto, docVars, workFrame, queueVars, NoOrphanObject, Removals,
         Exists, DocStatus
<1>23. ASSUME NEW j \in Jobs, DeletionLookup(j) PROVE NoOrphanObject'
  BY <1>23, <1>0, <1>a, <1>b
     DEF DeletionLookup, Goto, Exists, docVars, workFrame, DocStatus, queueVars,
         NoOrphanObject, Removals
<1>24. ASSUME NEW j \in Jobs, Denied(j) PROVE NoOrphanObject'
  BY <1>24, <1>0, <1>a, <1>b
     DEF Denied, Exists, Outcome, Goto, docVars, workFrame, DocStatus, queueVars,
         NoOrphanObject, Removals
<1>25. ASSUME NEW j \in Jobs, Erase(j) PROVE NoOrphanObject'
  BY <1>25, <1>0, <1>a, <1>b
     DEF Erase, SetStatus, Goto, Exists, workFrame, DocStatus, queueVars, NoOrphanObject,
         Removals
<1>26. ASSUME NEW j \in Jobs, NEW b \in BOOLEAN, RemoveObject(j, b) PROVE NoOrphanObject'
  BY <1>26, <1>0, <1>a, <1>b
     DEF RemoveObject, Faulty, Goto, docVars, workFrame, queueVars, NoOrphanObject,
         Removals, Exists, DocStatus
<1>27. ASSUME NEW j \in Jobs, DeletionInvalidate(j) PROVE NoOrphanObject'
  BY <1>27, <1>0, <1>a, <1>b
     DEF DeletionInvalidate, Outcome, Goto, docVars, workFrame, queueVars, NoOrphanObject,
         Removals, Exists, DocStatus
<1>28. ASSUME NEW j \in Jobs, NEW b \in BOOLEAN, Settle(j, b) PROVE NoOrphanObject'
  BY <1>28, <1>0, <1>a, <1>b
     DEF Settle, Last, Faulty, SetJob, Goto, docVars, workFrame, Try, JobStatus, queueVars,
         NoOrphanObject, Removals, Exists, DocStatus
<1>29. ASSUME NEW j \in Jobs, NEW b \in BOOLEAN, Leave(j, b) PROVE NoOrphanObject'
  BY <1>29, <1>0, <1>a, <1>b
     DEF Leave, Last, Faulty, Release, Again, Try, Goto, docVars, rowVars, NoOrphanObject,
         Removals, Exists, DocStatus
<1>30. ASSUME NEW j \in Jobs, AdmissionFails(j) PROVE NoOrphanObject'
  BY <1>30, <1>0, <1>a, <1>b
     DEF AdmissionFails, Delivered, Faulty, docVars, rowVars, bodyVars, NoOrphanObject,
         Removals, Exists, DocStatus
<1>31. ASSUME NEW j \in Jobs, BodyFails(j) PROVE NoOrphanObject'
  BY <1>31, <1>0, <1>a, <1>b
     DEF BodyFails, DeleteSteps, Faulty, Outcome, Goto, docVars, workFrame, queueVars,
         NoOrphanObject, Removals, Exists, DocStatus
<1>32. ASSUME NEW j \in Jobs, Crash(j) PROVE NoOrphanObject'
  BY <1>32, <1>0, <1>a, <1>b
     DEF Crash, Running, Faulty, Release, Goto, docVars, rowVars, NoOrphanObject, Removals,
         Exists, DocStatus
<1>33. ASSUME NEW j \in Jobs, NEW why \in {"timeout", "shutdown"}, Cancel(j, why)
      PROVE NoOrphanObject'
  BY <1>33, <1>0, <1>a, <1>b
     DEF Cancel, ProcessSteps, DeleteSteps, Faulty, Outcome, Goto, docVars, workFrame,
         queueVars, NoOrphanObject, Removals, Exists, DocStatus
<1>34. ASSUME NEW orphans \in SUBSET Jobs, NEW stale \in SUBSET Jobs, RecoverJobs(orphans, stale)
      PROVE NoOrphanObject'
  BY <1>34, <1>0, <1>a, <1>b
     DEF RecoverJobs, cronFrame, queueVars, bodyVars, NoOrphanObject, Removals, Exists,
         DocStatus
<1>35. ASSUME FailDocuments PROVE NoOrphanObject'
  BY <1>35, <1>0, <1>a, <1>b
     DEF FailDocuments, cronFrame, queueVars, bodyVars, NoOrphanObject, Removals, Exists,
         DocStatus
<1>36. ASSUME CronLost PROVE NoOrphanObject'
  BY <1>36, <1>0, <1>a, <1>b
     DEF CronLost, Faulty, cronFrame, queueVars, bodyVars, NoOrphanObject, Removals, Exists,
         DocStatus
<1>37. ASSUME NEW d \in Docs, RecoverStuck(d) PROVE NoOrphanObject'
  BY <1>37, <1>0, <1>a, <1>b
     DEF RecoverStuck, cronFrame, queueVars, bodyVars, NoOrphanObject, Removals, Exists,
         DocStatus
<1>38. ASSUME NEW j \in Jobs, DeleteOld(j) PROVE NoOrphanObject'
  BY <1>38, <1>0, <1>a, <1>b
     DEF DeleteOld, cronFrame, queueVars, bodyVars, NoOrphanObject, Removals, Exists,
         DocStatus
<1>39. ASSUME NEW p \in Principals, LeaseExpires(p) PROVE NoOrphanObject'
  BY <1>39, <1>0, <1>a, <1>b
     DEF LeaseExpires, docVars, rowVars, bodyVars, NoOrphanObject, Removals, Exists,
         DocStatus
<1>40. ASSUME NEW d \in Docs, Indexed(d) PROVE NoOrphanObject'
  BY <1>40, <1>0, <1>a, <1>b
     DEF Indexed, cronFrame, queueVars, bodyVars, NoOrphanObject, Removals, Exists,
         DocStatus
<1> QED
  BY <1>1, <1>2, <1>3, <1>4, <1>5, <1>6, <1>7, <1>8, <1>9, <1>10, <1>11, <1>12, <1>13,
     <1>14, <1>15, <1>16, <1>17, <1>18, <1>19, <1>20, <1>21, <1>22, <1>23, <1>24, <1>25,
     <1>26, <1>27, <1>28, <1>29, <1>30, <1>31, <1>32, <1>33, <1>34, <1>35, <1>36, <1>37,
     <1>38, <1>39, <1>40
     DEF Next, Request, Progress, Fault, Cron
-----------------------------------------------------------------------------
(* The invariant and its consequences. *)

\* The initial state satisfies the invariant.
LEMMA InitInv ==
    ASSUME Init
    PROVE  IInv
<1> USE BoundsAssumption, NamesAssumption
<1>1. TypeOK
  BY DEF Init, TypeOK, Steps, ProcessSteps, DeleteSteps, Outcomes, DocStatus, JobStatus
<1>2. Shape
  BY DEF Init, Shape, Running, ProcessSteps, DeleteSteps
<1>3. RowsHaveObjects /\ Removals
  BY DEF Init, RowsHaveObjects, Removals, Exists, DocStatus
<1>4. Deletions /\ DoneDeletion
  BY DEF Init, Deletions, DoneDeletion
<1>5. Attempts /\ NoOrphanObject
  BY DEF Init, Attempts, NoOrphanObject, Running
<1> QED
  BY <1>1, <1>2, <1>3, <1>4, <1>5 DEF IInv

\* Every step keeps the invariant.
LEMMA InvNext ==
    ASSUME IInv, [Next]_vars
    PROVE  IInv'
<1>1. CASE Next
  BY <1>1, TypeNext, ShapeNext, ObjectsNext, DeletionsNext, AttemptsNext, OrphansNext DEF IInv
<1>2. CASE UNCHANGED vars
  BY <1>2 DEF vars, IInv, TypeOK, Shape, Running, RowsHaveObjects, Exists, Removals, Deletions,
              DoneDeletion, Attempts, NoOrphanObject
<1> QED
  BY <1>1, <1>2

\* The invariant holds in every reachable state, for any numbers of documents, jobs,
\* principals, retries and faults.
THEOREM Invariant == Spec => []IInv
<1> QED
  BY InitInv, InvNext, PTL DEF Spec

\* Every variable stays in its domain.
THEOREM JobsTypeCorrect == Spec => []TypeOK
<1>1. IInv => TypeOK
  BY DEF IInv
<1> QED
  BY <1>1, Invariant, PTL

\* The object of a document is stored as long as its row exists.
THEOREM ObjectsOutliveRows == Spec => []RowsHaveObjects
<1>1. IInv => RowsHaveObjects
  BY DEF IInv
<1> QED
  BY <1>1, Invariant, PTL

\* A deletion reported as done has removed the row and dropped the cached answers.
THEOREM DeletionsAreHonest == Spec => []DoneDeletion
<1>1. IInv => DoneDeletion
  BY DEF IInv
<1> QED
  BY <1>1, Invariant, PTL

\* Without a fault no object outlives its row.
THEOREM NothingOrphaned == Spec => []NoOrphanObject
<1>1. IInv => NoOrphanObject
  BY DEF IInv
<1> QED
  BY <1>1, Invariant, PTL

\* A job that gives up has had all its attempts, whatever it waited.
THEOREM WaitsAreFree == Spec => []WaitsCostNoRetry
<1>1. IInv => WaitsCostNoRetry
  <2> SUFFICES ASSUME IInv, NEW j \in Jobs, kind[j] = "process", pc[j] = "settle", Last(j),
                      out[j] = "error"
               PROVE  runs[j] + faults >= MaxTries
    BY DEF WaitsCostNoRetry
  <2>1. /\ tries[j] \in Nat /\ waits[j] \in Nat /\ runs[j] \in Nat /\ faults \in Nat
        /\ MaxTries \in Nat
    BY BoundsAssumption DEF IInv, TypeOK
  <2>2. tries[j] <= waits[j] + runs[j] + faults /\ runs[j] >= 1
    BY DEF IInv, Attempts, Running
  <2>3. Try(j) >= MaxTries
    BY DEF Last
  <2> QED
    BY <2>1, <2>2, <2>3 DEF Try
<1> QED
  BY <1>1, Invariant, PTL

-----------------------------------------------------------------------------
(* What a processing reported as done has left.  The read session of a worker must *)
(* see the master: a lagging replica may miss the row, and the body then ends well. *)

\* Documents that are gone, or have their chunks and are on the way to the index.
Kept == {d \in Docs :
            stat[d] = "gone" \/ (stat[d] \in {"indexing", "done"} /\ d \in content)}

\* An uploaded document has one processing job at most.
OneJob ==
    /\ \A i, j \in Jobs : kind[i] = "process" /\ kind[j] = "process" /\ target[i] = target[j]
                            => i = j
    /\ \A j \in Jobs : kind[j] = "process"
                            => target[j] \notin awaiting /\ stat[target[j]] # "absent"
    /\ \A d \in awaiting : stat[d] # "absent"

\* A body that has not failed has left its document kept when it ends.
Finished ==
    \A j \in Jobs : kind[j] = "process" =>
        /\ pc[j] = "handle" => out[j] # "ok"
        /\ pc[j] = "invalidate" => target[j] \in Kept
        /\ (pc[j] \in {"cleanup", "settle"} /\ out[j] = "ok") => target[j] \in Kept

\* After the report the message ends, unless a fault has delivered it again; with one
\* fault that delivery marks the row running before it touches the document.
Reported ==
    \A j \in Jobs : kind[j] = "process" /\ jstat[j] = "done" =>
        \/ faults >= 2
        \/ /\ target[j] \in Kept
           /\ \/ msg[j] = "none"
              \/ pc[j] = "leave" /\ out[j] = "ok"
              \/ (msg[j] = "queued" \/ pc[j] = "admitted") /\ faults >= 1

\* A document gets its processing job once.
LEMMA OneJobNext ==
    ASSUME TypeOK, Shape, OneJob, Next
    PROVE  OneJob'
<1>0. /\ stat \in [Docs -> DocStatus \cup {"absent", "gone"}] /\ pc \in [Jobs -> Steps]
      /\ kind \in [Jobs -> {"none", "process", "delete"}] /\ out \in [Jobs -> Outcomes]
      /\ target \in [Jobs -> Docs \cup {NoDoc}] /\ awaiting \subseteq Docs
      /\ jstat \in [Jobs -> JobStatus \cup {"free", "deleted"}]
      /\ msg \in [Jobs -> {"none", "unsent", "queued", "running"}] /\ faults \in Nat
  BY BoundsAssumption DEF TypeOK
<1>b. \A j \in Jobs : kind[j] # "none" => target[j] \in Docs
  BY DEF Shape
<1>c. \A j \in Jobs : jstat[j] = "free" => kind[j] = "none"
  BY DEF Shape
<1>1. ASSUME NEW d \in Docs, NEW r \in Docs \cup {NoDoc}, Upload(d, r) PROVE OneJob'
  BY <1>1, <1>0, <1>b, <1>c
     DEF Upload, MayReplace, rowVars, queueVars, bodyVars, OneJob, DocStatus
<1>2. ASSUME NEW d \in Docs, UploadLost(d) PROVE OneJob'
  BY <1>2, <1>0, <1>b, <1>c
     DEF UploadLost, Faulty, rowVars, queueVars, bodyVars, OneJob, DocStatus
<1>3. ASSUME NEW d \in Docs, CreateJobLost(d) PROVE OneJob'
  BY <1>3, <1>0, <1>b, <1>c
     DEF CreateJobLost, Faulty, docVars, rowVars, queueVars, bodyVars, OneJob, DocStatus
<1>4. ASSUME NEW d \in Docs, NEW j \in Jobs, CreateJob(d, j) PROVE OneJob'
  BY <1>4, <1>0, <1>b, <1>c
     DEF CreateJob, NewRow, docVars, bodyVars, OneJob, DocStatus
<1>5. ASSUME NEW d \in Docs, NEW j \in Jobs, RequestDeletion(d, j) PROVE OneJob'
  BY <1>5, <1>0, <1>b, <1>c
     DEF RequestDeletion, Exists, NewRow, DocStatus, docVars, bodyVars, OneJob
<1>6. ASSUME NEW j \in Jobs, EnqueueLost(j) PROVE OneJob'
  BY <1>6, <1>0, <1>b, <1>c
     DEF EnqueueLost, Faulty, docVars, rowVars, bodyVars, OneJob, DocStatus
<1>7. ASSUME NEW j \in Jobs, EnqueueRefused(j) PROVE OneJob'
  BY <1>7, <1>0, <1>b, <1>c
     DEF EnqueueRefused, Faulty, docVars, bodyVars, OneJob, DocStatus
<1>8. ASSUME NEW j \in Jobs, Enqueue(j) PROVE OneJob'
  BY <1>8, <1>0, <1>b, <1>c
     DEF Enqueue, docVars, rowVars, bodyVars, OneJob, DocStatus
<1>9. ASSUME NEW j \in Jobs, Admit(j) PROVE OneJob'
  BY <1>9, <1>0, <1>b, <1>c
     DEF Admit, Delivered, Goto, docVars, rowVars, OneJob, DocStatus
<1>10. ASSUME NEW j \in Jobs, Wait(j) PROVE OneJob'
  BY <1>10, <1>0, <1>b, <1>c
     DEF Wait, Delivered, docVars, rowVars, bodyVars, OneJob, DocStatus
<1>11. ASSUME NEW j \in Jobs, StartDeletion(j) PROVE OneJob'
  BY <1>11, <1>0, <1>b, <1>c
     DEF StartDeletion, Delivered, Goto, docVars, rowVars, OneJob, DocStatus
<1>12. ASSUME NEW j \in Jobs, Exhaust(j) PROVE OneJob'
  BY <1>12, <1>0, <1>b, <1>c
     DEF Exhaust, docVars, rowVars, bodyVars, OneJob, DocStatus
<1>13. ASSUME NEW j \in Jobs, NEW b \in BOOLEAN, MarkRunning(j, b) PROVE OneJob'
  BY <1>13, <1>0, <1>b, <1>c
     DEF MarkRunning, Faulty, Goto, docVars, workFrame, queueVars, OneJob, DocStatus
<1>14. ASSUME NEW j \in Jobs, NEW b \in BOOLEAN, Lookup(j, b) PROVE OneJob'
  BY <1>14, <1>0, <1>b, <1>c
     DEF Lookup, Exists, Goto, Outcome, docVars, workFrame, DocStatus, queueVars, OneJob
<1>15. ASSUME NEW j \in Jobs, NEW b \in BOOLEAN, Check(j, b) PROVE OneJob'
  BY <1>15, <1>0, <1>b, <1>c
     DEF Check, Exists, Goto, docVars, workFrame, DocStatus, queueVars, OneJob
<1>16. ASSUME NEW j \in Jobs, Begin(j) PROVE OneJob'
  BY <1>16, <1>0, <1>b, <1>c
     DEF Begin, SetStatus, Goto, workFrame, Exists, queueVars, DocStatus, OneJob
<1>17. ASSUME NEW j \in Jobs, NEW b \in BOOLEAN, Parse(j, b) PROVE OneJob'
  BY <1>17, <1>0, <1>b, <1>c
     DEF Parse, Goto, Outcome, docVars, workFrame, queueVars, OneJob, DocStatus
<1>18. ASSUME NEW j \in Jobs, NEW b \in BOOLEAN, Persist(j, b) PROVE OneJob'
  BY <1>18, <1>0, <1>b, <1>c
     DEF Persist, Replaced, Exists, Goto, workFrame, DocStatus, queueVars, OneJob
<1>19. ASSUME NEW j \in Jobs, PersistNothing(j) PROVE OneJob'
  BY <1>19, <1>0, <1>b, <1>c
     DEF PersistNothing, Exists, Goto, docVars, workFrame, DocStatus, queueVars, OneJob
<1>20. ASSUME NEW j \in Jobs, Invalidate(j) PROVE OneJob'
  BY <1>20, <1>0, <1>b, <1>c
     DEF Invalidate, Goto, docVars, workFrame, queueVars, OneJob, DocStatus
<1>21. ASSUME NEW j \in Jobs, NEW b \in BOOLEAN, Handle(j, b) PROVE OneJob'
  BY <1>21, <1>0, <1>b, <1>c
     DEF Handle, Faulty, SetStatus, Goto, workFrame, Exists, queueVars, DocStatus, OneJob
<1>22. ASSUME NEW j \in Jobs, NEW b \in BOOLEAN, Cleanup(j, b) PROVE OneJob'
  BY <1>22, <1>0, <1>b, <1>c
     DEF Cleanup, Faulty, Goto, docVars, workFrame, queueVars, OneJob, DocStatus
<1>23. ASSUME NEW j \in Jobs, DeletionLookup(j) PROVE OneJob'
  BY <1>23, <1>0, <1>b, <1>c
     DEF DeletionLookup, Goto, Exists, docVars, workFrame, DocStatus, queueVars, OneJob
<1>24. ASSUME NEW j \in Jobs, Denied(j) PROVE OneJob'
  BY <1>24, <1>0, <1>b, <1>c
     DEF Denied, Exists, Outcome, Goto, docVars, workFrame, DocStatus, queueVars, OneJob
<1>25. ASSUME NEW j \in Jobs, Erase(j) PROVE OneJob'
  BY <1>25, <1>0, <1>b, <1>c
     DEF Erase, SetStatus, Goto, Exists, workFrame, DocStatus, queueVars, OneJob
<1>26. ASSUME NEW j \in Jobs, NEW b \in BOOLEAN, RemoveObject(j, b) PROVE OneJob'
  BY <1>26, <1>0, <1>b, <1>c
     DEF RemoveObject, Faulty, Goto, docVars, workFrame, queueVars, OneJob, DocStatus
<1>27. ASSUME NEW j \in Jobs, DeletionInvalidate(j) PROVE OneJob'
  BY <1>27, <1>0, <1>b, <1>c
     DEF DeletionInvalidate, Outcome, Goto, docVars, workFrame, queueVars, OneJob, DocStatus
<1>28. ASSUME NEW j \in Jobs, NEW b \in BOOLEAN, Settle(j, b) PROVE OneJob'
  BY <1>28, <1>0, <1>b, <1>c
     DEF Settle, Faulty, Goto, docVars, workFrame, queueVars, OneJob, DocStatus
<1>29. ASSUME NEW j \in Jobs, NEW b \in BOOLEAN, Leave(j, b) PROVE OneJob'
  BY <1>29, <1>0, <1>b, <1>c
     DEF Leave, Faulty, Release, Goto, docVars, rowVars, OneJob, DocStatus
<1>30. ASSUME NEW j \in Jobs, AdmissionFails(j) PROVE OneJob'
  BY <1>30, <1>0, <1>b, <1>c
     DEF AdmissionFails, Delivered, Faulty, docVars, rowVars, bodyVars, OneJob, DocStatus
<1>31. ASSUME NEW j \in Jobs, BodyFails(j) PROVE OneJob'
  BY <1>31, <1>0, <1>b, <1>c
     DEF BodyFails, Faulty, Outcome, Goto, docVars, workFrame, queueVars, OneJob, DocStatus
<1>32. ASSUME NEW j \in Jobs, Crash(j) PROVE OneJob'
  BY <1>32, <1>0, <1>b, <1>c
     DEF Crash, Running, Faulty, Release, Goto, docVars, rowVars, OneJob, DocStatus
<1>33. ASSUME NEW j \in Jobs, NEW why \in {"timeout", "shutdown"}, Cancel(j, why)
      PROVE OneJob'
  BY <1>33, <1>0, <1>b, <1>c
     DEF Cancel, Faulty, Outcome, Goto, docVars, workFrame, queueVars, OneJob, DocStatus
<1>34. ASSUME NEW orphans \in SUBSET Jobs, NEW stale \in SUBSET Jobs, RecoverJobs(orphans,
             stale)
      PROVE OneJob'
  BY <1>34, <1>0, <1>b, <1>c
     DEF RecoverJobs, cronFrame, queueVars, bodyVars, OneJob, DocStatus
<1>35. ASSUME FailDocuments PROVE OneJob'
  BY <1>35, <1>0, <1>b, <1>c
     DEF FailDocuments, cronFrame, queueVars, bodyVars, OneJob, DocStatus
<1>36. ASSUME CronLost PROVE OneJob'
  BY <1>36, <1>0, <1>b, <1>c
     DEF CronLost, Faulty, cronFrame, queueVars, bodyVars, OneJob, DocStatus
<1>37. ASSUME NEW d \in Docs, RecoverStuck(d) PROVE OneJob'
  BY <1>37, <1>0, <1>b, <1>c
     DEF RecoverStuck, cronFrame, queueVars, bodyVars, OneJob, DocStatus
<1>38. ASSUME NEW j \in Jobs, DeleteOld(j) PROVE OneJob'
  BY <1>38, <1>0, <1>b, <1>c
     DEF DeleteOld, cronFrame, queueVars, bodyVars, OneJob, DocStatus
<1>39. ASSUME NEW p \in Principals, LeaseExpires(p) PROVE OneJob'
  BY <1>39, <1>0, <1>b, <1>c
     DEF LeaseExpires, docVars, rowVars, bodyVars, OneJob, DocStatus
<1>40. ASSUME NEW d \in Docs, Indexed(d) PROVE OneJob'
  BY <1>40, <1>0, <1>b, <1>c
     DEF Indexed, cronFrame, queueVars, bodyVars, OneJob, DocStatus
<1> QED
  BY <1>1, <1>2, <1>3, <1>4, <1>5, <1>6, <1>7, <1>8, <1>9, <1>10, <1>11, <1>12, <1>13,
     <1>14, <1>15, <1>16, <1>17, <1>18, <1>19, <1>20, <1>21, <1>22, <1>23, <1>24, <1>25,
     <1>26, <1>27, <1>28, <1>29, <1>30, <1>31, <1>32, <1>33, <1>34, <1>35, <1>36, <1>37,
     <1>38, <1>39, <1>40
     DEF Next, Request, Progress, Fault, Cron

\* Only the processing of a document itself takes it out of the kept ones.
LEMMA KeptNext ==
    ASSUME TypeOK, Shape, NEW x \in Kept,
           \A j \in Jobs : kind[j] = "process" /\ target[j] = x => pc[j] \notin {"begin", "handle"},
           Next
    PROVE  x \in Kept'
<1>0. /\ stat \in [Docs -> DocStatus \cup {"absent", "gone"}] /\ content \subseteq Docs
  BY DEF TypeOK
<1>b. \A j \in Jobs : pc[j] \in ProcessSteps => target[j] \in Docs /\ kind[j] = "process"
  BY DEF Shape
<1>c. {"begin", "handle"} \subseteq ProcessSteps
  BY DEF ProcessSteps
<1>1. ASSUME NEW d \in Docs, NEW r \in Docs \cup {NoDoc}, Upload(d, r) PROVE x \in Kept'
  BY <1>1, <1>0, <1>b, <1>c
     DEF Upload, MayReplace, rowVars, queueVars, bodyVars, Kept, DocStatus
<1>2. ASSUME NEW d \in Docs, UploadLost(d) PROVE x \in Kept'
  BY <1>2, <1>0, <1>b, <1>c
     DEF UploadLost, Faulty, rowVars, queueVars, bodyVars, Kept, DocStatus
<1>3. ASSUME NEW d \in Docs, CreateJobLost(d) PROVE x \in Kept'
  BY <1>3, <1>0, <1>b, <1>c
     DEF CreateJobLost, Faulty, docVars, rowVars, queueVars, bodyVars, Kept, DocStatus
<1>4. ASSUME NEW d \in Docs, NEW j \in Jobs, CreateJob(d, j) PROVE x \in Kept'
  BY <1>4, <1>0, <1>b, <1>c
     DEF CreateJob, NewRow, docVars, bodyVars, Kept, DocStatus
<1>5. ASSUME NEW d \in Docs, NEW j \in Jobs, RequestDeletion(d, j) PROVE x \in Kept'
  BY <1>5, <1>0, <1>b, <1>c
     DEF RequestDeletion, Exists, NewRow, DocStatus, docVars, bodyVars, Kept
<1>6. ASSUME NEW j \in Jobs, EnqueueLost(j) PROVE x \in Kept'
  BY <1>6, <1>0, <1>b, <1>c
     DEF EnqueueLost, Faulty, docVars, rowVars, bodyVars, Kept, DocStatus
<1>7. ASSUME NEW j \in Jobs, EnqueueRefused(j) PROVE x \in Kept'
  BY <1>7, <1>0, <1>b, <1>c
     DEF EnqueueRefused, Faulty, docVars, bodyVars, Kept, DocStatus
<1>8. ASSUME NEW j \in Jobs, Enqueue(j) PROVE x \in Kept'
  BY <1>8, <1>0, <1>b, <1>c
     DEF Enqueue, docVars, rowVars, bodyVars, Kept, DocStatus
<1>9. ASSUME NEW j \in Jobs, Admit(j) PROVE x \in Kept'
  BY <1>9, <1>0, <1>b, <1>c
     DEF Admit, Delivered, Goto, docVars, rowVars, Kept, DocStatus
<1>10. ASSUME NEW j \in Jobs, Wait(j) PROVE x \in Kept'
  BY <1>10, <1>0, <1>b, <1>c
     DEF Wait, Delivered, docVars, rowVars, bodyVars, Kept, DocStatus
<1>11. ASSUME NEW j \in Jobs, StartDeletion(j) PROVE x \in Kept'
  BY <1>11, <1>0, <1>b, <1>c
     DEF StartDeletion, Delivered, Goto, docVars, rowVars, Kept, DocStatus
<1>12. ASSUME NEW j \in Jobs, Exhaust(j) PROVE x \in Kept'
  BY <1>12, <1>0, <1>b, <1>c
     DEF Exhaust, docVars, rowVars, bodyVars, Kept, DocStatus
<1>13. ASSUME NEW j \in Jobs, NEW b \in BOOLEAN, MarkRunning(j, b) PROVE x \in Kept'
  BY <1>13, <1>0, <1>b, <1>c
     DEF MarkRunning, Faulty, Goto, docVars, workFrame, queueVars, Kept, DocStatus
<1>14. ASSUME NEW j \in Jobs, NEW b \in BOOLEAN, Lookup(j, b) PROVE x \in Kept'
  BY <1>14, <1>0, <1>b, <1>c
     DEF Lookup, Exists, Goto, Outcome, docVars, workFrame, DocStatus, queueVars, Kept
<1>15. ASSUME NEW j \in Jobs, NEW b \in BOOLEAN, Check(j, b) PROVE x \in Kept'
  BY <1>15, <1>0, <1>b, <1>c
     DEF Check, Exists, Goto, docVars, workFrame, DocStatus, queueVars, Kept
<1>16. ASSUME NEW j \in Jobs, Begin(j) PROVE x \in Kept'
  BY <1>16, <1>0, <1>b, <1>c
     DEF Begin, SetStatus, Goto, workFrame, Exists, queueVars, DocStatus, Kept
<1>17. ASSUME NEW j \in Jobs, NEW b \in BOOLEAN, Parse(j, b) PROVE x \in Kept'
  BY <1>17, <1>0, <1>b, <1>c
     DEF Parse, Goto, Outcome, docVars, workFrame, queueVars, Kept, DocStatus
<1>18. ASSUME NEW j \in Jobs, NEW b \in BOOLEAN, Persist(j, b) PROVE x \in Kept'
  BY <1>18, <1>0, <1>b, <1>c
     DEF Persist, Replaced, Exists, Goto, workFrame, DocStatus, queueVars, Kept
<1>19. ASSUME NEW j \in Jobs, PersistNothing(j) PROVE x \in Kept'
  BY <1>19, <1>0, <1>b, <1>c
     DEF PersistNothing, Exists, Goto, docVars, workFrame, DocStatus, queueVars, Kept
<1>20. ASSUME NEW j \in Jobs, Invalidate(j) PROVE x \in Kept'
  BY <1>20, <1>0, <1>b, <1>c
     DEF Invalidate, Goto, docVars, workFrame, queueVars, Kept, DocStatus
<1>21. ASSUME NEW j \in Jobs, NEW b \in BOOLEAN, Handle(j, b) PROVE x \in Kept'
  BY <1>21, <1>0, <1>b, <1>c
     DEF Handle, Faulty, SetStatus, Goto, workFrame, Exists, queueVars, DocStatus, Kept
<1>22. ASSUME NEW j \in Jobs, NEW b \in BOOLEAN, Cleanup(j, b) PROVE x \in Kept'
  BY <1>22, <1>0, <1>b, <1>c
     DEF Cleanup, Faulty, Goto, docVars, workFrame, queueVars, Kept, DocStatus
<1>23. ASSUME NEW j \in Jobs, DeletionLookup(j) PROVE x \in Kept'
  BY <1>23, <1>0, <1>b, <1>c
     DEF DeletionLookup, Goto, Exists, docVars, workFrame, DocStatus, queueVars, Kept
<1>24. ASSUME NEW j \in Jobs, Denied(j) PROVE x \in Kept'
  BY <1>24, <1>0, <1>b, <1>c
     DEF Denied, Exists, Outcome, Goto, docVars, workFrame, DocStatus, queueVars, Kept
<1>25. ASSUME NEW j \in Jobs, Erase(j) PROVE x \in Kept'
  BY <1>25, <1>0, <1>b, <1>c
     DEF Erase, SetStatus, Goto, Exists, workFrame, DocStatus, queueVars, Kept
<1>26. ASSUME NEW j \in Jobs, NEW b \in BOOLEAN, RemoveObject(j, b) PROVE x \in Kept'
  BY <1>26, <1>0, <1>b, <1>c
     DEF RemoveObject, Faulty, Goto, docVars, workFrame, queueVars, Kept, DocStatus
<1>27. ASSUME NEW j \in Jobs, DeletionInvalidate(j) PROVE x \in Kept'
  BY <1>27, <1>0, <1>b, <1>c
     DEF DeletionInvalidate, Outcome, Goto, docVars, workFrame, queueVars, Kept, DocStatus
<1>28. ASSUME NEW j \in Jobs, NEW b \in BOOLEAN, Settle(j, b) PROVE x \in Kept'
  BY <1>28, <1>0, <1>b, <1>c
     DEF Settle, Faulty, Goto, docVars, workFrame, queueVars, Kept, DocStatus
<1>29. ASSUME NEW j \in Jobs, NEW b \in BOOLEAN, Leave(j, b) PROVE x \in Kept'
  BY <1>29, <1>0, <1>b, <1>c
     DEF Leave, Faulty, Release, Goto, docVars, rowVars, Kept, DocStatus
<1>30. ASSUME NEW j \in Jobs, AdmissionFails(j) PROVE x \in Kept'
  BY <1>30, <1>0, <1>b, <1>c
     DEF AdmissionFails, Delivered, Faulty, docVars, rowVars, bodyVars, Kept, DocStatus
<1>31. ASSUME NEW j \in Jobs, BodyFails(j) PROVE x \in Kept'
  BY <1>31, <1>0, <1>b, <1>c
     DEF BodyFails, Faulty, Outcome, Goto, docVars, workFrame, queueVars, Kept, DocStatus
<1>32. ASSUME NEW j \in Jobs, Crash(j) PROVE x \in Kept'
  BY <1>32, <1>0, <1>b, <1>c
     DEF Crash, Running, Faulty, Release, Goto, docVars, rowVars, Kept, DocStatus
<1>33. ASSUME NEW j \in Jobs, NEW why \in {"timeout", "shutdown"}, Cancel(j, why)
      PROVE x \in Kept'
  BY <1>33, <1>0, <1>b, <1>c
     DEF Cancel, Faulty, Outcome, Goto, docVars, workFrame, queueVars, Kept, DocStatus
<1>34. ASSUME NEW orphans \in SUBSET Jobs, NEW stale \in SUBSET Jobs, RecoverJobs(orphans,
             stale)
      PROVE x \in Kept'
  BY <1>34, <1>0, <1>b, <1>c
     DEF RecoverJobs, cronFrame, queueVars, bodyVars, Kept, DocStatus
<1>35. ASSUME FailDocuments PROVE x \in Kept'
  BY <1>35, <1>0, <1>b, <1>c
     DEF FailDocuments, cronFrame, queueVars, bodyVars, Kept, DocStatus
<1>36. ASSUME CronLost PROVE x \in Kept'
  BY <1>36, <1>0, <1>b, <1>c
     DEF CronLost, Faulty, cronFrame, queueVars, bodyVars, Kept, DocStatus
<1>37. ASSUME NEW d \in Docs, RecoverStuck(d) PROVE x \in Kept'
  BY <1>37, <1>0, <1>b, <1>c
     DEF RecoverStuck, cronFrame, queueVars, bodyVars, Kept, DocStatus
<1>38. ASSUME NEW j \in Jobs, DeleteOld(j) PROVE x \in Kept'
  BY <1>38, <1>0, <1>b, <1>c
     DEF DeleteOld, cronFrame, queueVars, bodyVars, Kept, DocStatus
<1>39. ASSUME NEW p \in Principals, LeaseExpires(p) PROVE x \in Kept'
  BY <1>39, <1>0, <1>b, <1>c
     DEF LeaseExpires, docVars, rowVars, bodyVars, Kept, DocStatus
<1>40. ASSUME NEW d \in Docs, Indexed(d) PROVE x \in Kept'
  BY <1>40, <1>0, <1>b, <1>c
     DEF Indexed, cronFrame, queueVars, bodyVars, Kept, DocStatus
<1> QED
  BY <1>1, <1>2, <1>3, <1>4, <1>5, <1>6, <1>7, <1>8, <1>9, <1>10, <1>11, <1>12, <1>13,
     <1>14, <1>15, <1>16, <1>17, <1>18, <1>19, <1>20, <1>21, <1>22, <1>23, <1>24, <1>25,
     <1>26, <1>27, <1>28, <1>29, <1>30, <1>31, <1>32, <1>33, <1>34, <1>35, <1>36, <1>37,
     <1>38, <1>39, <1>40
     DEF Next, Request, Progress, Fault, Cron

\* A body ends well only when its document is kept.
LEMMA FinishedNext ==
    ASSUME ~HasReplica, TypeOK, Shape, OneJob, Finished, Next
    PROVE  Finished'
<1>0. /\ stat \in [Docs -> DocStatus \cup {"absent", "gone"}] /\ pc \in [Jobs -> Steps]
      /\ kind \in [Jobs -> {"none", "process", "delete"}] /\ out \in [Jobs -> Outcomes]
      /\ target \in [Jobs -> Docs \cup {NoDoc}] /\ awaiting \subseteq Docs
      /\ jstat \in [Jobs -> JobStatus \cup {"free", "deleted"}]
      /\ msg \in [Jobs -> {"none", "unsent", "queued", "running"}] /\ faults \in Nat
  BY BoundsAssumption DEF TypeOK
<1>b. \A j \in Jobs : kind[j] # "none" => target[j] \in Docs
  BY DEF Shape
<1>c. \A j \in Jobs : jstat[j] = "free" => kind[j] = "none"
  BY DEF Shape
<1>k. ASSUME NEW d \in Kept,
             \A j \in Jobs : kind[j] = "process" /\ target[j] = d => pc[j] \notin {"begin", "handle"}
      PROVE  d \in Kept'
  BY <1>k, KeptNext
<1>a. \A j \in Jobs : kind[j] = "process" /\ ~Exists(target[j]) => target[j] \in Kept
  BY <1>0, <1>b DEF OneJob, Exists, Kept
<1>u. \A i, j \in Jobs : kind[i] = "process" /\ kind[j] = "process" /\ target[i] = target[j] => i = j
  BY DEF OneJob
<1>s. \A j \in Jobs : /\ Running(j) <=> msg[j] = "running"
                      /\ pc[j] \in ProcessSteps => kind[j] = "process"
                      /\ pc[j] \in DeleteSteps => kind[j] = "delete"
  BY DEF Shape
<1>1. ASSUME NEW d \in Docs, NEW r \in Docs \cup {NoDoc}, Upload(d, r) PROVE Finished'
  BY <1>1, <1>0, <1>b, <1>c, <1>k, <1>a, <1>u, <1>s
     DEF Upload, MayReplace, rowVars, queueVars, bodyVars, Finished, Running, ProcessSteps,
         DeleteSteps
<1>2. ASSUME NEW d \in Docs, UploadLost(d) PROVE Finished'
  BY <1>2, <1>0, <1>b, <1>c, <1>k, <1>a, <1>u, <1>s
     DEF UploadLost, Faulty, rowVars, queueVars, bodyVars, Finished, Running, ProcessSteps,
         DeleteSteps
<1>3. ASSUME NEW d \in Docs, CreateJobLost(d) PROVE Finished'
  BY <1>3, <1>0, <1>b, <1>c, <1>k, <1>a, <1>u, <1>s
     DEF CreateJobLost, Faulty, docVars, rowVars, queueVars, bodyVars, Finished, Running,
         ProcessSteps, DeleteSteps
<1>4. ASSUME NEW d \in Docs, NEW j \in Jobs, CreateJob(d, j) PROVE Finished'
  <2>1. pc[j] = "idle" /\ pc' = pc /\ out' = out
    BY <1>4 DEF CreateJob, NewRow, Shape, Running, bodyVars
  <2>2. \A i \in Jobs : i # j => kind'[i] = kind[i] /\ target'[i] = target[i]
    BY <1>4, <1>0 DEF CreateJob, NewRow
  <2>3. stat' = stat /\ content' = content
    BY <1>4 DEF CreateJob, NewRow, docVars
  <2> QED
    BY <2>1, <2>2, <2>3 DEF Finished, Kept
<1>5. ASSUME NEW d \in Docs, NEW j \in Jobs, RequestDeletion(d, j) PROVE Finished'
  BY <1>5, <1>0, <1>b, <1>c, <1>k, <1>a, <1>u, <1>s
     DEF RequestDeletion, NewRow, docVars, bodyVars, Finished, Running, ProcessSteps,
         DeleteSteps
<1>6. ASSUME NEW j \in Jobs, EnqueueLost(j) PROVE Finished'
  BY <1>6, <1>0, <1>b, <1>c, <1>k, <1>a, <1>u, <1>s
     DEF EnqueueLost, Faulty, docVars, rowVars, bodyVars, Finished, Running, ProcessSteps,
         DeleteSteps
<1>7. ASSUME NEW j \in Jobs, EnqueueRefused(j) PROVE Finished'
  BY <1>7, <1>0, <1>b, <1>c, <1>k, <1>a, <1>u, <1>s
     DEF EnqueueRefused, Faulty, docVars, bodyVars, Finished, Running, ProcessSteps,
         DeleteSteps
<1>8. ASSUME NEW j \in Jobs, Enqueue(j) PROVE Finished'
  BY <1>8, <1>0, <1>b, <1>c, <1>k, <1>a, <1>u, <1>s
     DEF Enqueue, docVars, rowVars, bodyVars, Finished, Running, ProcessSteps, DeleteSteps
<1>9. ASSUME NEW j \in Jobs, Admit(j) PROVE Finished'
  BY <1>9, <1>0, <1>b, <1>c, <1>k, <1>a, <1>u, <1>s
     DEF Admit, Delivered, Goto, docVars, rowVars, Finished, Running, ProcessSteps,
         DeleteSteps
<1>10. ASSUME NEW j \in Jobs, Wait(j) PROVE Finished'
  BY <1>10, <1>0, <1>b, <1>c, <1>k, <1>a, <1>u, <1>s
     DEF Wait, Delivered, docVars, rowVars, bodyVars, Finished, Running, ProcessSteps,
         DeleteSteps
<1>11. ASSUME NEW j \in Jobs, StartDeletion(j) PROVE Finished'
  BY <1>11, <1>0, <1>b, <1>c, <1>k, <1>a, <1>u, <1>s
     DEF StartDeletion, Delivered, Goto, docVars, rowVars, Finished, Running, ProcessSteps,
         DeleteSteps
<1>12. ASSUME NEW j \in Jobs, Exhaust(j) PROVE Finished'
  BY <1>12, <1>0, <1>b, <1>c, <1>k, <1>a, <1>u, <1>s
     DEF Exhaust, docVars, rowVars, bodyVars, Finished, Running, ProcessSteps, DeleteSteps
<1>13. ASSUME NEW j \in Jobs, NEW b \in BOOLEAN, MarkRunning(j, b) PROVE Finished'
  BY <1>13, <1>0, <1>b, <1>c, <1>k, <1>a, <1>u, <1>s
     DEF MarkRunning, Faulty, Goto, docVars, workFrame, queueVars, Finished, Running,
         ProcessSteps, DeleteSteps
<1>14. ASSUME NEW j \in Jobs, NEW b \in BOOLEAN, Lookup(j, b) PROVE Finished'
  BY <1>14, <1>0, <1>b, <1>c, <1>k, <1>a, <1>u, <1>s
     DEF Lookup, Goto, Outcome, docVars, workFrame, queueVars, Finished, Running,
         ProcessSteps, DeleteSteps
<1>15. ASSUME NEW j \in Jobs, NEW b \in BOOLEAN, Check(j, b) PROVE Finished'
  BY <1>15, <1>0, <1>b, <1>c, <1>k, <1>a, <1>u, <1>s
     DEF Check, Goto, docVars, workFrame, queueVars, Finished, Running, ProcessSteps,
         DeleteSteps
<1>16. ASSUME NEW j \in Jobs, Begin(j) PROVE Finished'
  BY <1>16, <1>0, <1>b, <1>c, <1>k, <1>a, <1>u, <1>s
     DEF Begin, Goto, workFrame, queueVars, Finished, Running, ProcessSteps, DeleteSteps
<1>17. ASSUME NEW j \in Jobs, NEW b \in BOOLEAN, Parse(j, b) PROVE Finished'
  BY <1>17, <1>0, <1>b, <1>c, <1>k, <1>a, <1>u, <1>s
     DEF Parse, Goto, Outcome, docVars, workFrame, queueVars, Finished, Running,
         ProcessSteps, DeleteSteps
<1>18. ASSUME NEW j \in Jobs, NEW b \in BOOLEAN, Persist(j, b) PROVE Finished'
  <2>1. target[j] \in Docs /\ kind[j] = "process" /\ j \in Jobs
    BY <1>18, <1>0, <1>b, <1>s DEF Persist, ProcessSteps
  <2>2. target[j] \notin Replaced(target[j], b) \/ stat'[target[j]] = "gone"
    BY <1>18, <2>1 DEF Persist
  <2>3. stat'[target[j]] \in {"gone", "indexing"} /\ target[j] \in content'
    BY <1>18, <2>1, <2>2 DEF Persist
  <2>4. target[j] \in Kept'
    BY <2>1, <2>3 DEF Kept
  <2> QED
    BY <1>18, <2>1, <2>4, <1>0, <1>b, <1>c, <1>k, <1>u, <1>s
       DEF Persist, Goto, workFrame, queueVars, Finished, Running, ProcessSteps, DeleteSteps
<1>19. ASSUME NEW j \in Jobs, PersistNothing(j) PROVE Finished'
  BY <1>19, <1>0, <1>b, <1>c, <1>k, <1>a, <1>u, <1>s
     DEF PersistNothing, Goto, docVars, workFrame, queueVars, Finished, Running,
         ProcessSteps, DeleteSteps
<1>20. ASSUME NEW j \in Jobs, Invalidate(j) PROVE Finished'
  BY <1>20, <1>0, <1>b, <1>c, <1>k, <1>a, <1>u, <1>s
     DEF Invalidate, Goto, docVars, workFrame, queueVars, Finished, Running, ProcessSteps,
         DeleteSteps
<1>21. ASSUME NEW j \in Jobs, NEW b \in BOOLEAN, Handle(j, b) PROVE Finished'
  BY <1>21, <1>0, <1>b, <1>c, <1>k, <1>a, <1>u, <1>s
     DEF Handle, Faulty, Goto, workFrame, queueVars, Finished, Running, ProcessSteps,
         DeleteSteps
<1>22. ASSUME NEW j \in Jobs, NEW b \in BOOLEAN, Cleanup(j, b) PROVE Finished'
  BY <1>22, <1>0, <1>b, <1>c, <1>k, <1>a, <1>u, <1>s
     DEF Cleanup, Faulty, Goto, docVars, workFrame, queueVars, Finished, Running,
         ProcessSteps, DeleteSteps
<1>23. ASSUME NEW j \in Jobs, DeletionLookup(j) PROVE Finished'
  BY <1>23, <1>0, <1>b, <1>c, <1>k, <1>a, <1>u, <1>s
     DEF DeletionLookup, Goto, docVars, workFrame, queueVars, Finished, Running,
         ProcessSteps, DeleteSteps
<1>24. ASSUME NEW j \in Jobs, Denied(j) PROVE Finished'
  BY <1>24, <1>0, <1>b, <1>c, <1>k, <1>a, <1>u, <1>s
     DEF Denied, Outcome, Goto, docVars, workFrame, queueVars, Finished, Running,
         ProcessSteps, DeleteSteps
<1>25. ASSUME NEW j \in Jobs, Erase(j) PROVE Finished'
  BY <1>25, <1>0, <1>b, <1>c, <1>k, <1>a, <1>u, <1>s
     DEF Erase, Goto, workFrame, queueVars, Finished, Running, ProcessSteps, DeleteSteps
<1>26. ASSUME NEW j \in Jobs, NEW b \in BOOLEAN, RemoveObject(j, b) PROVE Finished'
  BY <1>26, <1>0, <1>b, <1>c, <1>k, <1>a, <1>u, <1>s
     DEF RemoveObject, Faulty, Goto, docVars, workFrame, queueVars, Finished, Running,
         ProcessSteps, DeleteSteps
<1>27. ASSUME NEW j \in Jobs, DeletionInvalidate(j) PROVE Finished'
  BY <1>27, <1>0, <1>b, <1>c, <1>k, <1>a, <1>u, <1>s
     DEF DeletionInvalidate, Outcome, Goto, docVars, workFrame, queueVars, Finished,
         Running, ProcessSteps, DeleteSteps
<1>28. ASSUME NEW j \in Jobs, NEW b \in BOOLEAN, Settle(j, b) PROVE Finished'
  BY <1>28, <1>0, <1>b, <1>c, <1>k, <1>a, <1>u, <1>s
     DEF Settle, Faulty, Goto, docVars, workFrame, queueVars, Finished, Running,
         ProcessSteps, DeleteSteps
<1>29. ASSUME NEW j \in Jobs, NEW b \in BOOLEAN, Leave(j, b) PROVE Finished'
  BY <1>29, <1>0, <1>b, <1>c, <1>k, <1>a, <1>u, <1>s
     DEF Leave, Faulty, Release, Goto, docVars, rowVars, Finished, Running, ProcessSteps,
         DeleteSteps
<1>30. ASSUME NEW j \in Jobs, AdmissionFails(j) PROVE Finished'
  BY <1>30, <1>0, <1>b, <1>c, <1>k, <1>a, <1>u, <1>s
     DEF AdmissionFails, Delivered, Faulty, docVars, rowVars, bodyVars, Finished, Running,
         ProcessSteps, DeleteSteps
<1>31. ASSUME NEW j \in Jobs, BodyFails(j) PROVE Finished'
  BY <1>31, <1>0, <1>b, <1>c, <1>k, <1>a, <1>u, <1>s
     DEF BodyFails, DeleteSteps, Faulty, Outcome, Goto, docVars, workFrame, queueVars,
         Finished, Running, ProcessSteps
<1>32. ASSUME NEW j \in Jobs, Crash(j) PROVE Finished'
  BY <1>32, <1>0, <1>b, <1>c, <1>k, <1>a, <1>u, <1>s
     DEF Crash, Running, Faulty, Release, Goto, docVars, rowVars, Finished, ProcessSteps,
         DeleteSteps
<1>33. ASSUME NEW j \in Jobs, NEW why \in {"timeout", "shutdown"}, Cancel(j, why)
      PROVE Finished'
  BY <1>33, <1>0, <1>b, <1>c, <1>k, <1>a, <1>u, <1>s
     DEF Cancel, ProcessSteps, DeleteSteps, Faulty, Outcome, Goto, docVars, workFrame,
         queueVars, Finished, Running
<1>34. ASSUME NEW orphans \in SUBSET Jobs, NEW stale \in SUBSET Jobs, RecoverJobs(orphans,
             stale)
      PROVE Finished'
  BY <1>34, <1>0, <1>b, <1>c, <1>k, <1>a, <1>u, <1>s
     DEF RecoverJobs, cronFrame, queueVars, bodyVars, Finished, Running, ProcessSteps,
         DeleteSteps
<1>35. ASSUME FailDocuments PROVE Finished'
  BY <1>35, <1>0, <1>b, <1>c, <1>k, <1>a, <1>u, <1>s
     DEF FailDocuments, cronFrame, queueVars, bodyVars, Finished, Running, ProcessSteps,
         DeleteSteps
<1>36. ASSUME CronLost PROVE Finished'
  BY <1>36, <1>0, <1>b, <1>c, <1>k, <1>a, <1>u, <1>s
     DEF CronLost, Faulty, cronFrame, queueVars, bodyVars, Finished, Running, ProcessSteps,
         DeleteSteps
<1>37. ASSUME NEW d \in Docs, RecoverStuck(d) PROVE Finished'
  BY <1>37, <1>0, <1>b, <1>c, <1>k, <1>a, <1>u, <1>s
     DEF RecoverStuck, cronFrame, queueVars, bodyVars, Finished, Running, ProcessSteps,
         DeleteSteps
<1>38. ASSUME NEW j \in Jobs, DeleteOld(j) PROVE Finished'
  BY <1>38, <1>0, <1>b, <1>c, <1>k, <1>a, <1>u, <1>s
     DEF DeleteOld, cronFrame, queueVars, bodyVars, Finished, Running, ProcessSteps,
         DeleteSteps
<1>39. ASSUME NEW p \in Principals, LeaseExpires(p) PROVE Finished'
  BY <1>39, <1>0, <1>b, <1>c, <1>k, <1>a, <1>u, <1>s
     DEF LeaseExpires, docVars, rowVars, bodyVars, Finished, Running, ProcessSteps,
         DeleteSteps
<1>40. ASSUME NEW d \in Docs, Indexed(d) PROVE Finished'
  BY <1>40, <1>0, <1>b, <1>c, <1>k, <1>a, <1>u, <1>s
     DEF Indexed, cronFrame, queueVars, bodyVars, Finished, Running, ProcessSteps,
         DeleteSteps
<1> QED
  BY <1>1, <1>2, <1>3, <1>4, <1>5, <1>6, <1>7, <1>8, <1>9, <1>10, <1>11, <1>12, <1>13,
     <1>14, <1>15, <1>16, <1>17, <1>18, <1>19, <1>20, <1>21, <1>22, <1>23, <1>24, <1>25,
     <1>26, <1>27, <1>28, <1>29, <1>30, <1>31, <1>32, <1>33, <1>34, <1>35, <1>36, <1>37,
     <1>38, <1>39, <1>40
     DEF Next, Request, Progress, Fault, Cron

\* One fault does not undo what was reported.
LEMMA ReportedNext ==
    ASSUME TypeOK, Shape, OneJob, Finished, Reported, Next
    PROVE  Reported'
<1>0. /\ stat \in [Docs -> DocStatus \cup {"absent", "gone"}] /\ pc \in [Jobs -> Steps]
      /\ kind \in [Jobs -> {"none", "process", "delete"}] /\ out \in [Jobs -> Outcomes]
      /\ target \in [Jobs -> Docs \cup {NoDoc}] /\ awaiting \subseteq Docs
      /\ jstat \in [Jobs -> JobStatus \cup {"free", "deleted"}]
      /\ msg \in [Jobs -> {"none", "unsent", "queued", "running"}] /\ faults \in Nat
  BY BoundsAssumption DEF TypeOK
<1>b. \A j \in Jobs : kind[j] # "none" => target[j] \in Docs
  BY DEF Shape
<1>c. \A j \in Jobs : jstat[j] = "free" => kind[j] = "none"
  BY DEF Shape
<1>k. ASSUME NEW d \in Kept,
             \A j \in Jobs : kind[j] = "process" /\ target[j] = d => pc[j] \notin {"begin", "handle"}
      PROVE  d \in Kept'
  BY <1>k, KeptNext
<1>u. \A i, j \in Jobs : kind[i] = "process" /\ kind[j] = "process" /\ target[i] = target[j] => i = j
  BY DEF OneJob
<1>s. \A j \in Jobs : /\ Running(j) <=> msg[j] = "running"
                      /\ pc[j] \in ProcessSteps => kind[j] = "process"
                      /\ pc[j] \in DeleteSteps => kind[j] = "delete"
  BY DEF Shape
<1>1. ASSUME NEW d \in Docs, NEW r \in Docs \cup {NoDoc}, Upload(d, r) PROVE Reported'
  BY <1>1, <1>0, <1>b, <1>c, <1>k, <1>u, <1>s
     DEF Upload, MayReplace, rowVars, queueVars, bodyVars, Reported, Finished, Running,
         JobStatus, ProcessSteps, DeleteSteps
<1>2. ASSUME NEW d \in Docs, UploadLost(d) PROVE Reported'
  BY <1>2, <1>0, <1>b, <1>c, <1>k, <1>u, <1>s
     DEF UploadLost, Faulty, rowVars, queueVars, bodyVars, Reported, Finished, Running,
         JobStatus, ProcessSteps, DeleteSteps
<1>3. ASSUME NEW d \in Docs, CreateJobLost(d) PROVE Reported'
  BY <1>3, <1>0, <1>b, <1>c, <1>k, <1>u, <1>s
     DEF CreateJobLost, Faulty, docVars, rowVars, queueVars, bodyVars, Reported, Finished,
         Running, JobStatus, ProcessSteps, DeleteSteps
<1>4. ASSUME NEW d \in Docs, NEW j \in Jobs, CreateJob(d, j) PROVE Reported'
  BY <1>4, <1>0, <1>b, <1>c, <1>k, <1>u, <1>s
     DEF CreateJob, NewRow, docVars, bodyVars, Reported, Finished, Running, JobStatus,
         ProcessSteps, DeleteSteps
<1>5. ASSUME NEW d \in Docs, NEW j \in Jobs, RequestDeletion(d, j) PROVE Reported'
  BY <1>5, <1>0, <1>b, <1>c, <1>k, <1>u, <1>s
     DEF RequestDeletion, NewRow, docVars, bodyVars, Reported, Finished, Running, JobStatus,
         ProcessSteps, DeleteSteps
<1>6. ASSUME NEW j \in Jobs, EnqueueLost(j) PROVE Reported'
  BY <1>6, <1>0, <1>b, <1>c, <1>k, <1>u, <1>s
     DEF EnqueueLost, Faulty, docVars, rowVars, bodyVars, Reported, Finished, Running,
         JobStatus, ProcessSteps, DeleteSteps
<1>7. ASSUME NEW j \in Jobs, EnqueueRefused(j) PROVE Reported'
  BY <1>7, <1>0, <1>b, <1>c, <1>k, <1>u, <1>s
     DEF EnqueueRefused, Faulty, SetJob, docVars, bodyVars, JobStatus, Reported, Finished,
         Running, ProcessSteps, DeleteSteps
<1>8. ASSUME NEW j \in Jobs, Enqueue(j) PROVE Reported'
  BY <1>8, <1>0, <1>b, <1>c, <1>k, <1>u, <1>s
     DEF Enqueue, docVars, rowVars, bodyVars, Reported, Finished, Running, JobStatus,
         ProcessSteps, DeleteSteps
<1>9. ASSUME NEW j \in Jobs, Admit(j) PROVE Reported'
  BY <1>9, <1>0, <1>b, <1>c, <1>k, <1>u, <1>s
     DEF Admit, Delivered, Goto, docVars, rowVars, Reported, Finished, Running, JobStatus,
         ProcessSteps, DeleteSteps
<1>10. ASSUME NEW j \in Jobs, Wait(j) PROVE Reported'
  BY <1>10, <1>0, <1>b, <1>c, <1>k, <1>u, <1>s
     DEF Wait, Delivered, docVars, rowVars, bodyVars, Reported, Finished, Running,
         JobStatus, ProcessSteps, DeleteSteps
<1>11. ASSUME NEW j \in Jobs, StartDeletion(j) PROVE Reported'
  BY <1>11, <1>0, <1>b, <1>c, <1>k, <1>u, <1>s
     DEF StartDeletion, Delivered, Goto, docVars, rowVars, Reported, Finished, Running,
         JobStatus, ProcessSteps, DeleteSteps
<1>12. ASSUME NEW j \in Jobs, Exhaust(j) PROVE Reported'
  BY <1>12, <1>0, <1>b, <1>c, <1>k, <1>u, <1>s
     DEF Exhaust, docVars, rowVars, bodyVars, Reported, Finished, Running, JobStatus,
         ProcessSteps, DeleteSteps
<1>13. ASSUME NEW j \in Jobs, NEW b \in BOOLEAN, MarkRunning(j, b) PROVE Reported'
  BY <1>13, <1>0, <1>b, <1>c, <1>k, <1>u, <1>s
     DEF MarkRunning, Faulty, SetJob, Goto, docVars, workFrame, JobStatus, queueVars,
         Reported, Finished, Running, ProcessSteps, DeleteSteps
<1>14. ASSUME NEW j \in Jobs, NEW b \in BOOLEAN, Lookup(j, b) PROVE Reported'
  BY <1>14, <1>0, <1>b, <1>c, <1>k, <1>u, <1>s
     DEF Lookup, Goto, Outcome, docVars, workFrame, queueVars, Reported, Finished, Running,
         JobStatus, ProcessSteps, DeleteSteps
<1>15. ASSUME NEW j \in Jobs, NEW b \in BOOLEAN, Check(j, b) PROVE Reported'
  BY <1>15, <1>0, <1>b, <1>c, <1>k, <1>u, <1>s
     DEF Check, Goto, docVars, workFrame, queueVars, Reported, Finished, Running, JobStatus,
         ProcessSteps, DeleteSteps
<1>16. ASSUME NEW j \in Jobs, Begin(j) PROVE Reported'
  BY <1>16, <1>0, <1>b, <1>c, <1>k, <1>u, <1>s
     DEF Begin, Goto, workFrame, queueVars, Reported, Finished, Running, JobStatus,
         ProcessSteps, DeleteSteps
<1>17. ASSUME NEW j \in Jobs, NEW b \in BOOLEAN, Parse(j, b) PROVE Reported'
  BY <1>17, <1>0, <1>b, <1>c, <1>k, <1>u, <1>s
     DEF Parse, Goto, Outcome, docVars, workFrame, queueVars, Reported, Finished, Running,
         JobStatus, ProcessSteps, DeleteSteps
<1>18. ASSUME NEW j \in Jobs, NEW b \in BOOLEAN, Persist(j, b) PROVE Reported'
  BY <1>18, <1>0, <1>b, <1>c, <1>k, <1>u, <1>s
     DEF Persist, Goto, workFrame, queueVars, Reported, Finished, Running, JobStatus,
         ProcessSteps, DeleteSteps
<1>19. ASSUME NEW j \in Jobs, PersistNothing(j) PROVE Reported'
  BY <1>19, <1>0, <1>b, <1>c, <1>k, <1>u, <1>s
     DEF PersistNothing, Goto, docVars, workFrame, queueVars, Reported, Finished, Running,
         JobStatus, ProcessSteps, DeleteSteps
<1>20. ASSUME NEW j \in Jobs, Invalidate(j) PROVE Reported'
  BY <1>20, <1>0, <1>b, <1>c, <1>k, <1>u, <1>s
     DEF Invalidate, Goto, docVars, workFrame, queueVars, Reported, Finished, Running,
         JobStatus, ProcessSteps, DeleteSteps
<1>21. ASSUME NEW j \in Jobs, NEW b \in BOOLEAN, Handle(j, b) PROVE Reported'
  BY <1>21, <1>0, <1>b, <1>c, <1>k, <1>u, <1>s
     DEF Handle, Faulty, Goto, workFrame, queueVars, Reported, Finished, Running, JobStatus,
         ProcessSteps, DeleteSteps
<1>22. ASSUME NEW j \in Jobs, NEW b \in BOOLEAN, Cleanup(j, b) PROVE Reported'
  BY <1>22, <1>0, <1>b, <1>c, <1>k, <1>u, <1>s
     DEF Cleanup, Faulty, Goto, docVars, workFrame, queueVars, Reported, Finished, Running,
         JobStatus, ProcessSteps, DeleteSteps
<1>23. ASSUME NEW j \in Jobs, DeletionLookup(j) PROVE Reported'
  BY <1>23, <1>0, <1>b, <1>c, <1>k, <1>u, <1>s
     DEF DeletionLookup, Goto, docVars, workFrame, queueVars, Reported, Finished, Running,
         JobStatus, ProcessSteps, DeleteSteps
<1>24. ASSUME NEW j \in Jobs, Denied(j) PROVE Reported'
  BY <1>24, <1>0, <1>b, <1>c, <1>k, <1>u, <1>s
     DEF Denied, Outcome, Goto, docVars, workFrame, queueVars, Reported, Finished, Running,
         JobStatus, ProcessSteps, DeleteSteps
<1>25. ASSUME NEW j \in Jobs, Erase(j) PROVE Reported'
  BY <1>25, <1>0, <1>b, <1>c, <1>k, <1>u, <1>s
     DEF Erase, Goto, workFrame, queueVars, Reported, Finished, Running, JobStatus,
         ProcessSteps, DeleteSteps
<1>26. ASSUME NEW j \in Jobs, NEW b \in BOOLEAN, RemoveObject(j, b) PROVE Reported'
  BY <1>26, <1>0, <1>b, <1>c, <1>k, <1>u, <1>s
     DEF RemoveObject, Faulty, Goto, docVars, workFrame, queueVars, Reported, Finished,
         Running, JobStatus, ProcessSteps, DeleteSteps
<1>27. ASSUME NEW j \in Jobs, DeletionInvalidate(j) PROVE Reported'
  BY <1>27, <1>0, <1>b, <1>c, <1>k, <1>u, <1>s
     DEF DeletionInvalidate, Outcome, Goto, docVars, workFrame, queueVars, Reported,
         Finished, Running, JobStatus, ProcessSteps, DeleteSteps
<1>28. ASSUME NEW j \in Jobs, NEW b \in BOOLEAN, Settle(j, b) PROVE Reported'
  BY <1>28, <1>0, <1>b, <1>c, <1>k, <1>u, <1>s
     DEF Settle, Last, Faulty, SetJob, Goto, docVars, workFrame, JobStatus, queueVars,
         Reported, Finished, Running, ProcessSteps, DeleteSteps
<1>29. ASSUME NEW j \in Jobs, NEW b \in BOOLEAN, Leave(j, b) PROVE Reported'
  BY <1>29, <1>0, <1>b, <1>c, <1>k, <1>u, <1>s
     DEF Leave, Last, Faulty, Release, Again, Goto, docVars, rowVars, Reported, Finished,
         Running, JobStatus, ProcessSteps, DeleteSteps
<1>30. ASSUME NEW j \in Jobs, AdmissionFails(j) PROVE Reported'
  BY <1>30, <1>0, <1>b, <1>c, <1>k, <1>u, <1>s
     DEF AdmissionFails, Delivered, Faulty, docVars, rowVars, bodyVars, Reported, Finished,
         Running, JobStatus, ProcessSteps, DeleteSteps
<1>31. ASSUME NEW j \in Jobs, BodyFails(j) PROVE Reported'
  BY <1>31, <1>0, <1>b, <1>c, <1>k, <1>u, <1>s
     DEF BodyFails, DeleteSteps, Faulty, Outcome, Goto, docVars, workFrame, queueVars,
         Reported, Finished, Running, JobStatus, ProcessSteps
<1>32. ASSUME NEW j \in Jobs, Crash(j) PROVE Reported'
  BY <1>32, <1>0, <1>b, <1>c, <1>k, <1>u, <1>s
     DEF Crash, Running, Faulty, Release, Goto, docVars, rowVars, Reported, Finished,
         JobStatus, ProcessSteps, DeleteSteps
<1>33. ASSUME NEW j \in Jobs, NEW why \in {"timeout", "shutdown"}, Cancel(j, why)
      PROVE Reported'
  BY <1>33, <1>0, <1>b, <1>c, <1>k, <1>u, <1>s
     DEF Cancel, ProcessSteps, DeleteSteps, Faulty, Outcome, Goto, docVars, workFrame,
         queueVars, Reported, Finished, Running, JobStatus
<1>34. ASSUME NEW orphans \in SUBSET Jobs, NEW stale \in SUBSET Jobs, RecoverJobs(orphans,
             stale)
      PROVE Reported'
  BY <1>34, <1>0, <1>b, <1>c, <1>k, <1>u, <1>s
     DEF RecoverJobs, cronFrame, queueVars, bodyVars, Reported, Finished, Running,
         JobStatus, ProcessSteps, DeleteSteps
<1>35. ASSUME FailDocuments PROVE Reported'
  BY <1>35, <1>0, <1>b, <1>c, <1>k, <1>u, <1>s
     DEF FailDocuments, cronFrame, queueVars, bodyVars, Reported, Finished, Running,
         JobStatus, ProcessSteps, DeleteSteps
<1>36. ASSUME CronLost PROVE Reported'
  BY <1>36, <1>0, <1>b, <1>c, <1>k, <1>u, <1>s
     DEF CronLost, Faulty, cronFrame, queueVars, bodyVars, Reported, Finished, Running,
         JobStatus, ProcessSteps, DeleteSteps
<1>37. ASSUME NEW d \in Docs, RecoverStuck(d) PROVE Reported'
  BY <1>37, <1>0, <1>b, <1>c, <1>k, <1>u, <1>s
     DEF RecoverStuck, cronFrame, queueVars, bodyVars, Reported, Finished, Running,
         JobStatus, ProcessSteps, DeleteSteps
<1>38. ASSUME NEW j \in Jobs, DeleteOld(j) PROVE Reported'
  BY <1>38, <1>0, <1>b, <1>c, <1>k, <1>u, <1>s
     DEF DeleteOld, cronFrame, queueVars, bodyVars, Reported, Finished, Running, JobStatus,
         ProcessSteps, DeleteSteps
<1>39. ASSUME NEW p \in Principals, LeaseExpires(p) PROVE Reported'
  BY <1>39, <1>0, <1>b, <1>c, <1>k, <1>u, <1>s
     DEF LeaseExpires, docVars, rowVars, bodyVars, Reported, Finished, Running, JobStatus,
         ProcessSteps, DeleteSteps
<1>40. ASSUME NEW d \in Docs, Indexed(d) PROVE Reported'
  BY <1>40, <1>0, <1>b, <1>c, <1>k, <1>u, <1>s
     DEF Indexed, cronFrame, queueVars, bodyVars, Reported, Finished, Running, JobStatus,
         ProcessSteps, DeleteSteps
<1> QED
  BY <1>1, <1>2, <1>3, <1>4, <1>5, <1>6, <1>7, <1>8, <1>9, <1>10, <1>11, <1>12, <1>13,
     <1>14, <1>15, <1>16, <1>17, <1>18, <1>19, <1>20, <1>21, <1>22, <1>23, <1>24, <1>25,
     <1>26, <1>27, <1>28, <1>29, <1>30, <1>31, <1>32, <1>33, <1>34, <1>35, <1>36, <1>37,
     <1>38, <1>39, <1>40
     DEF Next, Request, Progress, Fault, Cron

\* When the readers see the master, a processing job reported as done leaves its
\* document with its chunks, or gone, as long as there is at most one fault: whatever
\* cron jobs, deletions, replacements and the next deliveries do in between.
THEOREM ProcessingsAreHonest ==
    ASSUME ~HasReplica
    PROVE  Spec => []DoneProcessing
<1> DEFINE PInv == OneJob /\ Finished /\ Reported
<1>1. Init => PInv
  BY DEF Init, OneJob, Finished, Reported
<1>2. IInv /\ PInv /\ [Next]_vars => PInv'
  <2> SUFFICES ASSUME IInv, PInv, [Next]_vars PROVE PInv'
    OBVIOUS
  <2>1. CASE Next
    <3>1. TypeOK /\ Shape
      BY DEF IInv
    <3> QED
      BY <2>1, <3>1, OneJobNext, FinishedNext, ReportedNext
  <2>2. CASE UNCHANGED vars
    BY <2>2 DEF vars, OneJob, Finished, Reported, Kept
  <2> QED
    BY <2>1, <2>2
<1>3. IInv /\ PInv => DoneProcessing
  <2> SUFFICES ASSUME IInv, PInv, faults <= 1, NEW j \in Jobs, kind[j] = "process", jstat[j] = "done"
               PROVE  \/ stat[target[j]] = "gone"
                      \/ stat[target[j]] \in {"indexing", "done"} /\ target[j] \in content
    BY DEF DoneProcessing
  <2>1. faults \in Nat
    BY BoundsAssumption DEF IInv, TypeOK
  <2>2. target[j] \in Kept
    BY <2>1 DEF Reported
  <2> QED
    BY <2>2 DEF Kept
<1>4. Spec => []PInv
  BY <1>1, <1>2, Invariant, PTL DEF Spec
<1> QED
  BY <1>3, <1>4, Invariant, PTL

=============================================================================
