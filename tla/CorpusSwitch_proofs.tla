------------------------- MODULE CorpusSwitch_proofs -------------------------
(***************************************************************************)
(* Proofs about CorpusSwitch.                                                *)
(***************************************************************************)
EXTENDS CorpusSwitch, TLAPS

\* Some content is the one of a new deployment.
LEMMA BlankIsContent == Blank \in Contents
<1> QED
  BY ContentsAssumption DEF Blank

\* What a step of the tick of p does to its place.
TickChange(p) ==
    \/ Rest(p)
    \/ /\ tick' = [tick EXCEPT ![p] = "finish"] \/ tick' = [tick EXCEPT ![p] = "orphan"]
       /\ UNCHANGED seen

\* Such a step keeps the types.
LEMMA TickTypes ==
    ASSUME TypeOK, NEW p \in Procs, TickChange(p)
    PROVE  /\ tick' \in [Procs -> {"idle", "apply", "finish", "orphan"}]
           /\ seen' \in [Procs -> [phase : Phases, active : Generations,
                                 candidate : Switches \cup {Nobody},
                                 owner : Procs \cup {Nobody}, digest : Contents]]
<1>1. NoJournal \in [phase : Phases, active : Generations, candidate : Switches \cup {Nobody},
                     owner : Procs \cup {Nobody}, digest : Contents]
  BY BlankIsContent DEF NoJournal, Phases, Generations
<1>2. /\ tick \in [Procs -> {"idle", "apply", "finish", "orphan"}]
      /\ seen \in [Procs -> [phase : Phases, active : Generations,
                            candidate : Switches \cup {Nobody},
                            owner : Procs \cup {Nobody}, digest : Contents]]
  BY DEF TypeOK
<1>3. CASE Rest(p)
  BY <1>1, <1>2, <1>3 DEF Rest
<1>4. CASE UNCHANGED seen
  BY <1>2, <1>4 DEF TickChange, Rest
<1> QED
  BY <1>3, <1>4 DEF TickChange

\* Every step keeps the types.
LEMMA TypeNext ==
    ASSUME TypeOK, Next
    PROVE  TypeOK'
<1> USE RoleAssumption, CollectionAssumption, BoundsAssumption, NamesAssumption, BlankIsContent
<1>1. ASSUME NEW p \in Procs, ReadJournal(p) PROVE TypeOK'
  BY <1>1
     DEF ReadJournal, journal, tickFrame, rowVars, writeVars, switchVars, TypeOK, Phases,
         Generations, Early, Locked
<1>2. ASSUME NEW p \in Procs, NEW b \in BOOLEAN, Apply(p, b) PROVE TypeOK'
  <2> DEFINE j == seen[p]
             kept == installed[p] = j.active /\ prepared[p] = j.candidate
             bad == Preparing(p) /\ ~kept /\ corpus # j.digest
             ready == IF Preparing(p) /\ ~bad THEN j.candidate ELSE Nobody
             shown == IF j.phase = "committing" THEN j.candidate ELSE ready
  <2>1. /\ j.active \in Generations /\ j.candidate \in Switches \cup {Nobody}
        /\ bad \in BOOLEAN
    BY DEF TypeOK
  <2>2. ready \in Switches \cup {Nobody} /\ shown \in Switches \cup {Nobody}
    BY <2>1
  <2>3. /\ installed' \in [Procs -> Generations] /\ prepared' \in [Procs -> Switches \cup {Nobody}]
        /\ faults' \in 0..MaxFaults
    BY <1>2, <2>1, <2>2 DEF Apply, Faulty, TypeOK
  <2>4. error' \in [Procs -> BOOLEAN]
    BY <1>2, <2>1 DEF Apply, TypeOK
  <2>5. Row(j.active, shown, bad) \in [applied : Generations \cup {Nobody},
                                      prepared : Generations \cup {Nobody},
                                      error : BOOLEAN, alive : BOOLEAN]
    BY <2>1, <2>2 DEF Row, Generations
  <2>6. row' = row \/ row' = [row EXCEPT ![p] = Row(j.active, shown, bad)]
    BY <1>2 DEF Apply, Recover
  <2> HIDE DEF j, kept, bad, ready, shown
  <2>7. row' \in [Procs -> [applied : Generations \cup {Nobody},
                           prepared : Generations \cup {Nobody},
                           error : BOOLEAN, alive : BOOLEAN]]
    <3> DEFINE r == Row(j.active, shown, bad)
               R == [applied : Generations \cup {Nobody},
                     prepared : Generations \cup {Nobody}, error : BOOLEAN, alive : BOOLEAN]
    <3>1. r \in R /\ row \in [Procs -> R] /\ (row' = row \/ row' = [row EXCEPT ![p] = r])
      BY <2>5, <2>6 DEF TypeOK
    <3> HIDE DEF r, R
    <3>2. row' \in [Procs -> R]
      BY <3>1
    <3> QED
      BY <3>2 DEF R
  <2>8. TickChange(p)
    BY <1>2 DEF Apply, Recover, TickChange
  <2> QED
    BY <1>2, <2>3, <2>4, <2>7, <2>8, TickTypes
       DEF Apply, TypeOK, journal, tickFrame, rowVars, writeVars, switchVars
<1>3. ASSUME NEW p \in Procs, FinishCommit(p) PROVE TypeOK'
  BY <1>3
     DEF FinishCommit, Rest, tickFrame, NoJournal, rowVars, writeVars, switchVars, Blank,
         TypeOK, Phases, Generations, Early, Locked
<1>4. ASSUME NEW p \in Procs, FailOrphan(p) PROVE TypeOK'
  BY <1>4
     DEF FailOrphan, FailPrepare, Rest, tickFrame, NoJournal, rowVars, writeVars,
         switchVars, Blank, TypeOK, Phases, Generations, Early, Locked
<1>5. ASSUME NEW p \in Procs, TakeClient(p) PROVE TypeOK'
  BY <1>5
     DEF TakeClient, Unfinished, WriteStep, writeFrame, journal, procVars, tickVars,
         switchVars, TypeOK, Phases, Generations, Early, Locked
<1>6. ASSUME NEW p \in Procs, LockShared(p) PROVE TypeOK'
  BY <1>6
     DEF LockShared, WriteStep, writeFrame, journal, procVars, tickVars, switchVars, TypeOK,
         Phases, Generations, Early, Locked
<1>7. ASSUME NEW p \in Procs, Admit(p) PROVE TypeOK'
  BY <1>7
     DEF Admit, Open, WriteStep, writeFrame, journal, procVars, tickVars, switchVars,
         TypeOK, Phases, Generations, Early, Locked
<1>8. ASSUME NEW p \in Procs, Reject(p) PROVE TypeOK'
  BY <1>8
     DEF Reject, Open, WriteEnds, writeFrame, journal, procVars, tickVars, switchVars,
         TypeOK, Phases, Generations, Early, Locked
<1>9. ASSUME NEW p \in Procs, Write(p) PROVE TypeOK'
  BY <1>9
     DEF Write, CollectionOf, WriteStep, writeFrame, journal, procVars, tickVars,
         switchVars, TypeOK, Phases, Generations, Early, Locked
<1>10. ASSUME NEW p \in Procs, Unlock(p) PROVE TypeOK'
  BY <1>10
     DEF Unlock, WriteStep, writeFrame, journal, procVars, tickVars, switchVars, TypeOK,
         Phases, Generations, Early, Locked
<1>11. ASSUME NEW p \in Procs, MarkDone(p) PROVE TypeOK'
  BY <1>11
     DEF MarkDone, WriteEnds, writeFrame, journal, procVars, tickVars, switchVars, TypeOK,
         Phases, Generations, Early, Locked
<1>12. ASSUME NEW p \in Procs, Start(p) PROVE TypeOK'
  BY <1>12
     DEF Start, journal, rowVars, tickVars, writeVars, switchVars, TypeOK, Phases,
         Generations, Early, Locked
<1>13. ASSUME NEW p \in Procs, Expire(p) PROVE TypeOK'
  BY <1>13
     DEF Expire, Faulty, NoRow, journal, rowVars, procVars, tickVars, writeVars, switchVars,
         TypeOK, Phases, Generations, Early, Locked
<1>14. ASSUME NEW p \in Procs, NEW b \in BOOLEAN, End(p, b) PROVE TypeOK'
  BY <1>14
     DEF End, Faulty, NoRow, Rest, WriteEnds, Blank, journal, rowVars, NoJournal, TypeOK,
         Phases, Generations, Early, Locked
<1>15. ASSUME NEW p \in Procs, TickFails(p) PROVE TypeOK'
  <2>1. error' \in [Procs -> BOOLEAN]
    BY <1>15 DEF TickFails, TypeOK
  <2>2. TickChange(p)
    BY <1>15 DEF TickFails, TickChange
  <2> QED
    BY <1>15, <2>1, <2>2, TickTypes
       DEF TickFails, Faulty, TypeOK, journal, tickFrame, rowVars, writeVars, switchVars
<1>16. ASSUME NEW p \in Procs, WriteFails(p) PROVE TypeOK'
  BY <1>16
     DEF WriteFails, Faulty, WriteEnds, writeFrame, journal, procVars, tickVars, switchVars,
         TypeOK, Phases, Generations, Early, Locked
<1>17. ASSUME NEW p \in Procs, NEW g \in Generations, ApplyFails(p, g) PROVE TypeOK'
  <2>1. Row(g, Nobody, TRUE) \in [applied : Generations \cup {Nobody},
                                 prepared : Generations \cup {Nobody},
                                 error : BOOLEAN, alive : BOOLEAN]
    BY DEF Row, Generations
  <2>2. row' = [row EXCEPT ![p] = Row(g, Nobody, TRUE)]
    BY <1>17 DEF ApplyFails, Recover
  <2>3. row' \in [Procs -> [applied : Generations \cup {Nobody},
                           prepared : Generations \cup {Nobody},
                           error : BOOLEAN, alive : BOOLEAN]]
    BY <2>1, <2>2 DEF TypeOK
  <2>4. /\ installed' \in [Procs -> Generations] /\ error' \in [Procs -> BOOLEAN]
        /\ faults' \in 0..MaxFaults
    BY <1>17 DEF ApplyFails, Faulty, TypeOK
  <2>5. prepared' \in [Procs -> Switches \cup {Nobody}]
    <3>1. prepared' = prepared \/ prepared' = [prepared EXCEPT ![p] = Nobody]
      BY <1>17 DEF ApplyFails
    <3> QED
      BY <3>1 DEF TypeOK
  <2>6. TickChange(p)
    BY <1>17 DEF ApplyFails, Recover, TickChange
  <2> QED
    BY <1>17, <2>3, <2>4, <2>5, <2>6, TickTypes
       DEF ApplyFails, TypeOK, journal, tickFrame, rowVars, writeVars, switchVars
<1>18. ASSUME NEW s \in Switches, Survey(s) PROVE TypeOK'
  BY <1>18
     DEF Survey, Live, Check, Fine, journal, switchFrame, Goto, BothRoles, rowVars,
         procVars, tickVars, writeVars, TypeOK, Phases, Generations, Early, Locked
<1>19. ASSUME NEW s \in Switches, Inputs(s) PROVE TypeOK'
  BY <1>19
     DEF Inputs, Check, Unfinished, journal, switchFrame, Goto, rowVars, procVars, tickVars,
         writeVars, TypeOK, Phases, Generations, Early, Locked
<1>20. ASSUME NEW s \in Switches, Validate(s) PROVE TypeOK'
  BY <1>20
     DEF Validate, Check, journal, stepFrame, Goto, switchFrame, rowVars, procVars,
         tickVars, writeVars, TypeOK, Phases, Generations, Early, Locked
<1>21. ASSUME NEW s \in Switches, Lock(s) PROVE TypeOK'
  BY <1>21
     DEF Lock, Sharing, Goto, journal, stepFrame, switchFrame, rowVars, procVars, tickVars,
         writeVars, TypeOK, Phases, Generations, Early, Locked
<1>22. ASSUME NEW s \in Switches, Recheck(s) PROVE TypeOK'
  BY <1>22
     DEF Recheck, Check, Open, journal, stepFrame, Goto, switchFrame, rowVars, procVars,
         tickVars, writeVars, TypeOK, Phases, Generations, Early, Locked
<1>23. ASSUME NEW s \in Switches, BeginPrepare(s) PROVE TypeOK'
  BY <1>23
     DEF BeginPrepare, Goto, stepFrame, switchFrame, rowVars, procVars, tickVars, writeVars,
         TypeOK, Phases, Generations, Early, Locked
<1>24. ASSUME NEW s \in Switches, Prepared(s) PROVE TypeOK'
  BY <1>24
     DEF Prepared, Goto, journal, stepFrame, switchFrame, rowVars, procVars, tickVars,
         writeVars, TypeOK, Phases, Generations, Early, Locked
<1>25. ASSUME NEW s \in Switches, NEW b \in BOOLEAN, Commit(s, b) PROVE TypeOK'
  BY <1>25
     DEF Commit, Unfinished, Faulty, Goto, stepFrame, switchFrame, rowVars, procVars,
         tickVars, writeVars, TypeOK, Phases, Generations, Early, Locked
<1>26. ASSUME NEW s \in Switches, Cancel(s) PROVE TypeOK'
  BY <1>26
     DEF Cancel, Abortable, Goto, journal, stepFrame, Early, Locked, switchFrame, rowVars,
         procVars, tickVars, writeVars, TypeOK, Phases, Generations
<1>27. ASSUME NEW s \in Switches, NEW b \in BOOLEAN, Abort(s, b) PROVE TypeOK'
  BY <1>27
     DEF Abort, Faulty, FailPrepare, journal, Goto, Forget, switchFrame, Blank, rowVars,
         procVars, tickVars, writeVars, TypeOK, Phases, Generations, Early, Locked
<1>28. ASSUME NEW s \in Switches, Leave(s) PROVE TypeOK'
  BY <1>28
     DEF Leave, Goto, Forget, journal, switchFrame, Blank, rowVars, procVars, tickVars,
         writeVars, TypeOK, Phases, Generations, Early, Locked
<1>29. ASSUME NEW s \in Switches, NEW p \in Procs, NEW k \in Collections, NEW b \in BOOLEAN,
             Request(s, p, k, b)
      PROVE TypeOK'
  BY <1>29
     DEF Request, Check, Open, journal, switchFrame, Goto, rowVars, procVars, tickVars,
         writeVars, TypeOK, Phases, Generations, Early, Locked
<1>30. ASSUME NEW x \in Contents, Edit(x) PROVE TypeOK'
  BY <1>30
     DEF Edit, journal, procVars, tickVars, writeVars, switchVars, TypeOK, Phases,
         Generations, Early, Locked
<1>31. ASSUME NEW p \in Procs, Tick(p) \/ Writer(p) \/ Environment(p) PROVE TypeOK'
  BY <1>1, <1>2, <1>3, <1>4, <1>5, <1>6, <1>7, <1>8, <1>9, <1>10, <1>11, <1>12, <1>13,
     <1>14, <1>15, <1>16, <1>17, <1>31 DEF Tick, Writer, Environment
<1>32. ASSUME NEW s \in Switches, Switch(s) \/ Commit(s, FALSE) \/ Abort(s, FALSE) PROVE TypeOK'
  BY <1>18, <1>19, <1>20, <1>21, <1>22, <1>23, <1>24, <1>25, <1>26, <1>27, <1>28, <1>32
     DEF Switch
<1> HIDE RoleAssumption, CollectionAssumption, BoundsAssumption, NamesAssumption, BlankIsContent
<1> QED
  BY <1>29, <1>30, <1>31, <1>32 DEF Next

\* The lock excludes writers and other switches.
LEMMA LockNext ==
    ASSUME TypeOK, LockFacts, Next
    PROVE  LockFacts'
<1>0. /\ step \in [Switches -> {"new", "abort", "lost", "end"} \cup Early \cup Locked]
      /\ write \in [Procs -> {"idle", "client", "locked", "writing", "written", "applied"}]
      /\ expected \in [Switches -> Generations] /\ by \in [Switches -> Procs \cup {Nobody}]
      /\ phase \in Phases /\ xlock \in Switches \cup {Nobody}
  BY DEF TypeOK
<1>a. Nobody \notin Switches
  BY NamesAssumption
<1>1. ASSUME NEW p \in Procs, ReadJournal(p) PROVE LockFacts'
  BY <1>1, <1>0, <1>a
     DEF ReadJournal, journal, tickFrame, rowVars, writeVars, switchVars, LockFacts,
         Sharing, Early, Locked, Phases, Open
<1>2. ASSUME NEW p \in Procs, NEW b \in BOOLEAN, Apply(p, b) PROVE LockFacts'
  BY <1>2, <1>0, <1>a
     DEF Apply, Preparing, Faulty, Recover, Row, Rest, journal, tickFrame, Fine, NoJournal,
         rowVars, writeVars, switchVars, BothRoles, Blank, LockFacts, Sharing, Early,
         Locked, Phases, Open
<1>3. ASSUME NEW p \in Procs, FinishCommit(p) PROVE LockFacts'
  BY <1>3, <1>0, <1>a
     DEF FinishCommit, Rest, tickFrame, NoJournal, rowVars, writeVars, switchVars, Blank,
         LockFacts, Sharing, Early, Locked, Phases, Open
<1>4. ASSUME NEW p \in Procs, FailOrphan(p) PROVE LockFacts'
  BY <1>4, <1>0, <1>a
     DEF FailOrphan, FailPrepare, Rest, tickFrame, NoJournal, rowVars, writeVars,
         switchVars, Blank, LockFacts, Sharing, Early, Locked, Phases, Open
<1>5. ASSUME NEW p \in Procs, TakeClient(p) PROVE LockFacts'
  BY <1>5, <1>0, <1>a
     DEF TakeClient, Unfinished, WriteStep, writeFrame, journal, procVars, tickVars,
         switchVars, LockFacts, Sharing, Early, Locked, Phases, Open
<1>6. ASSUME NEW p \in Procs, LockShared(p) PROVE LockFacts'
  BY <1>6, <1>0, <1>a
     DEF LockShared, WriteStep, writeFrame, journal, procVars, tickVars, switchVars,
         LockFacts, Sharing, Early, Locked, Phases, Open
<1>7. ASSUME NEW p \in Procs, Admit(p) PROVE LockFacts'
  BY <1>7, <1>0, <1>a
     DEF Admit, Open, WriteStep, writeFrame, journal, procVars, tickVars, switchVars,
         LockFacts, Sharing, Early, Locked, Phases
<1>8. ASSUME NEW p \in Procs, Reject(p) PROVE LockFacts'
  BY <1>8, <1>0, <1>a
     DEF Reject, Open, WriteEnds, writeFrame, journal, procVars, tickVars, switchVars,
         LockFacts, Sharing, Early, Locked, Phases
<1>9. ASSUME NEW p \in Procs, Write(p) PROVE LockFacts'
  BY <1>9, <1>0, <1>a
     DEF Write, CollectionOf, WriteStep, writeFrame, journal, procVars, tickVars,
         switchVars, LockFacts, Sharing, Early, Locked, Phases, Open
<1>10. ASSUME NEW p \in Procs, Unlock(p) PROVE LockFacts'
  BY <1>10, <1>0, <1>a
     DEF Unlock, WriteStep, writeFrame, journal, procVars, tickVars, switchVars, LockFacts,
         Sharing, Early, Locked, Phases, Open
<1>11. ASSUME NEW p \in Procs, MarkDone(p) PROVE LockFacts'
  BY <1>11, <1>0, <1>a
     DEF MarkDone, WriteEnds, writeFrame, journal, procVars, tickVars, switchVars,
         LockFacts, Sharing, Early, Locked, Phases, Open
<1>12. ASSUME NEW p \in Procs, Start(p) PROVE LockFacts'
  BY <1>12, <1>0, <1>a
     DEF Start, journal, rowVars, tickVars, writeVars, switchVars, LockFacts, Sharing,
         Early, Locked, Phases, Open
<1>13. ASSUME NEW p \in Procs, Expire(p) PROVE LockFacts'
  BY <1>13, <1>0, <1>a
     DEF Expire, Faulty, NoRow, journal, rowVars, procVars, tickVars, writeVars, switchVars,
         LockFacts, Sharing, Early, Locked, Phases, Open
<1>14. ASSUME NEW p \in Procs, NEW b \in BOOLEAN, End(p, b) PROVE LockFacts'
  BY <1>14, <1>0, <1>a
     DEF End, Faulty, NoRow, Rest, WriteEnds, Blank, journal, rowVars, NoJournal, LockFacts,
         Sharing, Early, Locked, Phases, Open
<1>15. ASSUME NEW p \in Procs, TickFails(p) PROVE LockFacts'
  BY <1>15, <1>0, <1>a
     DEF TickFails, Faulty, Rest, journal, tickFrame, NoJournal, rowVars, writeVars,
         switchVars, Blank, LockFacts, Sharing, Early, Locked, Phases, Open
<1>16. ASSUME NEW p \in Procs, WriteFails(p) PROVE LockFacts'
  BY <1>16, <1>0, <1>a
     DEF WriteFails, Faulty, WriteEnds, writeFrame, journal, procVars, tickVars, switchVars,
         LockFacts, Sharing, Early, Locked, Phases, Open
<1>17. ASSUME NEW p \in Procs, NEW g \in Generations, ApplyFails(p, g) PROVE LockFacts'
  BY <1>17, <1>0, <1>a
     DEF ApplyFails, Row, Behind, Preparing, Faulty, Rest, Recover, journal, tickFrame,
         NoJournal, Fine, rowVars, writeVars, switchVars, Blank, BothRoles, LockFacts,
         Sharing, Early, Locked, Phases, Open
<1>18. ASSUME NEW s \in Switches, Survey(s) PROVE LockFacts'
  BY <1>18, <1>0, <1>a
     DEF Survey, Live, Check, Fine, journal, switchFrame, Goto, BothRoles, rowVars,
         procVars, tickVars, writeVars, LockFacts, Sharing, Early, Locked, Phases, Open
<1>19. ASSUME NEW s \in Switches, Inputs(s) PROVE LockFacts'
  BY <1>19, <1>0, <1>a
     DEF Inputs, Check, Unfinished, journal, switchFrame, Goto, rowVars, procVars, tickVars,
         writeVars, LockFacts, Sharing, Early, Locked, Phases, Open
<1>20. ASSUME NEW s \in Switches, Validate(s) PROVE LockFacts'
  BY <1>20, <1>0, <1>a
     DEF Validate, Check, journal, stepFrame, Goto, switchFrame, rowVars, procVars,
         tickVars, writeVars, LockFacts, Sharing, Early, Locked, Phases, Open
<1>21. ASSUME NEW s \in Switches, Lock(s) PROVE LockFacts'
  BY <1>21, <1>0, <1>a
     DEF Lock, Sharing, Goto, journal, stepFrame, switchFrame, rowVars, procVars, tickVars,
         writeVars, LockFacts, Early, Locked, Phases, Open
<1>22. ASSUME NEW s \in Switches, Recheck(s) PROVE LockFacts'
  BY <1>22, <1>0, <1>a
     DEF Recheck, Check, Open, journal, stepFrame, Goto, switchFrame, rowVars, procVars,
         tickVars, writeVars, LockFacts, Sharing, Early, Locked, Phases
<1>23. ASSUME NEW s \in Switches, BeginPrepare(s) PROVE LockFacts'
  BY <1>23, <1>0, <1>a
     DEF BeginPrepare, Goto, stepFrame, switchFrame, rowVars, procVars, tickVars, writeVars,
         LockFacts, Sharing, Early, Locked, Phases, Open
<1>24. ASSUME NEW s \in Switches, Prepared(s) PROVE LockFacts'
  BY <1>24, <1>0, <1>a
     DEF Prepared, Goto, journal, stepFrame, switchFrame, rowVars, procVars, tickVars,
         writeVars, LockFacts, Sharing, Early, Locked, Phases, Open
<1>25. ASSUME NEW s \in Switches, NEW b \in BOOLEAN, Commit(s, b) PROVE LockFacts'
  BY <1>25, <1>0, <1>a
     DEF Commit, Unfinished, Faulty, Goto, stepFrame, switchFrame, rowVars, procVars,
         tickVars, writeVars, LockFacts, Sharing, Early, Locked, Phases, Open
<1>26. ASSUME NEW s \in Switches, Cancel(s) PROVE LockFacts'
  BY <1>26, <1>0, <1>a
     DEF Cancel, Abortable, Goto, journal, stepFrame, Early, Locked, switchFrame, rowVars,
         procVars, tickVars, writeVars, LockFacts, Sharing, Phases, Open
<1>27. ASSUME NEW s \in Switches, NEW b \in BOOLEAN, Abort(s, b) PROVE LockFacts'
  BY <1>27, <1>0, <1>a
     DEF Abort, Faulty, FailPrepare, journal, Goto, Forget, switchFrame, Blank, rowVars,
         procVars, tickVars, writeVars, LockFacts, Sharing, Early, Locked, Phases, Open
<1>28. ASSUME NEW s \in Switches, Leave(s) PROVE LockFacts'
  BY <1>28, <1>0, <1>a
     DEF Leave, Goto, Forget, journal, switchFrame, Blank, rowVars, procVars, tickVars,
         writeVars, LockFacts, Sharing, Early, Locked, Phases, Open
<1>29. ASSUME NEW s \in Switches, NEW p \in Procs, NEW k \in Collections, NEW b \in BOOLEAN,
             Request(s, p, k, b)
      PROVE LockFacts'
  BY <1>29, <1>0, <1>a
     DEF Request, Check, Open, journal, switchFrame, Goto, rowVars, procVars, tickVars,
         writeVars, LockFacts, Sharing, Early, Locked, Phases
<1>30. ASSUME NEW x \in Contents, Edit(x) PROVE LockFacts'
  BY <1>30, <1>0, <1>a
     DEF Edit, journal, procVars, tickVars, writeVars, switchVars, LockFacts, Sharing,
         Early, Locked, Phases, Open
<1>31. ASSUME NEW p \in Procs, Tick(p) \/ Writer(p) \/ Environment(p) PROVE LockFacts'
  BY <1>1, <1>2, <1>3, <1>4, <1>5, <1>6, <1>7, <1>8, <1>9, <1>10, <1>11, <1>12, <1>13,
     <1>14, <1>15, <1>16, <1>17, <1>31 DEF Tick, Writer, Environment
<1>32. ASSUME NEW s \in Switches, Switch(s) \/ Commit(s, FALSE) \/ Abort(s, FALSE) PROVE LockFacts'
  BY <1>18, <1>19, <1>20, <1>21, <1>22, <1>23, <1>24, <1>25, <1>26, <1>27, <1>28, <1>32
     DEF Switch
<1> QED
  BY <1>29, <1>30, <1>31, <1>32 DEF Next

\* No step leaves a write in flight behind the closed gate.
LEMMA FencedNext ==
    ASSUME TypeOK, LockFacts, WritesFenced, Next
    PROVE  WritesFenced'
<1>0. /\ step \in [Switches -> {"new", "abort", "lost", "end"} \cup Early \cup Locked]
      /\ write \in [Procs -> {"idle", "client", "locked", "writing", "written", "applied"}]
      /\ target \in [Procs -> Generations] /\ phase \in Phases
  BY DEF TypeOK
<1>a. Nobody \notin Switches
  BY NamesAssumption
<1>b. \A s \in Switches : step[s] \in Locked => Sharing = {}
  BY <1>a DEF LockFacts
<1>1. ASSUME NEW p \in Procs, ReadJournal(p) PROVE WritesFenced'
  BY <1>1, <1>0, <1>b
     DEF ReadJournal, journal, tickFrame, rowVars, writeVars, switchVars, WritesFenced,
         Sharing, Early, Locked, Phases, Open
<1>2. ASSUME NEW p \in Procs, NEW b \in BOOLEAN, Apply(p, b) PROVE WritesFenced'
  BY <1>2, <1>0, <1>b
     DEF Apply, Preparing, Faulty, Recover, Row, Rest, journal, tickFrame, Fine, NoJournal,
         rowVars, writeVars, switchVars, BothRoles, Blank, WritesFenced, Sharing, Early,
         Locked, Phases, Open
<1>3. ASSUME NEW p \in Procs, FinishCommit(p) PROVE WritesFenced'
  BY <1>3, <1>0, <1>b
     DEF FinishCommit, Rest, tickFrame, NoJournal, rowVars, writeVars, switchVars, Blank,
         WritesFenced, Sharing, Early, Locked, Phases, Open
<1>4. ASSUME NEW p \in Procs, FailOrphan(p) PROVE WritesFenced'
  BY <1>4, <1>0, <1>b
     DEF FailOrphan, FailPrepare, Rest, tickFrame, NoJournal, rowVars, writeVars,
         switchVars, Blank, WritesFenced, Sharing, Early, Locked, Phases, Open
<1>5. ASSUME NEW p \in Procs, TakeClient(p) PROVE WritesFenced'
  BY <1>5, <1>0, <1>b
     DEF TakeClient, Unfinished, WriteStep, writeFrame, journal, procVars, tickVars,
         switchVars, WritesFenced, Sharing, Early, Locked, Phases, Open
<1>6. ASSUME NEW p \in Procs, LockShared(p) PROVE WritesFenced'
  BY <1>6, <1>0, <1>b
     DEF LockShared, WriteStep, writeFrame, journal, procVars, tickVars, switchVars,
         WritesFenced, Sharing, Early, Locked, Phases, Open
<1>7. ASSUME NEW p \in Procs, Admit(p) PROVE WritesFenced'
  BY <1>7, <1>0, <1>b
     DEF Admit, Open, WriteStep, writeFrame, journal, procVars, tickVars, switchVars,
         WritesFenced, Sharing, Early, Locked, Phases
<1>8. ASSUME NEW p \in Procs, Reject(p) PROVE WritesFenced'
  BY <1>8, <1>0, <1>b
     DEF Reject, Open, WriteEnds, writeFrame, journal, procVars, tickVars, switchVars,
         WritesFenced, Sharing, Early, Locked, Phases
<1>9. ASSUME NEW p \in Procs, Write(p) PROVE WritesFenced'
  BY <1>9, <1>0, <1>b
     DEF Write, CollectionOf, WriteStep, writeFrame, journal, procVars, tickVars,
         switchVars, WritesFenced, Sharing, Early, Locked, Phases, Open
<1>10. ASSUME NEW p \in Procs, Unlock(p) PROVE WritesFenced'
  BY <1>10, <1>0, <1>b
     DEF Unlock, WriteStep, writeFrame, journal, procVars, tickVars, switchVars,
         WritesFenced, Sharing, Early, Locked, Phases, Open
<1>11. ASSUME NEW p \in Procs, MarkDone(p) PROVE WritesFenced'
  BY <1>11, <1>0, <1>b
     DEF MarkDone, WriteEnds, writeFrame, journal, procVars, tickVars, switchVars,
         WritesFenced, Sharing, Early, Locked, Phases, Open
<1>12. ASSUME NEW p \in Procs, Start(p) PROVE WritesFenced'
  BY <1>12, <1>0, <1>b
     DEF Start, journal, rowVars, tickVars, writeVars, switchVars, WritesFenced, Sharing,
         Early, Locked, Phases, Open
<1>13. ASSUME NEW p \in Procs, Expire(p) PROVE WritesFenced'
  BY <1>13, <1>0, <1>b
     DEF Expire, Faulty, NoRow, journal, rowVars, procVars, tickVars, writeVars, switchVars,
         WritesFenced, Sharing, Early, Locked, Phases, Open
<1>14. ASSUME NEW p \in Procs, NEW b \in BOOLEAN, End(p, b) PROVE WritesFenced'
  BY <1>14, <1>0, <1>b
     DEF End, Faulty, NoRow, Rest, WriteEnds, Blank, journal, rowVars, NoJournal,
         WritesFenced, Sharing, Early, Locked, Phases, Open
<1>15. ASSUME NEW p \in Procs, TickFails(p) PROVE WritesFenced'
  BY <1>15, <1>0, <1>b
     DEF TickFails, Faulty, Rest, journal, tickFrame, NoJournal, rowVars, writeVars,
         switchVars, Blank, WritesFenced, Sharing, Early, Locked, Phases, Open
<1>16. ASSUME NEW p \in Procs, WriteFails(p) PROVE WritesFenced'
  BY <1>16, <1>0, <1>b
     DEF WriteFails, Faulty, WriteEnds, writeFrame, journal, procVars, tickVars, switchVars,
         WritesFenced, Sharing, Early, Locked, Phases, Open
<1>17. ASSUME NEW p \in Procs, NEW g \in Generations, ApplyFails(p, g) PROVE WritesFenced'
  BY <1>17, <1>0, <1>b
     DEF ApplyFails, Row, Behind, Preparing, Faulty, Rest, Recover, journal, tickFrame,
         NoJournal, Fine, rowVars, writeVars, switchVars, Blank, BothRoles, WritesFenced,
         Sharing, Early, Locked, Phases, Open
<1>18. ASSUME NEW s \in Switches, Survey(s) PROVE WritesFenced'
  BY <1>18, <1>0, <1>b
     DEF Survey, Live, Check, Fine, journal, switchFrame, Goto, BothRoles, rowVars,
         procVars, tickVars, writeVars, WritesFenced, Sharing, Early, Locked, Phases, Open
<1>19. ASSUME NEW s \in Switches, Inputs(s) PROVE WritesFenced'
  BY <1>19, <1>0, <1>b
     DEF Inputs, Check, Unfinished, journal, switchFrame, Goto, rowVars, procVars, tickVars,
         writeVars, WritesFenced, Sharing, Early, Locked, Phases, Open
<1>20. ASSUME NEW s \in Switches, Validate(s) PROVE WritesFenced'
  BY <1>20, <1>0, <1>b
     DEF Validate, Check, journal, stepFrame, Goto, switchFrame, rowVars, procVars,
         tickVars, writeVars, WritesFenced, Sharing, Early, Locked, Phases, Open
<1>21. ASSUME NEW s \in Switches, Lock(s) PROVE WritesFenced'
  BY <1>21, <1>0, <1>b
     DEF Lock, Sharing, Goto, journal, stepFrame, switchFrame, rowVars, procVars, tickVars,
         writeVars, WritesFenced, Early, Locked, Phases, Open
<1>22. ASSUME NEW s \in Switches, Recheck(s) PROVE WritesFenced'
  BY <1>22, <1>0, <1>b
     DEF Recheck, Check, Open, journal, stepFrame, Goto, switchFrame, rowVars, procVars,
         tickVars, writeVars, WritesFenced, Sharing, Early, Locked, Phases
<1>23. ASSUME NEW s \in Switches, BeginPrepare(s) PROVE WritesFenced'
  BY <1>23, <1>0, <1>b
     DEF BeginPrepare, Goto, stepFrame, switchFrame, rowVars, procVars, tickVars, writeVars,
         WritesFenced, Sharing, Early, Locked, Phases, Open
<1>24. ASSUME NEW s \in Switches, Prepared(s) PROVE WritesFenced'
  BY <1>24, <1>0, <1>b
     DEF Prepared, Goto, journal, stepFrame, switchFrame, rowVars, procVars, tickVars,
         writeVars, WritesFenced, Sharing, Early, Locked, Phases, Open
<1>25. ASSUME NEW s \in Switches, NEW b \in BOOLEAN, Commit(s, b) PROVE WritesFenced'
  BY <1>25, <1>0, <1>b
     DEF Commit, Unfinished, Faulty, Goto, stepFrame, switchFrame, rowVars, procVars,
         tickVars, writeVars, WritesFenced, Sharing, Early, Locked, Phases, Open
<1>26. ASSUME NEW s \in Switches, Cancel(s) PROVE WritesFenced'
  BY <1>26, <1>0, <1>b
     DEF Cancel, Abortable, Goto, journal, stepFrame, Early, Locked, switchFrame, rowVars,
         procVars, tickVars, writeVars, WritesFenced, Sharing, Phases, Open
<1>27. ASSUME NEW s \in Switches, NEW b \in BOOLEAN, Abort(s, b) PROVE WritesFenced'
  BY <1>27, <1>0, <1>b
     DEF Abort, Faulty, FailPrepare, journal, Goto, Forget, switchFrame, Blank, rowVars,
         procVars, tickVars, writeVars, WritesFenced, Sharing, Early, Locked, Phases, Open
<1>28. ASSUME NEW s \in Switches, Leave(s) PROVE WritesFenced'
  BY <1>28, <1>0, <1>b
     DEF Leave, Goto, Forget, journal, switchFrame, Blank, rowVars, procVars, tickVars,
         writeVars, WritesFenced, Sharing, Early, Locked, Phases, Open
<1>29. ASSUME NEW s \in Switches, NEW p \in Procs, NEW k \in Collections, NEW b \in BOOLEAN,
             Request(s, p, k, b)
      PROVE WritesFenced'
  BY <1>29, <1>0, <1>b
     DEF Request, Check, Open, journal, switchFrame, Goto, rowVars, procVars, tickVars,
         writeVars, WritesFenced, Sharing, Early, Locked, Phases
<1>30. ASSUME NEW x \in Contents, Edit(x) PROVE WritesFenced'
  BY <1>30, <1>0, <1>b
     DEF Edit, journal, procVars, tickVars, writeVars, switchVars, WritesFenced, Sharing,
         Early, Locked, Phases, Open
<1>31. ASSUME NEW p \in Procs, Tick(p) \/ Writer(p) \/ Environment(p) PROVE WritesFenced'
  BY <1>1, <1>2, <1>3, <1>4, <1>5, <1>6, <1>7, <1>8, <1>9, <1>10, <1>11, <1>12, <1>13,
     <1>14, <1>15, <1>16, <1>17, <1>31 DEF Tick, Writer, Environment
<1>32. ASSUME NEW s \in Switches, Switch(s) \/ Commit(s, FALSE) \/ Abort(s, FALSE) PROVE WritesFenced'
  BY <1>18, <1>19, <1>20, <1>21, <1>22, <1>23, <1>24, <1>25, <1>26, <1>27, <1>28, <1>32
     DEF Switch
<1> QED
  BY <1>29, <1>30, <1>31, <1>32 DEF Next

\* What reading and applying a journal does to the client, the row and the tick of p.
Applied(p) ==
    /\ tick[p] = "apply" /\ TickChange(p)
    /\ installed' = [installed EXCEPT ![p] = installed'[p]]
    /\ installed'[p] \in {installed[p], seen[p].active}
    /\ \A q \in Procs : \/ row'[q].applied = row[q].applied
                        \/ q = p /\ row'[q].applied = installed'[p]
    /\ tick'[p] = "finish" => /\ seen[p].phase = "committing"
                             /\ Fine(row', seen[p].candidate)
    /\ UNCHANGED <<journal, tickFrame>>

\* Both ways to end it have that effect.
LEMMA AppliesJournal ==
    ASSUME TypeOK, NEW p \in Procs,
           (\E b \in BOOLEAN : Apply(p, b)) \/ (\E g \in Generations : ApplyFails(p, g))
    PROVE  Applied(p)
<1>0. /\ installed \in [Procs -> Generations]
      /\ row \in [Procs -> [applied : Generations \cup {Nobody},
                        prepared : Generations \cup {Nobody}, error : BOOLEAN, alive : BOOLEAN]]
  BY DEF TypeOK
<1>a. tick \in [Procs -> {"idle", "apply", "finish", "orphan"}]
  BY DEF TypeOK
<1>1. ASSUME NEW b \in BOOLEAN, Apply(p, b) PROVE Applied(p)
  <2>1. /\ tick[p] = "apply" /\ TickChange(p)
        /\ installed' = [installed EXCEPT ![p] = seen[p].active]
        /\ UNCHANGED <<journal, tickFrame>>
    BY <1>1 DEF Apply, Recover, TickChange
  <2>2. PICK ready, failed :
           row' = row \/ row' = [row EXCEPT ![p] = Row(seen[p].active, ready, failed)]
    BY <1>1 DEF Apply, Recover
  <2>3. Row(seen[p].active, ready, failed).applied = seen[p].active
    BY DEF Row
  <2>4. tick'[p] = "finish" => seen[p].phase = "committing" /\ Fine(row', seen[p].candidate)
    BY <1>1, <1>a DEF Apply, Recover, Rest
  <2> QED
    BY <1>0, <2>1, <2>2, <2>3, <2>4 DEF Applied
<1>2. ASSUME NEW g \in Generations, ApplyFails(p, g) PROVE Applied(p)
  <2>1. /\ tick[p] = "apply" /\ TickChange(p)
        /\ installed' = [installed EXCEPT ![p] = g] /\ g \in {installed[p], seen[p].active}
        /\ UNCHANGED <<journal, tickFrame>>
    BY <1>2 DEF ApplyFails, Recover, TickChange
  <2>2. row' = [row EXCEPT ![p] = Row(g, Nobody, TRUE)]
    BY <1>2 DEF ApplyFails, Recover
  <2>3. Row(g, Nobody, TRUE).applied = g
    BY DEF Row
  <2>4. tick'[p] = "finish" => seen[p].phase = "committing" /\ Fine(row', seen[p].candidate)
    BY <1>2, <1>a DEF ApplyFails, Recover, Rest
  <2> QED
    BY <1>0, <2>1, <2>2, <2>3, <2>4 DEF Applied
<1> QED
  BY <1>1, <1>2

\* A tick that goes on keeps what it read, one that ends forgets it.
LEMMA TickKeeps ==
    ASSUME TypeOK, NEW p \in Procs, TickChange(p)
    PROVE  \A q \in Procs : \/ seen'[q] = seen[q]
                            \/ q = p /\ seen'[q].active = First /\ seen'[q].phase = "active"
                               /\ seen'[q].candidate = Nobody /\ tick'[q] = "idle"
<1>1. /\ tick \in [Procs -> {"idle", "apply", "finish", "orphan"}]
      /\ seen \in [Procs -> [phase : Phases, active : Generations,
                            candidate : Switches \cup {Nobody},
                            owner : Procs \cup {Nobody}, digest : Contents]]
  BY DEF TypeOK
<1>2. /\ NoJournal.active = First /\ NoJournal.phase = "active" /\ NoJournal.candidate = Nobody
  BY DEF NoJournal
<1> QED
  BY <1>1, <1>2 DEF TickChange, Rest

\* Generations stay in the past.
LEMMA PastNext ==
    ASSUME TypeOK, PastFacts, Next
    PROVE  PastFacts'
<1>0. /\ step \in [Switches -> {"new", "abort", "lost", "end"} \cup Early \cup Locked]
      /\ expected \in [Switches -> Generations] /\ installed \in [Procs -> Generations]
      /\ active \in Generations /\ candidate \in Switches \cup {Nobody}
  BY DEF TypeOK
<1>a. row \in [Procs -> [applied : Generations \cup {Nobody},
                     prepared : Generations \cup {Nobody}, error : BOOLEAN, alive : BOOLEAN]]
  BY DEF TypeOK
<1>b. seen \in [Procs -> [phase : Phases, active : Generations,
                      candidate : Switches \cup {Nobody}, owner : Procs \cup {Nobody},
                      digest : Contents]]
  BY DEF TypeOK
<1>1. ASSUME NEW p \in Procs, ReadJournal(p) PROVE PastFacts'
  BY <1>1, <1>0, <1>a, <1>b
     DEF ReadJournal, journal, tickFrame, rowVars, writeVars, switchVars, PastFacts,
         Published, Early, Locked, Generations
<1>2. ASSUME NEW p \in Procs, NEW b \in BOOLEAN, Apply(p, b) PROVE PastFacts'
  <2>1. Applied(p)
    BY <1>2, AppliesJournal
  <2>2. installed'[p] \in Published
    BY <1>0, <2>1 DEF Applied, PastFacts
  <2> QED
    BY <1>0, <1>a, <1>b, <2>1, <2>2, TickKeeps
       DEF Applied, PastFacts, Published, journal, tickFrame, switchVars
<1>3. ASSUME NEW p \in Procs, FinishCommit(p) PROVE PastFacts'
  BY <1>3, <1>0, <1>a, <1>b
     DEF FinishCommit, Rest, tickFrame, NoJournal, rowVars, writeVars, switchVars, Blank,
         PastFacts, Published, Early, Locked, Generations
<1>4. ASSUME NEW p \in Procs, FailOrphan(p) PROVE PastFacts'
  BY <1>4, <1>0, <1>a, <1>b
     DEF FailOrphan, FailPrepare, Rest, tickFrame, NoJournal, rowVars, writeVars,
         switchVars, Blank, PastFacts, Published, Early, Locked, Generations
<1>5. ASSUME NEW p \in Procs, TakeClient(p) PROVE PastFacts'
  BY <1>5, <1>0, <1>a, <1>b
     DEF TakeClient, Unfinished, WriteStep, writeFrame, journal, procVars, tickVars,
         switchVars, PastFacts, Published, Early, Locked, Generations
<1>6. ASSUME NEW p \in Procs, LockShared(p) PROVE PastFacts'
  BY <1>6, <1>0, <1>a, <1>b
     DEF LockShared, WriteStep, writeFrame, journal, procVars, tickVars, switchVars,
         PastFacts, Published, Early, Locked, Generations
<1>7. ASSUME NEW p \in Procs, Admit(p) PROVE PastFacts'
  BY <1>7, <1>0, <1>a, <1>b
     DEF Admit, Open, WriteStep, writeFrame, journal, procVars, tickVars, switchVars,
         PastFacts, Published, Early, Locked, Generations
<1>8. ASSUME NEW p \in Procs, Reject(p) PROVE PastFacts'
  BY <1>8, <1>0, <1>a, <1>b
     DEF Reject, Open, WriteEnds, writeFrame, journal, procVars, tickVars, switchVars,
         PastFacts, Published, Early, Locked, Generations
<1>9. ASSUME NEW p \in Procs, Write(p) PROVE PastFacts'
  BY <1>9, <1>0, <1>a, <1>b
     DEF Write, CollectionOf, WriteStep, writeFrame, journal, procVars, tickVars,
         switchVars, PastFacts, Published, Early, Locked, Generations
<1>10. ASSUME NEW p \in Procs, Unlock(p) PROVE PastFacts'
  BY <1>10, <1>0, <1>a, <1>b
     DEF Unlock, WriteStep, writeFrame, journal, procVars, tickVars, switchVars, PastFacts,
         Published, Early, Locked, Generations
<1>11. ASSUME NEW p \in Procs, MarkDone(p) PROVE PastFacts'
  BY <1>11, <1>0, <1>a, <1>b
     DEF MarkDone, WriteEnds, writeFrame, journal, procVars, tickVars, switchVars,
         PastFacts, Published, Early, Locked, Generations
<1>12. ASSUME NEW p \in Procs, Start(p) PROVE PastFacts'
  BY <1>12, <1>0, <1>a, <1>b
     DEF Start, journal, rowVars, tickVars, writeVars, switchVars, PastFacts, Published,
         Early, Locked, Generations
<1>13. ASSUME NEW p \in Procs, Expire(p) PROVE PastFacts'
  BY <1>13, <1>0, <1>a, <1>b
     DEF Expire, Faulty, NoRow, journal, rowVars, procVars, tickVars, writeVars, switchVars,
         PastFacts, Published, Early, Locked, Generations
<1>14. ASSUME NEW p \in Procs, NEW b \in BOOLEAN, End(p, b) PROVE PastFacts'
  BY <1>14, <1>0, <1>a, <1>b
     DEF End, Faulty, NoRow, Rest, WriteEnds, Blank, journal, rowVars, NoJournal, PastFacts,
         Published, Early, Locked, Generations
<1>15. ASSUME NEW p \in Procs, TickFails(p) PROVE PastFacts'
  BY <1>15, <1>0, <1>a, <1>b
     DEF TickFails, Faulty, Rest, journal, tickFrame, NoJournal, rowVars, writeVars,
         switchVars, Blank, PastFacts, Published, Early, Locked, Generations
<1>16. ASSUME NEW p \in Procs, WriteFails(p) PROVE PastFacts'
  BY <1>16, <1>0, <1>a, <1>b
     DEF WriteFails, Faulty, WriteEnds, writeFrame, journal, procVars, tickVars, switchVars,
         PastFacts, Published, Early, Locked, Generations
<1>17. ASSUME NEW p \in Procs, NEW g \in Generations, ApplyFails(p, g) PROVE PastFacts'
  <2>1. Applied(p)
    BY <1>17, AppliesJournal
  <2>2. installed'[p] \in Published
    BY <1>0, <2>1 DEF Applied, PastFacts
  <2> QED
    BY <1>0, <1>a, <1>b, <2>1, <2>2, TickKeeps
       DEF Applied, PastFacts, Published, journal, tickFrame, switchVars
<1>18. ASSUME NEW s \in Switches, Survey(s) PROVE PastFacts'
  BY <1>18, <1>0, <1>a, <1>b
     DEF Survey, Live, Check, Fine, journal, switchFrame, Goto, BothRoles, rowVars,
         procVars, tickVars, writeVars, PastFacts, Published, Early, Locked, Generations
<1>19. ASSUME NEW s \in Switches, Inputs(s) PROVE PastFacts'
  BY <1>19, <1>0, <1>a, <1>b
     DEF Inputs, Check, Unfinished, journal, switchFrame, Goto, rowVars, procVars, tickVars,
         writeVars, PastFacts, Published, Early, Locked, Generations
<1>20. ASSUME NEW s \in Switches, Validate(s) PROVE PastFacts'
  BY <1>20, <1>0, <1>a, <1>b
     DEF Validate, Check, journal, stepFrame, Goto, switchFrame, rowVars, procVars,
         tickVars, writeVars, PastFacts, Published, Early, Locked, Generations
<1>21. ASSUME NEW s \in Switches, Lock(s) PROVE PastFacts'
  BY <1>21, <1>0, <1>a, <1>b
     DEF Lock, Sharing, Goto, journal, stepFrame, switchFrame, rowVars, procVars, tickVars,
         writeVars, PastFacts, Published, Early, Locked, Generations
<1>22. ASSUME NEW s \in Switches, Recheck(s) PROVE PastFacts'
  BY <1>22, <1>0, <1>a, <1>b
     DEF Recheck, Check, Open, journal, stepFrame, Goto, switchFrame, rowVars, procVars,
         tickVars, writeVars, PastFacts, Published, Early, Locked, Generations
<1>23. ASSUME NEW s \in Switches, BeginPrepare(s) PROVE PastFacts'
  BY <1>23, <1>0, <1>a, <1>b
     DEF BeginPrepare, Goto, stepFrame, switchFrame, rowVars, procVars, tickVars, writeVars,
         PastFacts, Published, Early, Locked, Generations
<1>24. ASSUME NEW s \in Switches, Prepared(s) PROVE PastFacts'
  BY <1>24, <1>0, <1>a, <1>b
     DEF Prepared, Goto, journal, stepFrame, switchFrame, rowVars, procVars, tickVars,
         writeVars, PastFacts, Published, Early, Locked, Generations
<1>25. ASSUME NEW s \in Switches, NEW b \in BOOLEAN, Commit(s, b) PROVE PastFacts'
  BY <1>25, <1>0, <1>a, <1>b
     DEF Commit, Unfinished, Faulty, Goto, stepFrame, switchFrame, rowVars, procVars,
         tickVars, writeVars, PastFacts, Published, Early, Locked, Generations
<1>26. ASSUME NEW s \in Switches, Cancel(s) PROVE PastFacts'
  BY <1>26, <1>0, <1>a, <1>b
     DEF Cancel, Abortable, Goto, journal, stepFrame, Early, Locked, switchFrame, rowVars,
         procVars, tickVars, writeVars, PastFacts, Published, Generations
<1>27. ASSUME NEW s \in Switches, NEW b \in BOOLEAN, Abort(s, b) PROVE PastFacts'
  BY <1>27, <1>0, <1>a, <1>b
     DEF Abort, Faulty, FailPrepare, journal, Goto, Forget, switchFrame, Blank, rowVars,
         procVars, tickVars, writeVars, PastFacts, Published, Early, Locked, Generations
<1>28. ASSUME NEW s \in Switches, Leave(s) PROVE PastFacts'
  BY <1>28, <1>0, <1>a, <1>b
     DEF Leave, Goto, Forget, journal, switchFrame, Blank, rowVars, procVars, tickVars,
         writeVars, PastFacts, Published, Early, Locked, Generations
<1>29. ASSUME NEW s \in Switches, NEW p \in Procs, NEW k \in Collections, NEW b \in BOOLEAN,
             Request(s, p, k, b)
      PROVE PastFacts'
  BY <1>29, <1>0, <1>a, <1>b
     DEF Request, Check, Open, journal, switchFrame, Goto, rowVars, procVars, tickVars,
         writeVars, PastFacts, Published, Early, Locked, Generations
<1>30. ASSUME NEW x \in Contents, Edit(x) PROVE PastFacts'
  BY <1>30, <1>0, <1>a, <1>b
     DEF Edit, journal, procVars, tickVars, writeVars, switchVars, PastFacts, Published,
         Early, Locked, Generations
<1>31. ASSUME NEW p \in Procs, Tick(p) \/ Writer(p) \/ Environment(p) PROVE PastFacts'
  BY <1>1, <1>2, <1>3, <1>4, <1>5, <1>6, <1>7, <1>8, <1>9, <1>10, <1>11, <1>12, <1>13,
     <1>14, <1>15, <1>16, <1>17, <1>31 DEF Tick, Writer, Environment
<1>32. ASSUME NEW s \in Switches, Switch(s) \/ Commit(s, FALSE) \/ Abort(s, FALSE) PROVE PastFacts'
  BY <1>18, <1>19, <1>20, <1>21, <1>22, <1>23, <1>24, <1>25, <1>26, <1>27, <1>28, <1>32
     DEF Switch
<1> QED
  BY <1>29, <1>30, <1>31, <1>32 DEF Next

\* A candidate is not taken for the active generation.
LEMMA CandidateNext ==
    ASSUME TypeOK, PastFacts, CandidateFacts, Next
    PROVE  CandidateFacts'
<1>0. /\ step \in [Switches -> {"new", "abort", "lost", "end"} \cup Early \cup Locked]
      /\ installed \in [Procs -> Generations] /\ phase \in Phases
      /\ active \in Generations /\ candidate \in Switches \cup {Nobody}
  BY DEF TypeOK
<1>a. /\ First \notin Switches \cup {Nobody} /\ Nobody \notin Generations
      /\ \A s \in Switches : step[s] \in {"begin", "commit"} => s \notin Published
  BY NamesAssumption DEF Published, Generations
<1>b. seen \in [Procs -> [phase : Phases, active : Generations,
                      candidate : Switches \cup {Nobody}, owner : Procs \cup {Nobody},
                      digest : Contents]]
  BY DEF TypeOK
<1>1. ASSUME NEW p \in Procs, ReadJournal(p) PROVE CandidateFacts'
  BY <1>1, <1>0, <1>a, <1>b
     DEF ReadJournal, journal, tickFrame, rowVars, writeVars, switchVars, CandidateFacts,
         PastFacts
<1>2. ASSUME NEW p \in Procs, NEW b \in BOOLEAN, Apply(p, b) PROVE CandidateFacts'
  <2>1. Applied(p)
    BY <1>2, AppliesJournal
  <2> QED
    BY <1>0, <1>a, <1>b, <2>1, TickKeeps DEF Applied, CandidateFacts, journal
<1>3. ASSUME NEW p \in Procs, FinishCommit(p) PROVE CandidateFacts'
  BY <1>3, <1>0, <1>a, <1>b
     DEF FinishCommit, Rest, tickFrame, NoJournal, rowVars, writeVars, switchVars, Blank,
         CandidateFacts, PastFacts
<1>4. ASSUME NEW p \in Procs, FailOrphan(p) PROVE CandidateFacts'
  BY <1>4, <1>0, <1>a, <1>b
     DEF FailOrphan, FailPrepare, Rest, tickFrame, NoJournal, rowVars, writeVars,
         switchVars, Blank, CandidateFacts, PastFacts
<1>5. ASSUME NEW p \in Procs, TakeClient(p) PROVE CandidateFacts'
  BY <1>5, <1>0, <1>a, <1>b
     DEF TakeClient, Unfinished, WriteStep, writeFrame, journal, procVars, tickVars,
         switchVars, CandidateFacts, PastFacts
<1>6. ASSUME NEW p \in Procs, LockShared(p) PROVE CandidateFacts'
  BY <1>6, <1>0, <1>a, <1>b
     DEF LockShared, WriteStep, writeFrame, journal, procVars, tickVars, switchVars,
         CandidateFacts, PastFacts
<1>7. ASSUME NEW p \in Procs, Admit(p) PROVE CandidateFacts'
  BY <1>7, <1>0, <1>a, <1>b
     DEF Admit, Open, WriteStep, writeFrame, journal, procVars, tickVars, switchVars,
         CandidateFacts, PastFacts
<1>8. ASSUME NEW p \in Procs, Reject(p) PROVE CandidateFacts'
  BY <1>8, <1>0, <1>a, <1>b
     DEF Reject, Open, WriteEnds, writeFrame, journal, procVars, tickVars, switchVars,
         CandidateFacts, PastFacts
<1>9. ASSUME NEW p \in Procs, Write(p) PROVE CandidateFacts'
  BY <1>9, <1>0, <1>a, <1>b
     DEF Write, CollectionOf, WriteStep, writeFrame, journal, procVars, tickVars,
         switchVars, CandidateFacts, PastFacts
<1>10. ASSUME NEW p \in Procs, Unlock(p) PROVE CandidateFacts'
  BY <1>10, <1>0, <1>a, <1>b
     DEF Unlock, WriteStep, writeFrame, journal, procVars, tickVars, switchVars,
         CandidateFacts, PastFacts
<1>11. ASSUME NEW p \in Procs, MarkDone(p) PROVE CandidateFacts'
  BY <1>11, <1>0, <1>a, <1>b
     DEF MarkDone, WriteEnds, writeFrame, journal, procVars, tickVars, switchVars,
         CandidateFacts, PastFacts
<1>12. ASSUME NEW p \in Procs, Start(p) PROVE CandidateFacts'
  BY <1>12, <1>0, <1>a, <1>b
     DEF Start, journal, rowVars, tickVars, writeVars, switchVars, CandidateFacts, PastFacts
<1>13. ASSUME NEW p \in Procs, Expire(p) PROVE CandidateFacts'
  BY <1>13, <1>0, <1>a, <1>b
     DEF Expire, Faulty, NoRow, journal, rowVars, procVars, tickVars, writeVars, switchVars,
         CandidateFacts, PastFacts
<1>14. ASSUME NEW p \in Procs, NEW b \in BOOLEAN, End(p, b) PROVE CandidateFacts'
  BY <1>14, <1>0, <1>a, <1>b
     DEF End, Faulty, NoRow, Rest, WriteEnds, Blank, journal, rowVars, NoJournal,
         CandidateFacts, PastFacts
<1>15. ASSUME NEW p \in Procs, TickFails(p) PROVE CandidateFacts'
  BY <1>15, <1>0, <1>a, <1>b
     DEF TickFails, Faulty, Rest, journal, tickFrame, NoJournal, rowVars, writeVars,
         switchVars, Blank, CandidateFacts, PastFacts
<1>16. ASSUME NEW p \in Procs, WriteFails(p) PROVE CandidateFacts'
  BY <1>16, <1>0, <1>a, <1>b
     DEF WriteFails, Faulty, WriteEnds, writeFrame, journal, procVars, tickVars, switchVars,
         CandidateFacts, PastFacts
<1>17. ASSUME NEW p \in Procs, NEW g \in Generations, ApplyFails(p, g) PROVE CandidateFacts'
  <2>1. Applied(p)
    BY <1>17, AppliesJournal
  <2> QED
    BY <1>0, <1>a, <1>b, <2>1, TickKeeps DEF Applied, CandidateFacts, journal
<1>18. ASSUME NEW s \in Switches, Survey(s) PROVE CandidateFacts'
  BY <1>18, <1>0, <1>a, <1>b
     DEF Survey, Live, Check, Fine, journal, switchFrame, Goto, BothRoles, rowVars,
         procVars, tickVars, writeVars, CandidateFacts, PastFacts
<1>19. ASSUME NEW s \in Switches, Inputs(s) PROVE CandidateFacts'
  BY <1>19, <1>0, <1>a, <1>b
     DEF Inputs, Check, Unfinished, journal, switchFrame, Goto, rowVars, procVars, tickVars,
         writeVars, CandidateFacts, PastFacts
<1>20. ASSUME NEW s \in Switches, Validate(s) PROVE CandidateFacts'
  BY <1>20, <1>0, <1>a, <1>b
     DEF Validate, Check, journal, stepFrame, Goto, switchFrame, rowVars, procVars,
         tickVars, writeVars, CandidateFacts, PastFacts
<1>21. ASSUME NEW s \in Switches, Lock(s) PROVE CandidateFacts'
  BY <1>21, <1>0, <1>a, <1>b
     DEF Lock, Sharing, Goto, journal, stepFrame, switchFrame, rowVars, procVars, tickVars,
         writeVars, CandidateFacts, PastFacts
<1>22. ASSUME NEW s \in Switches, Recheck(s) PROVE CandidateFacts'
  BY <1>22, <1>0, <1>a, <1>b
     DEF Recheck, Check, Open, journal, stepFrame, Goto, switchFrame, rowVars, procVars,
         tickVars, writeVars, CandidateFacts, PastFacts
<1>23. ASSUME NEW s \in Switches, BeginPrepare(s) PROVE CandidateFacts'
  BY <1>23, <1>0, <1>a, <1>b
     DEF BeginPrepare, Goto, stepFrame, switchFrame, rowVars, procVars, tickVars, writeVars,
         CandidateFacts, PastFacts
<1>24. ASSUME NEW s \in Switches, Prepared(s) PROVE CandidateFacts'
  BY <1>24, <1>0, <1>a, <1>b
     DEF Prepared, Goto, journal, stepFrame, switchFrame, rowVars, procVars, tickVars,
         writeVars, CandidateFacts, PastFacts
<1>25. ASSUME NEW s \in Switches, NEW b \in BOOLEAN, Commit(s, b) PROVE CandidateFacts'
  BY <1>25, <1>0, <1>a, <1>b
     DEF Commit, Unfinished, Faulty, Goto, stepFrame, switchFrame, rowVars, procVars,
         tickVars, writeVars, CandidateFacts, PastFacts
<1>26. ASSUME NEW s \in Switches, Cancel(s) PROVE CandidateFacts'
  BY <1>26, <1>0, <1>a, <1>b
     DEF Cancel, Abortable, Goto, journal, stepFrame, Early, Locked, switchFrame, rowVars,
         procVars, tickVars, writeVars, CandidateFacts, PastFacts
<1>27. ASSUME NEW s \in Switches, NEW b \in BOOLEAN, Abort(s, b) PROVE CandidateFacts'
  BY <1>27, <1>0, <1>a, <1>b
     DEF Abort, Faulty, FailPrepare, journal, Goto, Forget, switchFrame, Blank, rowVars,
         procVars, tickVars, writeVars, CandidateFacts, PastFacts
<1>28. ASSUME NEW s \in Switches, Leave(s) PROVE CandidateFacts'
  BY <1>28, <1>0, <1>a, <1>b
     DEF Leave, Goto, Forget, journal, switchFrame, Blank, rowVars, procVars, tickVars,
         writeVars, CandidateFacts, PastFacts
<1>29. ASSUME NEW s \in Switches, NEW p \in Procs, NEW k \in Collections, NEW b \in BOOLEAN,
             Request(s, p, k, b)
      PROVE CandidateFacts'
  BY <1>29, <1>0, <1>a, <1>b
     DEF Request, Check, Open, journal, switchFrame, Goto, rowVars, procVars, tickVars,
         writeVars, CandidateFacts, PastFacts
<1>30. ASSUME NEW x \in Contents, Edit(x) PROVE CandidateFacts'
  BY <1>30, <1>0, <1>a, <1>b
     DEF Edit, journal, procVars, tickVars, writeVars, switchVars, CandidateFacts, PastFacts
<1>31. ASSUME NEW p \in Procs, Tick(p) \/ Writer(p) \/ Environment(p) PROVE CandidateFacts'
  BY <1>1, <1>2, <1>3, <1>4, <1>5, <1>6, <1>7, <1>8, <1>9, <1>10, <1>11, <1>12, <1>13,
     <1>14, <1>15, <1>16, <1>17, <1>31 DEF Tick, Writer, Environment
<1>32. ASSUME NEW s \in Switches, Switch(s) \/ Commit(s, FALSE) \/ Abort(s, FALSE) PROVE CandidateFacts'
  BY <1>18, <1>19, <1>20, <1>21, <1>22, <1>23, <1>24, <1>25, <1>26, <1>27, <1>28, <1>32
     DEF Switch
<1> QED
  BY <1>29, <1>30, <1>31, <1>32 DEF Next

\* Whoever has installed the active generation keeps it.
LEMMA InstalledNext ==
    ASSUME TypeOK, PastFacts, CandidateFacts, InstalledFacts, Next
    PROVE  InstalledFacts'
<1>0. /\ step \in [Switches -> {"new", "abort", "lost", "end"} \cup Early \cup Locked]
      /\ installed \in [Procs -> Generations] /\ phase \in Phases
      /\ active \in Generations /\ candidate \in Switches \cup {Nobody}
      /\ tick \in [Procs -> {"idle", "apply", "finish", "orphan"}]
      /\ life \in [Procs -> {"new", "up", "dead"}]
  BY DEF TypeOK
<1>a. /\ First \notin Switches \cup {Nobody} /\ Nobody \notin Generations
      /\ \A s \in Switches : step[s] \in {"begin", "commit"} => s \notin Published
  BY NamesAssumption DEF Published, Generations
<1>b. seen \in [Procs -> [phase : Phases, active : Generations,
                      candidate : Switches \cup {Nobody}, owner : Procs \cup {Nobody},
                      digest : Contents]]
  BY DEF TypeOK
<1>c. row \in [Procs -> [applied : Generations \cup {Nobody},
                     prepared : Generations \cup {Nobody}, error : BOOLEAN, alive : BOOLEAN]]
  BY DEF TypeOK
<1>1. ASSUME NEW p \in Procs, ReadJournal(p) PROVE InstalledFacts'
  BY <1>1, <1>0, <1>a, <1>b, <1>c
     DEF ReadJournal, journal, tickFrame, rowVars, writeVars, switchVars, InstalledFacts,
         CandidateFacts, PastFacts
<1>2. ASSUME NEW p \in Procs, NEW b \in BOOLEAN, Apply(p, b) PROVE InstalledFacts'
  <2>1. Applied(p)
    BY <1>2, AppliesJournal
  <2>2. /\ active' = active /\ life' = life
        /\ tick[p] = "apply" /\ tick' = [tick EXCEPT ![p] = tick'[p]]
        /\ tick'[p] \in {"idle", "finish", "orphan"}
    BY <1>0, <2>1 DEF Applied, TickChange, Rest, journal, tickFrame
  <2>3. \A q \in Procs : installed[q] = active => installed'[q] = active
    BY <1>0, <2>1, <2>2 DEF Applied, InstalledFacts
  <2>4. \A q \in Procs : row'[q].applied = active => installed'[q] = active
    BY <1>0, <2>1, <2>2, <2>3 DEF Applied, InstalledFacts
  <2>5. ASSUME tick'[p] = "finish", active = seen[p].candidate, NEW r \in {"api", "worker"}
        PROVE  \E q \in Procs : Role[q] = r /\ installed'[q] = active
    <3> DEFINE live == {q \in Procs : row'[q].alive}
    <3>1. BothRoles(live) /\ \A q \in live : row'[q].applied = seen[p].candidate
      BY <2>1, <2>5 DEF Applied, Fine
    <3>2. PICK q \in live : Role[q] = r
      BY <3>1 DEF BothRoles
    <3> QED
      BY <2>4, <2>5, <3>1, <3>2
  <2>6. tick'[p] = "finish" => seen' = seen
    BY <1>0, <2>1 DEF Applied, TickChange, Rest
  <2>7. \A q \in Procs \ {p} : seen'[q] = seen[q] /\ tick'[q] = tick[q]
    BY <1>0, <1>b, <2>1 DEF Applied, TickChange, Rest
  <2>8. tick'[p] = "finish" => seen[p].phase = "committing"
    BY <2>1 DEF Applied
  <2>9. ASSUME NEW q \in Procs, tick'[q] = "finish"
        PROVE  /\ seen'[q].phase = "committing"
               /\ active = seen'[q].candidate =>
                     \A r \in {"api", "worker"} :
                        \E x \in Procs : Role[x] = r /\ installed'[x] = active
    <3>1. CASE q = p
      BY <2>5, <2>6, <2>8, <2>9, <3>1
    <3>2. CASE q # p
      BY <2>3, <2>7, <2>9, <3>2 DEF InstalledFacts
    <3> QED
      BY <3>1, <3>2
  <2>10. \A q \in Procs :
           /\ life'[q] = "new" => tick'[q] = "idle"
           /\ tick'[q] = "apply" /\ installed'[q] = active => seen'[q].active = active
    <3>1. \A q \in Procs \ {p} : installed'[q] = installed[q]
      BY <1>0, <2>1 DEF Applied
    <3> QED
      BY <1>0, <2>2, <2>7, <3>1 DEF InstalledFacts
  <2>11. \A q \in Procs : row'[q].applied = active' => installed'[q] = active'
    BY <2>2, <2>4
  <2>12. \A q \in Procs : tick'[q] = "finish" =>
           /\ seen'[q].phase = "committing"
           /\ active' = seen'[q].candidate =>
                 \A r \in {"api", "worker"} :
                    \E x \in Procs : Role[x] = r /\ installed'[x] = active'
    BY <2>2, <2>9
  <2>13. \A q \in Procs : tick'[q] = "apply" /\ installed'[q] = active' => seen'[q].active = active'
    BY <2>2, <2>10
  <2>14. \A q \in Procs : life'[q] = "new" => tick'[q] = "idle"
    BY <2>10
  <2> QED
    BY <2>11, <2>12, <2>13, <2>14 DEF InstalledFacts
<1>3. ASSUME NEW p \in Procs, FinishCommit(p) PROVE InstalledFacts'
  BY <1>3, <1>0, <1>a, <1>b, <1>c
     DEF FinishCommit, Rest, tickFrame, NoJournal, rowVars, writeVars, switchVars, Blank,
         InstalledFacts, CandidateFacts, PastFacts
<1>4. ASSUME NEW p \in Procs, FailOrphan(p) PROVE InstalledFacts'
  BY <1>4, <1>0, <1>a, <1>b, <1>c
     DEF FailOrphan, FailPrepare, Rest, tickFrame, NoJournal, rowVars, writeVars,
         switchVars, Blank, InstalledFacts, CandidateFacts, PastFacts
<1>5. ASSUME NEW p \in Procs, TakeClient(p) PROVE InstalledFacts'
  BY <1>5, <1>0, <1>a, <1>b, <1>c
     DEF TakeClient, Unfinished, WriteStep, writeFrame, journal, procVars, tickVars,
         switchVars, InstalledFacts, CandidateFacts, PastFacts
<1>6. ASSUME NEW p \in Procs, LockShared(p) PROVE InstalledFacts'
  BY <1>6, <1>0, <1>a, <1>b, <1>c
     DEF LockShared, WriteStep, writeFrame, journal, procVars, tickVars, switchVars,
         InstalledFacts, CandidateFacts, PastFacts
<1>7. ASSUME NEW p \in Procs, Admit(p) PROVE InstalledFacts'
  BY <1>7, <1>0, <1>a, <1>b, <1>c
     DEF Admit, Open, WriteStep, writeFrame, journal, procVars, tickVars, switchVars,
         InstalledFacts, CandidateFacts, PastFacts
<1>8. ASSUME NEW p \in Procs, Reject(p) PROVE InstalledFacts'
  BY <1>8, <1>0, <1>a, <1>b, <1>c
     DEF Reject, Open, WriteEnds, writeFrame, journal, procVars, tickVars, switchVars,
         InstalledFacts, CandidateFacts, PastFacts
<1>9. ASSUME NEW p \in Procs, Write(p) PROVE InstalledFacts'
  BY <1>9, <1>0, <1>a, <1>b, <1>c
     DEF Write, CollectionOf, WriteStep, writeFrame, journal, procVars, tickVars,
         switchVars, InstalledFacts, CandidateFacts, PastFacts
<1>10. ASSUME NEW p \in Procs, Unlock(p) PROVE InstalledFacts'
  BY <1>10, <1>0, <1>a, <1>b, <1>c
     DEF Unlock, WriteStep, writeFrame, journal, procVars, tickVars, switchVars,
         InstalledFacts, CandidateFacts, PastFacts
<1>11. ASSUME NEW p \in Procs, MarkDone(p) PROVE InstalledFacts'
  BY <1>11, <1>0, <1>a, <1>b, <1>c
     DEF MarkDone, WriteEnds, writeFrame, journal, procVars, tickVars, switchVars,
         InstalledFacts, CandidateFacts, PastFacts
<1>12. ASSUME NEW p \in Procs, Start(p) PROVE InstalledFacts'
  BY <1>12, <1>0, <1>a, <1>b, <1>c
     DEF Start, journal, rowVars, tickVars, writeVars, switchVars, InstalledFacts,
         CandidateFacts, PastFacts
<1>13. ASSUME NEW p \in Procs, Expire(p) PROVE InstalledFacts'
  BY <1>13, <1>0, <1>a, <1>b, <1>c
     DEF Expire, Faulty, NoRow, journal, rowVars, procVars, tickVars, writeVars, switchVars,
         InstalledFacts, CandidateFacts, PastFacts
<1>14. ASSUME NEW p \in Procs, NEW b \in BOOLEAN, End(p, b) PROVE InstalledFacts'
  BY <1>14, <1>0, <1>a, <1>b, <1>c
     DEF End, Faulty, NoRow, Rest, WriteEnds, Blank, journal, rowVars, NoJournal,
         InstalledFacts, CandidateFacts, PastFacts
<1>15. ASSUME NEW p \in Procs, TickFails(p) PROVE InstalledFacts'
  BY <1>15, <1>0, <1>a, <1>b, <1>c
     DEF TickFails, Faulty, Rest, journal, tickFrame, NoJournal, rowVars, writeVars,
         switchVars, Blank, InstalledFacts, CandidateFacts, PastFacts
<1>16. ASSUME NEW p \in Procs, WriteFails(p) PROVE InstalledFacts'
  BY <1>16, <1>0, <1>a, <1>b, <1>c
     DEF WriteFails, Faulty, WriteEnds, writeFrame, journal, procVars, tickVars, switchVars,
         InstalledFacts, CandidateFacts, PastFacts
<1>17. ASSUME NEW p \in Procs, NEW g \in Generations, ApplyFails(p, g) PROVE InstalledFacts'
  <2>1. Applied(p)
    BY <1>17, AppliesJournal
  <2>2. /\ active' = active /\ life' = life
        /\ tick[p] = "apply" /\ tick' = [tick EXCEPT ![p] = tick'[p]]
        /\ tick'[p] \in {"idle", "finish", "orphan"}
    BY <1>0, <2>1 DEF Applied, TickChange, Rest, journal, tickFrame
  <2>3. \A q \in Procs : installed[q] = active => installed'[q] = active
    BY <1>0, <2>1, <2>2 DEF Applied, InstalledFacts
  <2>4. \A q \in Procs : row'[q].applied = active => installed'[q] = active
    BY <1>0, <2>1, <2>2, <2>3 DEF Applied, InstalledFacts
  <2>5. ASSUME tick'[p] = "finish", active = seen[p].candidate, NEW r \in {"api", "worker"}
        PROVE  \E q \in Procs : Role[q] = r /\ installed'[q] = active
    <3> DEFINE live == {q \in Procs : row'[q].alive}
    <3>1. BothRoles(live) /\ \A q \in live : row'[q].applied = seen[p].candidate
      BY <2>1, <2>5 DEF Applied, Fine
    <3>2. PICK q \in live : Role[q] = r
      BY <3>1 DEF BothRoles
    <3> QED
      BY <2>4, <2>5, <3>1, <3>2
  <2>6. tick'[p] = "finish" => seen' = seen
    BY <1>0, <2>1 DEF Applied, TickChange, Rest
  <2>7. \A q \in Procs \ {p} : seen'[q] = seen[q] /\ tick'[q] = tick[q]
    BY <1>0, <1>b, <2>1 DEF Applied, TickChange, Rest
  <2>8. tick'[p] = "finish" => seen[p].phase = "committing"
    BY <2>1 DEF Applied
  <2>9. ASSUME NEW q \in Procs, tick'[q] = "finish"
        PROVE  /\ seen'[q].phase = "committing"
               /\ active = seen'[q].candidate =>
                     \A r \in {"api", "worker"} :
                        \E x \in Procs : Role[x] = r /\ installed'[x] = active
    <3>1. CASE q = p
      BY <2>5, <2>6, <2>8, <2>9, <3>1
    <3>2. CASE q # p
      BY <2>3, <2>7, <2>9, <3>2 DEF InstalledFacts
    <3> QED
      BY <3>1, <3>2
  <2>10. \A q \in Procs :
           /\ life'[q] = "new" => tick'[q] = "idle"
           /\ tick'[q] = "apply" /\ installed'[q] = active => seen'[q].active = active
    <3>1. \A q \in Procs \ {p} : installed'[q] = installed[q]
      BY <1>0, <2>1 DEF Applied
    <3> QED
      BY <1>0, <2>2, <2>7, <3>1 DEF InstalledFacts
  <2>11. \A q \in Procs : row'[q].applied = active' => installed'[q] = active'
    BY <2>2, <2>4
  <2>12. \A q \in Procs : tick'[q] = "finish" =>
           /\ seen'[q].phase = "committing"
           /\ active' = seen'[q].candidate =>
                 \A r \in {"api", "worker"} :
                    \E x \in Procs : Role[x] = r /\ installed'[x] = active'
    BY <2>2, <2>9
  <2>13. \A q \in Procs : tick'[q] = "apply" /\ installed'[q] = active' => seen'[q].active = active'
    BY <2>2, <2>10
  <2>14. \A q \in Procs : life'[q] = "new" => tick'[q] = "idle"
    BY <2>10
  <2> QED
    BY <2>11, <2>12, <2>13, <2>14 DEF InstalledFacts
<1>18. ASSUME NEW s \in Switches, Survey(s) PROVE InstalledFacts'
  BY <1>18, <1>0, <1>a, <1>b, <1>c
     DEF Survey, Live, Check, Fine, journal, switchFrame, Goto, BothRoles, rowVars,
         procVars, tickVars, writeVars, InstalledFacts, CandidateFacts, PastFacts
<1>19. ASSUME NEW s \in Switches, Inputs(s) PROVE InstalledFacts'
  BY <1>19, <1>0, <1>a, <1>b, <1>c
     DEF Inputs, Check, Unfinished, journal, switchFrame, Goto, rowVars, procVars, tickVars,
         writeVars, InstalledFacts, CandidateFacts, PastFacts
<1>20. ASSUME NEW s \in Switches, Validate(s) PROVE InstalledFacts'
  BY <1>20, <1>0, <1>a, <1>b, <1>c
     DEF Validate, Check, journal, stepFrame, Goto, switchFrame, rowVars, procVars,
         tickVars, writeVars, InstalledFacts, CandidateFacts, PastFacts
<1>21. ASSUME NEW s \in Switches, Lock(s) PROVE InstalledFacts'
  BY <1>21, <1>0, <1>a, <1>b, <1>c
     DEF Lock, Sharing, Goto, journal, stepFrame, switchFrame, rowVars, procVars, tickVars,
         writeVars, InstalledFacts, CandidateFacts, PastFacts
<1>22. ASSUME NEW s \in Switches, Recheck(s) PROVE InstalledFacts'
  BY <1>22, <1>0, <1>a, <1>b, <1>c
     DEF Recheck, Check, Open, journal, stepFrame, Goto, switchFrame, rowVars, procVars,
         tickVars, writeVars, InstalledFacts, CandidateFacts, PastFacts
<1>23. ASSUME NEW s \in Switches, BeginPrepare(s) PROVE InstalledFacts'
  BY <1>23, <1>0, <1>a, <1>b, <1>c
     DEF BeginPrepare, Goto, stepFrame, switchFrame, rowVars, procVars, tickVars, writeVars,
         InstalledFacts, CandidateFacts, PastFacts
<1>24. ASSUME NEW s \in Switches, Prepared(s) PROVE InstalledFacts'
  BY <1>24, <1>0, <1>a, <1>b, <1>c
     DEF Prepared, Goto, journal, stepFrame, switchFrame, rowVars, procVars, tickVars,
         writeVars, InstalledFacts, CandidateFacts, PastFacts
<1>25. ASSUME NEW s \in Switches, NEW b \in BOOLEAN, Commit(s, b) PROVE InstalledFacts'
  <2>1. /\ s \notin Published /\ active' = s /\ s # Nobody
        /\ UNCHANGED <<installed, row, tick, seen, life>>
    BY <1>25, <1>a DEF Commit, stepFrame, switchFrame, procVars, tickVars, Generations
  <2>2. \A p \in Procs : installed[p] # s /\ row[p].applied # s /\ seen[p].active # s
    BY <2>1 DEF PastFacts
  <2>3. \A p \in Procs : seen[p].phase = "committing" => seen[p].candidate # s
    BY <2>2 DEF CandidateFacts
  <2>4. \A p \in Procs : tick[p] = "finish" => seen[p].phase = "committing"
    BY DEF InstalledFacts
  <2>5. \A p \in Procs : life[p] = "new" => tick[p] = "idle"
    BY DEF InstalledFacts
  <2> QED
    BY <2>1, <2>2, <2>3, <2>4, <2>5 DEF InstalledFacts
<1>26. ASSUME NEW s \in Switches, Cancel(s) PROVE InstalledFacts'
  BY <1>26, <1>0, <1>a, <1>b, <1>c
     DEF Cancel, Abortable, Goto, journal, stepFrame, Early, Locked, switchFrame, rowVars,
         procVars, tickVars, writeVars, InstalledFacts, CandidateFacts, PastFacts
<1>27. ASSUME NEW s \in Switches, NEW b \in BOOLEAN, Abort(s, b) PROVE InstalledFacts'
  BY <1>27, <1>0, <1>a, <1>b, <1>c
     DEF Abort, Faulty, FailPrepare, journal, Goto, Forget, switchFrame, Blank, rowVars,
         procVars, tickVars, writeVars, InstalledFacts, CandidateFacts, PastFacts
<1>28. ASSUME NEW s \in Switches, Leave(s) PROVE InstalledFacts'
  BY <1>28, <1>0, <1>a, <1>b, <1>c
     DEF Leave, Goto, Forget, journal, switchFrame, Blank, rowVars, procVars, tickVars,
         writeVars, InstalledFacts, CandidateFacts, PastFacts
<1>29. ASSUME NEW s \in Switches, NEW p \in Procs, NEW k \in Collections, NEW b \in BOOLEAN,
             Request(s, p, k, b)
      PROVE InstalledFacts'
  BY <1>29, <1>0, <1>a, <1>b, <1>c
     DEF Request, Check, Open, journal, switchFrame, Goto, rowVars, procVars, tickVars,
         writeVars, InstalledFacts, CandidateFacts, PastFacts
<1>30. ASSUME NEW x \in Contents, Edit(x) PROVE InstalledFacts'
  BY <1>30, <1>0, <1>a, <1>b, <1>c
     DEF Edit, journal, procVars, tickVars, writeVars, switchVars, InstalledFacts,
         CandidateFacts, PastFacts
<1>31. ASSUME NEW p \in Procs, Tick(p) \/ Writer(p) \/ Environment(p) PROVE InstalledFacts'
  BY <1>1, <1>2, <1>3, <1>4, <1>5, <1>6, <1>7, <1>8, <1>9, <1>10, <1>11, <1>12, <1>13,
     <1>14, <1>15, <1>16, <1>17, <1>31 DEF Tick, Writer, Environment
<1>32. ASSUME NEW s \in Switches, Switch(s) \/ Commit(s, FALSE) \/ Abort(s, FALSE) PROVE InstalledFacts'
  BY <1>18, <1>19, <1>20, <1>21, <1>22, <1>23, <1>24, <1>25, <1>26, <1>27, <1>28, <1>32
     DEF Switch
<1> QED
  BY <1>29, <1>30, <1>31, <1>32 DEF Next

\* The active collection and the compared ones hold what they should.
LEMMA ContentNext ==
    ASSUME TypeOK, LockFacts, WritesFenced, PastFacts, ContentFacts, Next
    PROVE  ContentFacts'
<1>0. /\ step \in [Switches -> {"new", "abort", "lost", "end"} \cup Early \cup Locked]
      /\ physical \in [Switches -> Collections] /\ stored \in [Collections -> Contents \cup {Mixed}]
      /\ base \in [Switches -> Contents] /\ expected \in [Switches -> Generations]
      /\ active \in Generations /\ corpus \in Contents
  BY DEF TypeOK
<1>a. /\ write \in [Procs -> {"idle", "client", "locked", "writing", "written", "applied"}]
      /\ text \in [Procs -> 0..MaxEdits] /\ edits \in 0..MaxEdits /\ MaxEdits \in Nat
      /\ target \in [Procs -> Generations] /\ FirstCollection \in Collections
  BY BoundsAssumption, CollectionAssumption DEF TypeOK
<1>b. First \notin Switches
  BY NamesAssumption
<1>1. ASSUME NEW p \in Procs, ReadJournal(p) PROVE ContentFacts'
  BY <1>1, <1>0, <1>a, <1>b
     DEF ReadJournal, journal, tickFrame, rowVars, writeVars, switchVars, ContentFacts,
         Compared, CollectionOf, Published, Early, Locked
<1>2. ASSUME NEW p \in Procs, NEW b \in BOOLEAN, Apply(p, b) PROVE ContentFacts'
  BY <1>2, <1>0, <1>a, <1>b
     DEF Apply, Preparing, Faulty, Recover, Row, Rest, journal, tickFrame, Fine, NoJournal,
         rowVars, writeVars, switchVars, BothRoles, Blank, ContentFacts, Compared,
         CollectionOf, Published, Early, Locked
<1>3. ASSUME NEW p \in Procs, FinishCommit(p) PROVE ContentFacts'
  BY <1>3, <1>0, <1>a, <1>b
     DEF FinishCommit, Rest, tickFrame, NoJournal, rowVars, writeVars, switchVars, Blank,
         ContentFacts, Compared, CollectionOf, Published, Early, Locked
<1>4. ASSUME NEW p \in Procs, FailOrphan(p) PROVE ContentFacts'
  BY <1>4, <1>0, <1>a, <1>b
     DEF FailOrphan, FailPrepare, Rest, tickFrame, NoJournal, rowVars, writeVars,
         switchVars, Blank, ContentFacts, Compared, CollectionOf, Published, Early, Locked
<1>5. ASSUME NEW p \in Procs, TakeClient(p) PROVE ContentFacts'
  BY <1>5, <1>0, <1>a, <1>b
     DEF TakeClient, Unfinished, WriteStep, writeFrame, journal, procVars, tickVars,
         switchVars, ContentFacts, Compared, CollectionOf, Published, Early, Locked
<1>6. ASSUME NEW p \in Procs, LockShared(p) PROVE ContentFacts'
  BY <1>6, <1>0, <1>a, <1>b
     DEF LockShared, WriteStep, writeFrame, journal, procVars, tickVars, switchVars,
         ContentFacts, Compared, CollectionOf, Published, Early, Locked
<1>7. ASSUME NEW p \in Procs, Admit(p) PROVE ContentFacts'
  BY <1>7, <1>0, <1>a, <1>b
     DEF Admit, Open, WriteStep, writeFrame, journal, procVars, tickVars, switchVars,
         ContentFacts, Compared, CollectionOf, Published, Early, Locked
<1>8. ASSUME NEW p \in Procs, Reject(p) PROVE ContentFacts'
  BY <1>8, <1>0, <1>a, <1>b
     DEF Reject, Open, WriteEnds, writeFrame, journal, procVars, tickVars, switchVars,
         ContentFacts, Compared, CollectionOf, Published, Early, Locked
<1>9. ASSUME NEW p \in Procs, Write(p) PROVE ContentFacts'
  <2> DEFINE c == CollectionOf(active)
  <2>1. target[p] = active /\ c \in Collections
    BY <1>9, <1>0, <1>a DEF Write, WritesFenced, CollectionOf, Generations
  <2>2. stored[c] \in since \cup {corpus}
    BY DEF ContentFacts
  <2>3. stored' = [stored EXCEPT ![c] = corpus]
    BY <1>9, <2>1, <2>2 DEF Write
  <2>4. /\ UNCHANGED <<corpus, since, edits, base, physical, step, active, expected>>
        /\ text' = [text EXCEPT ![p] = edits] /\ write' = [write EXCEPT ![p] = "written"]
    BY <1>9 DEF Write, WriteStep, writeFrame, journal, switchVars
  <2>5. CollectionOf(active)' = c
    BY <2>4 DEF CollectionOf
  <2> HIDE DEF c
  <2>6. stored'[c] = corpus
    BY <1>0, <2>1, <2>3
  <2>7. \A q \in Procs : write'[q] \in {"written", "applied"} => text'[q] <= edits
    BY <1>a, <2>4 DEF ContentFacts
  <2>8. ASSUME NEW s \in Switches, step[s] \in {"lock", "recheck", "begin", "wait", "commit"},
               active = expected[s]
        PROVE  stored'[physical[s]] = base[s] \/ physical[s] = c
    <3>1. stored[physical[s]] = base[s] \/ physical[s] = c
      BY <2>8 DEF ContentFacts, Compared, c
    <3> QED
      BY <1>0, <2>3, <3>1
  <2> QED
    BY <2>4, <2>5, <2>6, <2>7, <2>8 DEF ContentFacts, Compared
<1>10. ASSUME NEW p \in Procs, Unlock(p) PROVE ContentFacts'
  BY <1>10, <1>0, <1>a, <1>b
     DEF Unlock, WriteStep, writeFrame, journal, procVars, tickVars, switchVars,
         ContentFacts, Compared, CollectionOf, Published, Early, Locked
<1>11. ASSUME NEW p \in Procs, MarkDone(p) PROVE ContentFacts'
  BY <1>11, <1>0, <1>a, <1>b
     DEF MarkDone, WriteEnds, writeFrame, journal, procVars, tickVars, switchVars,
         ContentFacts, Compared, CollectionOf, Published, Early, Locked
<1>12. ASSUME NEW p \in Procs, Start(p) PROVE ContentFacts'
  BY <1>12, <1>0, <1>a, <1>b
     DEF Start, journal, rowVars, tickVars, writeVars, switchVars, ContentFacts, Compared,
         CollectionOf, Published, Early, Locked
<1>13. ASSUME NEW p \in Procs, Expire(p) PROVE ContentFacts'
  BY <1>13, <1>0, <1>a, <1>b
     DEF Expire, Faulty, NoRow, journal, rowVars, procVars, tickVars, writeVars, switchVars,
         ContentFacts, Compared, CollectionOf, Published, Early, Locked
<1>14. ASSUME NEW p \in Procs, NEW b \in BOOLEAN, End(p, b) PROVE ContentFacts'
  BY <1>14, <1>0, <1>a, <1>b
     DEF End, Faulty, NoRow, Rest, WriteEnds, Blank, journal, rowVars, NoJournal,
         ContentFacts, Compared, CollectionOf, Published, Early, Locked
<1>15. ASSUME NEW p \in Procs, TickFails(p) PROVE ContentFacts'
  BY <1>15, <1>0, <1>a, <1>b
     DEF TickFails, Faulty, Rest, journal, tickFrame, NoJournal, rowVars, writeVars,
         switchVars, Blank, ContentFacts, Compared, CollectionOf, Published, Early, Locked
<1>16. ASSUME NEW p \in Procs, WriteFails(p) PROVE ContentFacts'
  BY <1>16, <1>0, <1>a, <1>b
     DEF WriteFails, Faulty, WriteEnds, writeFrame, journal, procVars, tickVars, switchVars,
         ContentFacts, Compared, CollectionOf, Published, Early, Locked
<1>17. ASSUME NEW p \in Procs, NEW g \in Generations, ApplyFails(p, g) PROVE ContentFacts'
  BY <1>17, <1>0, <1>a, <1>b
     DEF ApplyFails, Row, Behind, Preparing, Faulty, Rest, Recover, journal, tickFrame,
         NoJournal, Fine, rowVars, writeVars, switchVars, Blank, BothRoles, ContentFacts,
         Compared, CollectionOf, Published, Early, Locked
<1>18. ASSUME NEW s \in Switches, Survey(s) PROVE ContentFacts'
  BY <1>18, <1>0, <1>a, <1>b
     DEF Survey, Live, Check, Fine, journal, switchFrame, Goto, BothRoles, rowVars,
         procVars, tickVars, writeVars, ContentFacts, Compared, CollectionOf, Published,
         Early, Locked
<1>19. ASSUME NEW s \in Switches, Inputs(s) PROVE ContentFacts'
  BY <1>19, <1>0, <1>a, <1>b
     DEF Inputs, Check, Unfinished, journal, switchFrame, Goto, rowVars, procVars, tickVars,
         writeVars, ContentFacts, Compared, CollectionOf, Published, Early, Locked
<1>20. ASSUME NEW s \in Switches, Validate(s) PROVE ContentFacts'
  BY <1>20, <1>0, <1>a, <1>b
     DEF Validate, Check, journal, stepFrame, Goto, switchFrame, rowVars, procVars,
         tickVars, writeVars, PastFacts, LockFacts, ContentFacts, Compared, CollectionOf,
         Published, Early, Locked
<1>21. ASSUME NEW s \in Switches, Lock(s) PROVE ContentFacts'
  BY <1>21, <1>0, <1>a, <1>b
     DEF Lock, Sharing, Goto, journal, stepFrame, switchFrame, rowVars, procVars, tickVars,
         writeVars, PastFacts, LockFacts, ContentFacts, Compared, CollectionOf, Published,
         Early, Locked
<1>22. ASSUME NEW s \in Switches, Recheck(s) PROVE ContentFacts'
  BY <1>22, <1>0, <1>a, <1>b
     DEF Recheck, Check, Open, journal, stepFrame, Goto, switchFrame, rowVars, procVars,
         tickVars, writeVars, PastFacts, LockFacts, ContentFacts, Compared, CollectionOf,
         Published, Early, Locked
<1>23. ASSUME NEW s \in Switches, BeginPrepare(s) PROVE ContentFacts'
  BY <1>23, <1>0, <1>a, <1>b
     DEF BeginPrepare, Goto, stepFrame, switchFrame, rowVars, procVars, tickVars, writeVars,
         PastFacts, LockFacts, ContentFacts, Compared, CollectionOf, Published, Early,
         Locked
<1>24. ASSUME NEW s \in Switches, Prepared(s) PROVE ContentFacts'
  BY <1>24, <1>0, <1>a, <1>b
     DEF Prepared, Goto, journal, stepFrame, switchFrame, rowVars, procVars, tickVars,
         writeVars, PastFacts, LockFacts, ContentFacts, Compared, CollectionOf, Published,
         Early, Locked
<1>25. ASSUME NEW s \in Switches, NEW b \in BOOLEAN, Commit(s, b) PROVE ContentFacts'
  BY <1>25, <1>0, <1>a, <1>b
     DEF Commit, Unfinished, Faulty, Goto, stepFrame, switchFrame, rowVars, procVars,
         tickVars, writeVars, PastFacts, LockFacts, ContentFacts, Compared, CollectionOf,
         Published, Early, Locked
<1>26. ASSUME NEW s \in Switches, Cancel(s) PROVE ContentFacts'
  BY <1>26, <1>0, <1>a, <1>b
     DEF Cancel, Abortable, Goto, journal, stepFrame, Early, Locked, switchFrame, rowVars,
         procVars, tickVars, writeVars, ContentFacts, Compared, CollectionOf, Published
<1>27. ASSUME NEW s \in Switches, NEW b \in BOOLEAN, Abort(s, b) PROVE ContentFacts'
  BY <1>27, <1>0, <1>a, <1>b
     DEF Abort, Faulty, FailPrepare, journal, Goto, Forget, switchFrame, Blank, rowVars,
         procVars, tickVars, writeVars, ContentFacts, Compared, CollectionOf, Published,
         Early, Locked
<1>28. ASSUME NEW s \in Switches, Leave(s) PROVE ContentFacts'
  BY <1>28, <1>0, <1>a, <1>b
     DEF Leave, Goto, Forget, journal, switchFrame, Blank, rowVars, procVars, tickVars,
         writeVars, ContentFacts, Compared, CollectionOf, Published, Early, Locked
<1>29. ASSUME NEW s \in Switches, NEW p \in Procs, NEW k \in Collections, NEW b \in BOOLEAN,
             Request(s, p, k, b)
      PROVE ContentFacts'
  BY <1>29, <1>0, <1>a, <1>b
     DEF Request, Check, Open, journal, switchFrame, Goto, rowVars, procVars, tickVars,
         writeVars, PastFacts, LockFacts, ContentFacts, Compared, CollectionOf, Published,
         Early, Locked
<1>30. ASSUME NEW x \in Contents, Edit(x) PROVE ContentFacts'
  BY <1>30, <1>0, <1>a, <1>b
     DEF Edit, journal, procVars, tickVars, writeVars, switchVars, ContentFacts, Compared,
         CollectionOf, Published, Early, Locked
<1>31. ASSUME NEW p \in Procs, Tick(p) \/ Writer(p) \/ Environment(p) PROVE ContentFacts'
  BY <1>1, <1>2, <1>3, <1>4, <1>5, <1>6, <1>7, <1>8, <1>9, <1>10, <1>11, <1>12, <1>13,
     <1>14, <1>15, <1>16, <1>17, <1>31 DEF Tick, Writer, Environment
<1>32. ASSUME NEW s \in Switches, Switch(s) \/ Commit(s, FALSE) \/ Abort(s, FALSE) PROVE ContentFacts'
  BY <1>18, <1>19, <1>20, <1>21, <1>22, <1>23, <1>24, <1>25, <1>26, <1>27, <1>28, <1>32
     DEF Switch
<1> QED
  BY <1>29, <1>30, <1>31, <1>32 DEF Next

\* Only finish_commit ends the phase of a commit.
LEMMA CommittingEnded ==
    ASSUME TypeOK, LockFacts, phase = "committing", phase' # "committing", Next
    PROVE  \E p \in Procs : FinishCommit(p)
<1>1. ASSUME NEW p \in Procs, ReadJournal(p) PROVE \E q \in Procs : FinishCommit(q)
  BY <1>1
     DEF ReadJournal, journal, tickFrame, rowVars, writeVars, switchVars
<1>2. ASSUME NEW p \in Procs, NEW b \in BOOLEAN, Apply(p, b)
      PROVE \E q \in Procs : FinishCommit(q)
  BY <1>2
     DEF Apply, Preparing, Faulty, Recover, Row, Rest, journal, tickFrame, Fine, NoJournal,
         rowVars, writeVars, switchVars, BothRoles, Blank
<1>3. ASSUME NEW p \in Procs, FinishCommit(p) PROVE \E q \in Procs : FinishCommit(q)
  BY <1>3
<1>4. ASSUME NEW p \in Procs, FailOrphan(p) PROVE \E q \in Procs : FinishCommit(q)
  BY <1>4
     DEF FailOrphan, FailPrepare, Rest, tickFrame, NoJournal, rowVars, writeVars,
         switchVars, Blank
<1>5. ASSUME NEW p \in Procs, TakeClient(p) PROVE \E q \in Procs : FinishCommit(q)
  BY <1>5
     DEF TakeClient, Unfinished, WriteStep, writeFrame, journal, procVars, tickVars,
         switchVars
<1>6. ASSUME NEW p \in Procs, LockShared(p) PROVE \E q \in Procs : FinishCommit(q)
  BY <1>6
     DEF LockShared, WriteStep, writeFrame, journal, procVars, tickVars, switchVars
<1>7. ASSUME NEW p \in Procs, Admit(p) PROVE \E q \in Procs : FinishCommit(q)
  BY <1>7
     DEF Admit, Open, WriteStep, writeFrame, journal, procVars, tickVars, switchVars
<1>8. ASSUME NEW p \in Procs, Reject(p) PROVE \E q \in Procs : FinishCommit(q)
  BY <1>8
     DEF Reject, Open, WriteEnds, writeFrame, journal, procVars, tickVars, switchVars
<1>9. ASSUME NEW p \in Procs, Write(p) PROVE \E q \in Procs : FinishCommit(q)
  BY <1>9
     DEF Write, CollectionOf, WriteStep, writeFrame, journal, procVars, tickVars, switchVars
<1>10. ASSUME NEW p \in Procs, Unlock(p) PROVE \E q \in Procs : FinishCommit(q)
  BY <1>10
     DEF Unlock, WriteStep, writeFrame, journal, procVars, tickVars, switchVars
<1>11. ASSUME NEW p \in Procs, MarkDone(p) PROVE \E q \in Procs : FinishCommit(q)
  BY <1>11
     DEF MarkDone, WriteEnds, writeFrame, journal, procVars, tickVars, switchVars
<1>12. ASSUME NEW p \in Procs, Start(p) PROVE \E q \in Procs : FinishCommit(q)
  BY <1>12
     DEF Start, journal, rowVars, tickVars, writeVars, switchVars
<1>13. ASSUME NEW p \in Procs, Expire(p) PROVE \E q \in Procs : FinishCommit(q)
  BY <1>13
     DEF Expire, Faulty, NoRow, journal, rowVars, procVars, tickVars, writeVars, switchVars
<1>14. ASSUME NEW p \in Procs, NEW b \in BOOLEAN, End(p, b)
      PROVE \E q \in Procs : FinishCommit(q)
  BY <1>14
     DEF End, Faulty, NoRow, Rest, WriteEnds, Blank, journal, rowVars, NoJournal
<1>15. ASSUME NEW p \in Procs, TickFails(p) PROVE \E q \in Procs : FinishCommit(q)
  BY <1>15
     DEF TickFails, Faulty, Rest, journal, tickFrame, NoJournal, rowVars, writeVars,
         switchVars, Blank
<1>16. ASSUME NEW p \in Procs, WriteFails(p) PROVE \E q \in Procs : FinishCommit(q)
  BY <1>16
     DEF WriteFails, Faulty, WriteEnds, writeFrame, journal, procVars, tickVars, switchVars
<1>17. ASSUME NEW p \in Procs, NEW g \in Generations, ApplyFails(p, g)
      PROVE \E q \in Procs : FinishCommit(q)
  BY <1>17
     DEF ApplyFails, Row, Behind, Preparing, Faulty, Rest, Recover, journal, tickFrame,
         NoJournal, Fine, rowVars, writeVars, switchVars, Blank, BothRoles
<1>18. ASSUME NEW s \in Switches, Survey(s) PROVE \E q \in Procs : FinishCommit(q)
  BY <1>18
     DEF Survey, Live, Check, Fine, journal, switchFrame, Goto, BothRoles, rowVars,
         procVars, tickVars, writeVars
<1>19. ASSUME NEW s \in Switches, Inputs(s) PROVE \E q \in Procs : FinishCommit(q)
  BY <1>19
     DEF Inputs, Check, Unfinished, journal, switchFrame, Goto, rowVars, procVars, tickVars,
         writeVars
<1>20. ASSUME NEW s \in Switches, Validate(s) PROVE \E q \in Procs : FinishCommit(q)
  BY <1>20
     DEF Validate, Check, journal, stepFrame, Goto, switchFrame, rowVars, procVars,
         tickVars, writeVars
<1>21. ASSUME NEW s \in Switches, Lock(s) PROVE \E q \in Procs : FinishCommit(q)
  BY <1>21
     DEF Lock, Sharing, Goto, journal, stepFrame, switchFrame, rowVars, procVars, tickVars,
         writeVars
<1>22. ASSUME NEW s \in Switches, Recheck(s) PROVE \E q \in Procs : FinishCommit(q)
  BY <1>22
     DEF Recheck, Check, Open, journal, stepFrame, Goto, switchFrame, rowVars, procVars,
         tickVars, writeVars
<1>23. ASSUME NEW s \in Switches, BeginPrepare(s) PROVE \E q \in Procs : FinishCommit(q)
  BY <1>23
     DEF BeginPrepare, Goto, stepFrame, switchFrame, rowVars, procVars, tickVars, writeVars,
         LockFacts, Open
<1>24. ASSUME NEW s \in Switches, Prepared(s) PROVE \E q \in Procs : FinishCommit(q)
  BY <1>24
     DEF Prepared, Goto, journal, stepFrame, switchFrame, rowVars, procVars, tickVars,
         writeVars
<1>25. ASSUME NEW s \in Switches, NEW b \in BOOLEAN, Commit(s, b)
      PROVE \E q \in Procs : FinishCommit(q)
  BY <1>25
     DEF Commit, Unfinished, Faulty, Goto, stepFrame, switchFrame, rowVars, procVars,
         tickVars, writeVars
<1>26. ASSUME NEW s \in Switches, Cancel(s) PROVE \E q \in Procs : FinishCommit(q)
  BY <1>26
     DEF Cancel, Abortable, Goto, journal, stepFrame, Early, Locked, switchFrame, rowVars,
         procVars, tickVars, writeVars
<1>27. ASSUME NEW s \in Switches, NEW b \in BOOLEAN, Abort(s, b)
      PROVE \E q \in Procs : FinishCommit(q)
  BY <1>27
     DEF Abort, Faulty, FailPrepare, journal, Goto, Forget, switchFrame, Blank, rowVars,
         procVars, tickVars, writeVars
<1>28. ASSUME NEW s \in Switches, Leave(s) PROVE \E q \in Procs : FinishCommit(q)
  BY <1>28
     DEF Leave, Goto, Forget, journal, switchFrame, Blank, rowVars, procVars, tickVars,
         writeVars
<1>29. ASSUME NEW s \in Switches, NEW p \in Procs, NEW k \in Collections, NEW b \in BOOLEAN,
             Request(s, p, k, b)
      PROVE \E q \in Procs : FinishCommit(q)
  BY <1>29
     DEF Request, Check, Open, journal, switchFrame, Goto, rowVars, procVars, tickVars,
         writeVars
<1>30. ASSUME NEW x \in Contents, Edit(x) PROVE \E q \in Procs : FinishCommit(q)
  BY <1>30
     DEF Edit, journal, procVars, tickVars, writeVars, switchVars
<1>31. ASSUME NEW p \in Procs, Tick(p) \/ Writer(p) \/ Environment(p)
      PROVE  \E q \in Procs : FinishCommit(q)
  BY <1>1, <1>2, <1>3, <1>4, <1>5, <1>6, <1>7, <1>8, <1>9, <1>10, <1>11, <1>12, <1>13,
     <1>14, <1>15, <1>16, <1>17, <1>31 DEF Tick, Writer, Environment
<1>32. ASSUME NEW s \in Switches, Switch(s) \/ Commit(s, FALSE) \/ Abort(s, FALSE)
      PROVE  \E q \in Procs : FinishCommit(q)
  BY <1>18, <1>19, <1>20, <1>21, <1>22, <1>23, <1>24, <1>25, <1>26, <1>27, <1>28, <1>32
     DEF Switch
<1> QED
  BY <1>29, <1>30, <1>31, <1>32 DEF Next

-----------------------------------------------------------------------------
(* The invariant and its consequences. *)

\* The initial state satisfies the invariant.
LEMMA InitInv ==
    ASSUME Init
    PROVE  IInv
<1> USE RoleAssumption, CollectionAssumption, BoundsAssumption, NamesAssumption, BlankIsContent
<1>1. TypeOK
  BY DEF Init, TypeOK, Phases, Generations, Early, Locked, NoRow, Serving, NoJournal
<1>2. LockFacts /\ WritesFenced
  BY DEF Init, LockFacts, WritesFenced, Locked
<1>3. PastFacts
  BY DEF Init, PastFacts, Published, NoRow, Serving, NoJournal
<1>4. ContentFacts
  BY DEF Init, ContentFacts, CollectionOf
<1>5. CandidateFacts
  BY DEF Init, CandidateFacts, NoJournal
<1>6. InstalledFacts
  BY DEF Init, InstalledFacts
<1> QED
  BY <1>1, <1>2, <1>3, <1>4, <1>5, <1>6 DEF IInv

\* Every step keeps the invariant.
LEMMA InvNext ==
    ASSUME IInv, [Next]_vars
    PROVE  IInv'
<1>1. CASE Next
  BY <1>1, TypeNext, LockNext, FencedNext, PastNext, ContentNext, CandidateNext, InstalledNext
     DEF IInv
<1>2. CASE UNCHANGED vars
  <2>1. TypeOK'
    BY <1>2 DEF IInv, vars, TypeOK
  <2>2. LockFacts' /\ WritesFenced'
    BY <1>2 DEF IInv, vars, LockFacts, WritesFenced, Sharing, Open
  <2>3. PastFacts' /\ CandidateFacts' /\ InstalledFacts'
    BY <1>2 DEF IInv, vars, PastFacts, CandidateFacts, InstalledFacts, Published
  <2>4. ContentFacts'
    BY <1>2 DEF IInv, vars, ContentFacts, Compared, CollectionOf
  <2> QED
    BY <2>1, <2>2, <2>3, <2>4 DEF IInv
<1> QED
  BY <1>1, <1>2

\* The invariant holds in every reachable state, for any numbers of processes, switches
\* and collections.
THEOREM Invariant == Spec => []IInv
<1> QED
  BY InitInv, InvNext, PTL DEF Spec

\* Every variable stays in its domain.
THEOREM CorpusTypeCorrect == Spec => []TypeOK
<1>1. IInv => TypeOK
  BY DEF IInv
<1> QED
  BY <1>1, Invariant, PTL

\* No write to Qdrant crosses a switch.
THEOREM Fenced == Spec => []WritesFenced
<1>1. IInv => WritesFenced
  BY DEF IInv
<1> QED
  BY <1>1, Invariant, PTL

\* The active collection holds the corpus whenever the outbox has nothing to do.
THEOREM CorpusIsServed == Spec => []ActiveHoldsCorpus
<1>1. IInv => ActiveHoldsCorpus
  BY DEF IInv, ContentFacts, ActiveHoldsCorpus, Unfinished
<1> QED
  BY <1>1, Invariant, PTL

\* Nobody serves a generation before its commit.
THEOREM ServedIsCommitted == Spec => []ServedIsPublished
<1>1. IInv => ServedIsPublished
  BY DEF IInv, PastFacts, CandidateFacts, ServedIsPublished
<1> QED
  BY <1>1, Invariant, PTL

\* A commit ends when an API process and a worker have installed its generation.
THEOREM ReopenedByBothRoles == Spec => InstalledByBothRoles
<1>1. ASSUME IInv, [Next]_vars, phase = "committing", phase' # "committing"
      PROVE  {Role[p] : p \in {q \in Procs : installed[q] = active}} = {"api", "worker"}
  <2>1. PICK p \in Procs : FinishCommit(p) /\ phase' # phase
    <3>1. Next
      BY <1>1 DEF vars
    <3> QED
      BY <1>1, <3>1, CommittingEnded DEF IInv
  <2>2. tick[p] = "finish" /\ active = seen[p].candidate
    BY <2>1 DEF FinishCommit
  <2>3. \A r \in {"api", "worker"} : \E q \in Procs : Role[q] = r /\ installed[q] = active
    BY <1>1, <2>2 DEF IInv, InstalledFacts
  <2>4. \A q \in Procs : Role[q] \in {"api", "worker"}
    BY RoleAssumption
  <2> QED
    BY <2>3, <2>4
<1> QED
  BY <1>1, Invariant, PTL DEF Spec, InstalledByBothRoles
-----------------------------------------------------------------------------
(* The refinement. *)

\* The generations that are being written to, as the register sees them.
Inside == [p \in Procs |-> IF write[p] = "writing" THEN target[p] ELSE Nobody]

\* What the register sees does not change.
Unseen == active' = active /\ Open' = Open /\ Inside' = Inside

\* Every step is one of the register, or is not seen by it.
LEMMA StepRefines ==
    ASSUME IInv, Next
    PROVE  Unseen \/ Register!Next
<1>0. /\ write \in [Procs -> {"idle", "client", "locked", "writing", "written", "applied"}]
      /\ target \in [Procs -> Generations] /\ phase \in Phases
  BY DEF IInv, TypeOK
<1>a. \A p \in Procs : write[p] = "writing" => Open /\ target[p] = active
  BY DEF IInv, WritesFenced
<1>1. ASSUME NEW p \in Procs, ReadJournal(p) PROVE Unseen \/ Register!Next
  BY <1>1, <1>0
     DEF ReadJournal, journal, tickFrame, rowVars, writeVars, switchVars, Inside, Unseen,
         Open
<1>2. ASSUME NEW p \in Procs, NEW b \in BOOLEAN, Apply(p, b) PROVE Unseen \/ Register!Next
  BY <1>2, <1>0
     DEF Apply, Preparing, Faulty, Recover, Row, Rest, journal, tickFrame, Fine, NoJournal,
         rowVars, writeVars, switchVars, BothRoles, Blank, Inside, Unseen, Open
<1>3. ASSUME NEW p \in Procs, FinishCommit(p) PROVE Unseen \/ Register!Next
  <2>1. phase = "committing" => ~Open
    BY DEF Open
  <2>2. active' = active /\ Inside' = Inside
    BY <1>3 DEF FinishCommit, tickFrame, writeVars, Inside
  <2>3. Open' = Open \/ (~Open /\ Open')
    BY <1>3, <2>1 DEF FinishCommit, Open
  <2> QED
    BY <2>2, <2>3 DEF Unseen, Register!Next, Register!Open, Inside
<1>4. ASSUME NEW p \in Procs, FailOrphan(p) PROVE Unseen \/ Register!Next
  <2>1. active' = active /\ Inside' = Inside
    BY <1>4 DEF FailOrphan, FailPrepare, tickFrame, writeVars, Inside
  <2>2. Open' = Open \/ (~Open /\ Open')
    BY <1>4 DEF FailOrphan, FailPrepare, tickFrame, writeVars, Open
  <2> QED
    BY <2>1, <2>2 DEF Unseen, Register!Next, Register!Open, Inside
<1>5. ASSUME NEW p \in Procs, TakeClient(p) PROVE Unseen \/ Register!Next
  BY <1>5, <1>0
     DEF TakeClient, Unfinished, WriteStep, writeFrame, journal, procVars, tickVars,
         switchVars, Inside, Unseen, Open
<1>6. ASSUME NEW p \in Procs, LockShared(p) PROVE Unseen \/ Register!Next
  BY <1>6, <1>0
     DEF LockShared, WriteStep, writeFrame, journal, procVars, tickVars, switchVars, Inside,
         Unseen, Open
<1>7. ASSUME NEW p \in Procs, Admit(p) PROVE Unseen \/ Register!Next
  <2>1. Open /\ active' = active /\ Open' = Open
    BY <1>7 DEF Admit, writeFrame, journal, Open
  <2>2. Inside[p] = Nobody /\ Inside' = [Inside EXCEPT ![p] = active]
    BY <1>7, <1>0 DEF Admit, WriteStep, Inside
  <2> QED
    BY <2>1, <2>2 DEF Register!Next, Register!Enter, Inside
<1>8. ASSUME NEW p \in Procs, Reject(p) PROVE Unseen \/ Register!Next
  BY <1>8, <1>0
     DEF Reject, Open, WriteEnds, writeFrame, journal, procVars, tickVars, switchVars,
         Inside, Unseen
<1>9. ASSUME NEW p \in Procs, Write(p) PROVE Unseen \/ Register!Next
  <2>1. active' = active /\ Open' = Open
    BY <1>9 DEF Write, WriteStep, writeFrame, journal, Open
  <2>2. Inside' = [Inside EXCEPT ![p] = Nobody]
    BY <1>9, <1>0 DEF Write, WriteStep, writeFrame, journal, Inside
  <2> QED
    BY <2>1, <2>2 DEF Register!Next, Register!Exit, Inside
<1>10. ASSUME NEW p \in Procs, Unlock(p) PROVE Unseen \/ Register!Next
  BY <1>10, <1>0
     DEF Unlock, WriteStep, writeFrame, journal, procVars, tickVars, switchVars, Inside,
         Unseen, Open
<1>11. ASSUME NEW p \in Procs, MarkDone(p) PROVE Unseen \/ Register!Next
  BY <1>11, <1>0
     DEF MarkDone, WriteEnds, writeFrame, journal, procVars, tickVars, switchVars, Inside,
         Unseen, Open
<1>12. ASSUME NEW p \in Procs, Start(p) PROVE Unseen \/ Register!Next
  BY <1>12, <1>0
     DEF Start, journal, rowVars, tickVars, writeVars, switchVars, Inside, Unseen, Open
<1>13. ASSUME NEW p \in Procs, Expire(p) PROVE Unseen \/ Register!Next
  BY <1>13, <1>0
     DEF Expire, Faulty, NoRow, journal, rowVars, procVars, tickVars, writeVars, switchVars,
         Inside, Unseen, Open
<1>14. ASSUME NEW p \in Procs, NEW b \in BOOLEAN, End(p, b) PROVE Unseen \/ Register!Next
  <2>1. active' = active /\ Open' = Open
    BY <1>14 DEF End, WriteEnds, Rest, journal, Open
  <2>2. Inside' = [Inside EXCEPT ![p] = Nobody]
    BY <1>14, <1>0 DEF End, WriteEnds, Rest, journal, Inside
  <2> QED
    BY <2>1, <2>2 DEF Register!Next, Register!Exit, Inside
<1>15. ASSUME NEW p \in Procs, TickFails(p) PROVE Unseen \/ Register!Next
  BY <1>15, <1>0
     DEF TickFails, Faulty, Rest, journal, tickFrame, NoJournal, rowVars, writeVars,
         switchVars, Blank, Inside, Unseen, Open
<1>16. ASSUME NEW p \in Procs, WriteFails(p) PROVE Unseen \/ Register!Next
  <2>1. active' = active /\ Open' = Open
    BY <1>16 DEF WriteFails, WriteEnds, writeFrame, journal, Open
  <2>2. Inside' = [Inside EXCEPT ![p] = Nobody]
    BY <1>16, <1>0 DEF WriteFails, WriteEnds, writeFrame, journal, Inside
  <2> QED
    BY <2>1, <2>2 DEF Register!Next, Register!Exit, Inside
<1>17. ASSUME NEW p \in Procs, NEW g \in Generations, ApplyFails(p, g)
      PROVE Unseen \/ Register!Next
  BY <1>17, <1>0
     DEF ApplyFails, Row, Behind, Preparing, Faulty, Rest, Recover, journal, tickFrame,
         NoJournal, Fine, rowVars, writeVars, switchVars, Blank, BothRoles, Inside, Unseen,
         Open
<1>18. ASSUME NEW s \in Switches, Survey(s) PROVE Unseen \/ Register!Next
  BY <1>18, <1>0
     DEF Survey, Live, Check, Fine, journal, switchFrame, Goto, BothRoles, rowVars,
         procVars, tickVars, writeVars, Inside, Unseen, Open
<1>19. ASSUME NEW s \in Switches, Inputs(s) PROVE Unseen \/ Register!Next
  BY <1>19, <1>0
     DEF Inputs, Check, Unfinished, journal, switchFrame, Goto, rowVars, procVars, tickVars,
         writeVars, Inside, Unseen, Open
<1>20. ASSUME NEW s \in Switches, Validate(s) PROVE Unseen \/ Register!Next
  BY <1>20, <1>0
     DEF Validate, Check, journal, stepFrame, Goto, switchFrame, rowVars, procVars,
         tickVars, writeVars, Inside, Unseen, Open
<1>21. ASSUME NEW s \in Switches, Lock(s) PROVE Unseen \/ Register!Next
  BY <1>21, <1>0
     DEF Lock, Sharing, Goto, journal, stepFrame, switchFrame, rowVars, procVars, tickVars,
         writeVars, Inside, Unseen, Open
<1>22. ASSUME NEW s \in Switches, Recheck(s) PROVE Unseen \/ Register!Next
  BY <1>22, <1>0
     DEF Recheck, Check, Open, journal, stepFrame, Goto, switchFrame, rowVars, procVars,
         tickVars, writeVars, Inside, Unseen
<1>23. ASSUME NEW s \in Switches, BeginPrepare(s) PROVE Unseen \/ Register!Next
  <2>1. Open /\ ~Open' /\ active' = active
    BY <1>23 DEF BeginPrepare, IInv, LockFacts, Open
  <2>2. xlock = s /\ s # Nobody
    BY <1>23, NamesAssumption DEF BeginPrepare, IInv, LockFacts, Locked
  <2>3. \A p \in Procs : write[p] # "writing"
    BY <2>2 DEF IInv, LockFacts, Sharing
  <2>4. Inside' = Inside /\ \A p \in Procs : Inside[p] = Nobody
    BY <1>23, <2>3 DEF BeginPrepare, stepFrame, switchFrame, writeVars, Inside
  <2> QED
    BY <2>1, <2>4 DEF Register!Next, Register!Close, Inside
<1>24. ASSUME NEW s \in Switches, Prepared(s) PROVE Unseen \/ Register!Next
  BY <1>24, <1>0
     DEF Prepared, Goto, journal, stepFrame, switchFrame, rowVars, procVars, tickVars,
         writeVars, Inside, Unseen, Open
<1>25. ASSUME NEW s \in Switches, NEW b \in BOOLEAN, Commit(s, b)
      PROVE Unseen \/ Register!Next
  <2>1. ~Open /\ Open' = Open /\ active' = s /\ Inside' = Inside
    BY <1>25 DEF Commit, Open, stepFrame, switchFrame, writeVars, Inside
  <2>2. s \notin Published
    BY <1>25, NamesAssumption DEF Commit, Published
  <2>3. s \in Generations /\ s # active
    BY <2>2 DEF IInv, PastFacts, Generations
  <2> QED
    BY <2>1, <2>3 DEF Register!Next, Register!Publish, Inside
<1>26. ASSUME NEW s \in Switches, Cancel(s) PROVE Unseen \/ Register!Next
  BY <1>26, <1>0
     DEF Cancel, Abortable, Goto, journal, stepFrame, Early, Locked, switchFrame, rowVars,
         procVars, tickVars, writeVars, Inside, Unseen, Open
<1>27. ASSUME NEW s \in Switches, NEW b \in BOOLEAN, Abort(s, b)
      PROVE Unseen \/ Register!Next
  <2>1. active' = active /\ Inside' = Inside
    BY <1>27 DEF Abort, FailPrepare, Forget, journal, switchFrame, writeVars, Inside
  <2>2. Open' = Open \/ (~Open /\ Open')
    BY <1>27 DEF Abort, FailPrepare, Forget, journal, switchFrame, writeVars, Open
  <2> QED
    BY <2>1, <2>2 DEF Unseen, Register!Next, Register!Open, Inside
<1>28. ASSUME NEW s \in Switches, Leave(s) PROVE Unseen \/ Register!Next
  BY <1>28, <1>0
     DEF Leave, Goto, Forget, journal, switchFrame, Blank, rowVars, procVars, tickVars,
         writeVars, Inside, Unseen, Open
<1>29. ASSUME NEW s \in Switches, NEW p \in Procs, NEW k \in Collections, NEW b \in BOOLEAN,
             Request(s, p, k, b)
      PROVE Unseen \/ Register!Next
  BY <1>29, <1>0
     DEF Request, Check, Open, journal, switchFrame, Goto, rowVars, procVars, tickVars,
         writeVars, Inside, Unseen
<1>30. ASSUME NEW x \in Contents, Edit(x) PROVE Unseen \/ Register!Next
  BY <1>30, <1>0
     DEF Edit, journal, procVars, tickVars, writeVars, switchVars, Inside, Unseen, Open
<1>31. ASSUME NEW p \in Procs, Tick(p) \/ Writer(p) \/ Environment(p)
      PROVE  Unseen \/ Register!Next
  BY <1>1, <1>2, <1>3, <1>4, <1>5, <1>6, <1>7, <1>8, <1>9, <1>10, <1>11, <1>12, <1>13,
     <1>14, <1>15, <1>16, <1>17, <1>31 DEF Tick, Writer, Environment
<1>32. ASSUME NEW s \in Switches, Switch(s) \/ Commit(s, FALSE) \/ Abort(s, FALSE)
      PROVE  Unseen \/ Register!Next
  BY <1>18, <1>19, <1>20, <1>21, <1>22, <1>23, <1>24, <1>25, <1>26, <1>27, <1>28, <1>32
     DEF Switch
<1> QED
  BY <1>29, <1>30, <1>31, <1>32 DEF Next

\* The journal and the advisory lock implement the gated register.
THEOREM RegisterImplemented == Spec => RegisterRefined
<1>1. Init => Register!Init
  BY DEF Init, Register!Init, Open
<1>2. IInv /\ [Next]_vars => [Register!Next]_(Register!registerVars)
  <2> SUFFICES ASSUME IInv, [Next]_vars PROVE Unseen \/ Register!Next
    BY DEF Unseen, Inside, Register!registerVars
  <2>1. CASE UNCHANGED vars
    BY <2>1 DEF vars, Unseen, Open, Inside
  <2>2. CASE Next
    BY <2>2, StepRefines
  <2> QED
    BY <2>1, <2>2
<1> QED
  BY <1>1, <1>2, Invariant, PTL DEF Spec, RegisterRefined, Register!Spec
============================================================================
