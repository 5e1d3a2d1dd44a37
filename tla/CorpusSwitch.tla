---------------------------- MODULE CorpusSwitch ----------------------------
(***************************************************************************)
(* The switch of the corpus that every process searches and writes to.      *)
(*                                                                          *)
(* corpus_control is a journal of one row: a phase, the active snapshot and *)
(* a candidate.  An API process that switches validates a collection,       *)
(* takes the advisory lock that the writers share, journals the candidate,  *)
(* waits until every serving process has prepared it and commits.  Every    *)
(* process reads the journal in its tick, installs or prepares what it      *)
(* read, sends its heartbeat and then may finish the commit or fail the     *)
(* switch of a dead owner.  Every transaction is one step; what a process   *)
(* computes between two of them belongs to the second.                      *)
(*                                                                          *)
(* A switch is named by the generation it publishes, a fresh uuid, and a    *)
(* restarted process is a new one.  The corpus is abstracted to its content *)
(* as the digest compares it, and the outbox to what the corpus was since it *)
(* last had nothing to do: VectorIndexSync shows how entries are applied.   *)
(***************************************************************************)
EXTENDS Naturals, FiniteSets

CONSTANTS
    Procs,          \* process ids, never reused
    Role,           \* process -> "api" or "worker"
    Late,           \* processes that start later, such as replacements
    Switches,       \* switch requests, and the generations they publish
    First,          \* generation of the deployment
    Collections,    \* physical collections
    FirstCollection,
    Contents,       \* contents of the corpus
    Mixed,          \* a collection that holds the corpus of no moment
    MaxEdits,       \* bound on the edits of the corpus
    MaxFaults,      \* bound on failed calls, stalls and ends of processes
    Nobody          \* no process, no switch, no generation

ASSUME RoleAssumption == Role \in [Procs -> {"api", "worker"}] /\ Late \subseteq Procs
ASSUME CollectionAssumption == FirstCollection \in Collections
ASSUME ContentsAssumption == Contents # {} /\ Mixed \notin Contents
ASSUME BoundsAssumption == MaxEdits \in Nat /\ MaxFaults \in Nat
ASSUME NamesAssumption ==
    First \notin Switches /\ Nobody \notin Procs \cup Switches \cup {First}

VARIABLES
    \* corpus_control
    phase, active, candidate, owner, digest, epoch,
    \* corpus_processes: applied, prepared, error, alive
    row,
    \* the session advisory lock, exclusive; writers[p] tells who shares it
    xlock,
    \* corpus in PostgreSQL, and what it was since the outbox last had nothing to do
    corpus, since, edits,
    \* Qdrant
    stored,
    \* processes
    life, installed, prepared, error,
    tick, seen,         \* step of the tick, and the journal that it read
    write, target, text,\* step of the writer, its generation, the last edit it wrote
    \* switches
    step, by, physical, expected, version, base, required,
    faults

journal == <<phase, active, candidate, owner, digest>>
rowVars == <<corpus, since, edits>>
procVars == <<life, installed, prepared, error>>
tickVars == <<tick, seen>>
writeVars == <<write, target, text>>
switchVars == <<step, by, physical, expected, version, base, required>>
vars == <<phase, active, candidate, owner, digest, epoch, row, xlock, corpus, since,
          edits, stored, life, installed, prepared, error, tick, seen, write, target, text,
          step, by, physical, expected, version, base, required, faults>>

-----------------------------------------------------------------------------
Generations == Switches \cup {First}
Phases == {"active", "failed", "preparing", "committing"}
Open == phase \in {"active", "failed"}

\* Steps of a switch that hold no lock, and that hold it.
Early == {"survey", "inputs", "validate", "lock"}
Locked == {"recheck", "begin", "wait", "commit", "await"}
Abortable == (Early \cup Locked) \ {"await"}

Unfinished == since # {}
CollectionOf(g) == IF g = First THEN FirstCollection ELSE physical[g]
Live == {p \in Procs : row[p].alive}
BothRoles(live) == {Role[p] : p \in live} = {"api", "worker"}
\* The live rows are those of both roles, without errors, and applied g.
Fine(rows, g) ==
    LET live == {p \in Procs : rows[p].alive}
    IN  BothRoles(live) /\ \A p \in live : rows[p].applied = g /\ ~rows[p].error

\* A writer holds the advisory lock, shared, from its acquisition to its release.
Sharing == {p \in Procs : write[p] \in {"locked", "writing", "written"}}

Faulty(bad) ==
    /\ bad => faults < MaxFaults
    /\ faults' = IF bad THEN faults + 1 ELSE faults

NoRow == [applied |-> Nobody, prepared |-> Nobody, error |-> FALSE, alive |-> FALSE]
Serving(g) == [applied |-> g, prepared |-> Nobody, error |-> FALSE, alive |-> TRUE]
Blank == CHOOSE c \in Contents : TRUE
NoJournal == [phase |-> "active", active |-> First, candidate |-> Nobody, owner |-> Nobody,
              digest |-> Blank]

\* The tick of p ends.
Rest(p) ==
    /\ tick' = [tick EXCEPT ![p] = "idle"]
    /\ seen' = [seen EXCEPT ![p] = NoJournal]

\* Mutant: a released client has no generation.
WriteEndsMutant(p) ==
    /\ write' = [write EXCEPT ![p] = "idle"]
    /\ target' = [target EXCEPT ![p] = Nobody]
    /\ text' = [text EXCEPT ![p] = 0]

\* The write of p ends; its client is released.
WriteEnds(p) ==
    /\ write' = [write EXCEPT ![p] = "idle"]
    /\ target' = [target EXCEPT ![p] = First]
    /\ text' = [text EXCEPT ![p] = 0]

TypeOK ==
    /\ phase \in Phases /\ active \in Generations
    /\ candidate \in Switches \cup {Nobody} /\ owner \in Procs \cup {Nobody}
    /\ digest \in Contents /\ epoch \in Nat
    /\ row \in [Procs -> [applied : Generations \cup {Nobody},
                          prepared : Generations \cup {Nobody},
                          error : BOOLEAN, alive : BOOLEAN]]
    /\ xlock \in Switches \cup {Nobody}
    /\ corpus \in Contents /\ since \subseteq Contents /\ edits \in 0..MaxEdits
    /\ stored \in [Collections -> Contents \cup {Mixed}]
    /\ life \in [Procs -> {"new", "up", "dead"}]
    /\ installed \in [Procs -> Generations]
    /\ prepared \in [Procs -> Switches \cup {Nobody}]
    /\ error \in [Procs -> BOOLEAN]
    /\ tick \in [Procs -> {"idle", "apply", "finish", "orphan"}]
    /\ seen \in [Procs -> [phase : Phases, active : Generations,
                           candidate : Switches \cup {Nobody}, owner : Procs \cup {Nobody},
                           digest : Contents]]
    /\ write \in [Procs -> {"idle", "client", "locked", "writing", "written", "applied"}]
    /\ target \in [Procs -> Generations] /\ text \in [Procs -> 0..MaxEdits]
    /\ step \in [Switches -> {"new", "abort", "lost", "end"} \cup Early \cup Locked]
    /\ by \in [Switches -> Procs \cup {Nobody}]
    /\ physical \in [Switches -> Collections]
    /\ expected \in [Switches -> Generations]
    /\ version \in [Switches -> Nat] /\ base \in [Switches -> Contents]
    /\ required \in [Switches -> SUBSET Procs]
    /\ faults \in 0..MaxFaults

\* A deployment whose collection holds the corpus, and its first processes.
Init ==
    /\ phase = "active" /\ active = First /\ candidate = Nobody /\ owner = Nobody
    /\ digest = Blank /\ epoch = 0
    /\ row = [p \in Procs |-> IF p \in Late THEN NoRow ELSE Serving(First)]
    /\ xlock = Nobody
    /\ corpus = Blank /\ since = {} /\ edits = 0
    /\ stored \in [Collections -> Contents] /\ stored[FirstCollection] = Blank
    /\ life = [p \in Procs |-> IF p \in Late THEN "new" ELSE "up"]
    /\ installed = [p \in Procs |-> First]
    /\ prepared = [p \in Procs |-> Nobody] /\ error = [p \in Procs |-> FALSE]
    /\ tick = [p \in Procs |-> "idle"] /\ seen = [p \in Procs |-> NoJournal]
    /\ write = [p \in Procs |-> "idle"] /\ target = [p \in Procs |-> First]
    /\ text = [p \in Procs |-> 0]
    /\ step = [s \in Switches |-> "new"] /\ by = [s \in Switches |-> Nobody]
    /\ physical = [s \in Switches |-> FirstCollection]
    /\ expected = [s \in Switches |-> First] /\ version = [s \in Switches |-> 0]
    /\ base = [s \in Switches |-> Blank] /\ required = [s \in Switches |-> {}]
    /\ faults = 0

-----------------------------------------------------------------------------
(* Processes. *)

\* A process installs the active snapshot of the journal; its first tick registers it.
Start(p) ==
    /\ life[p] = "new"
    /\ life' = [life EXCEPT ![p] = "up"]
    /\ installed' = [installed EXCEPT ![p] = active]
    /\ UNCHANGED <<journal, epoch, row, xlock, rowVars, stored, prepared, error, tickVars,
                   writeVars, switchVars, faults>>

\* A process ends: its connections drop, its switches and its write with it.  A
\* graceful end deletes its row.
End(p, graceful) ==
    LET mine == {s \in Switches : by[s] = p}
        Clear(f, blank) == [s \in Switches |-> IF s \in mine THEN blank ELSE f[s]]
    IN  /\ life[p] = "up"
        /\ Faulty(TRUE)
        /\ life' = [life EXCEPT ![p] = "dead"]
        /\ row' = IF graceful THEN [row EXCEPT ![p] = NoRow] ELSE row
        /\ prepared' = [prepared EXCEPT ![p] = Nobody]
        /\ error' = [error EXCEPT ![p] = FALSE]
        /\ Rest(p)
        /\ WriteEnds(p)
        /\ xlock' = IF xlock \in mine THEN Nobody ELSE xlock
        /\ step' = Clear(step, "end")
        /\ by' = Clear(by, Nobody) /\ expected' = Clear(expected, First)
        /\ version' = Clear(version, 0) /\ base' = Clear(base, Blank)
        /\ required' = Clear(required, {})
        /\ UNCHANGED <<journal, epoch, rowVars, stored, installed, physical>>

\* No heartbeat for fifteen seconds: the process is dead, or it stalls.  Nobody reads
\* such a row until the next heartbeat replaces it.
Expire(p) ==
    /\ row[p].alive
    /\ Faulty(life[p] = "up")
    /\ row' = [row EXCEPT ![p] = NoRow]
    /\ UNCHANGED <<journal, epoch, xlock, rowVars, stored, procVars, tickVars, writeVars, switchVars>>

-----------------------------------------------------------------------------
(* The tick of a process, which runs every two seconds and inside a switch. *)

tickFrame == <<epoch, xlock, rowVars, stored, life, writeVars, switchVars>>

\* Mutant: a candidate is taken for the active snapshot.
ReadJournalMutant(p) ==
    /\ life[p] = "up" /\ tick[p] = "idle"
    /\ tick' = [tick EXCEPT ![p] = "apply"]
    /\ seen' = [seen EXCEPT ![p] = [phase |-> phase,
                                    active |-> IF candidate = Nobody THEN active ELSE candidate,
                                    candidate |-> candidate, owner |-> owner,
                                    digest |-> digest]]
    /\ UNCHANGED <<journal, row, installed, prepared, error, tickFrame, faults>>

ReadJournal(p) ==
    /\ life[p] = "up" /\ tick[p] = "idle"
    /\ tick' = [tick EXCEPT ![p] = "apply"]
    /\ seen' = [seen EXCEPT ![p] = [phase |-> phase, active |-> active,
                                    candidate |-> candidate, owner |-> owner,
                                    digest |-> digest]]
    /\ UNCHANGED <<journal, row, installed, prepared, error, tickFrame, faults>>

Row(client, ready, failed) ==
    [applied |-> client, prepared |-> ready, error |-> failed, alive |-> TRUE]

\* The active snapshot that p read is not the installed one, or an error is to be
\* cleared.
Behind(p) == installed[p] # seen[p].active \/ error[p]
Preparing(p) == seen[p].phase = "preparing"

\* Mutant: whoever sent a heartbeat is taken to have installed the candidate.
RecoverMutant(p, rows) ==
    LET j == seen[p]
        live == {q \in Procs : rows[q].alive}
    IN  /\ row' = rows
        /\ IF j.phase = "committing" /\ BothRoles(live)
             THEN tick' = [tick EXCEPT ![p] = "finish"] /\ UNCHANGED seen
           ELSE IF Preparing(p) /\ j.owner \notin live
             THEN tick' = [tick EXCEPT ![p] = "orphan"] /\ UNCHANGED seen
           ELSE Rest(p)

\* recover reads the participants after the heartbeat of p, and decides with the
\* journal read before.
Recover(p, rows) ==
    LET j == seen[p]
        live == {q \in Procs : rows[q].alive}
    IN  /\ row' = rows
        /\ IF j.phase = "committing" /\ Fine(rows, j.candidate)
             THEN tick' = [tick EXCEPT ![p] = "finish"] /\ UNCHANGED seen
           ELSE IF Preparing(p) /\ j.owner \notin live
             THEN tick' = [tick EXCEPT ![p] = "orphan"] /\ UNCHANGED seen
           ELSE Rest(p)

\* Install the active snapshot, prepare the candidate against the rows of this
\* moment or drop a client prepared for nothing, and send the heartbeat.  monitor
\* keeps the error of a lost heartbeat, a tick inside a switch fails the switch.
Apply(p, sent) ==
    LET j == seen[p]
        kept == installed[p] = j.active /\ prepared[p] = j.candidate
        bad == Preparing(p) /\ ~kept /\ corpus # j.digest
        ready == IF Preparing(p) /\ ~bad THEN j.candidate ELSE Nobody
        shown == IF j.phase = "committing" THEN j.candidate ELSE ready
    IN  /\ tick[p] = "apply"
        /\ Faulty(~sent)
        /\ installed' = [installed EXCEPT ![p] = j.active]
        /\ prepared' = [prepared EXCEPT ![p] = ready]
        /\ \E e \in {bad, bad \/ ~sent} : error' = [error EXCEPT ![p] = e]
        /\ IF sent THEN Recover(p, [row EXCEPT ![p] = Row(j.active, shown, bad)])
                   ELSE Rest(p) /\ UNCHANGED row
        /\ UNCHANGED <<journal, tickFrame>>

\* A client cannot be built or the configuration not be read: the error is sent.  The
\* tick ends when the active snapshot cannot be installed; when only the candidate
\* cannot be prepared, it goes on.
ApplyFails(p, client) ==
    LET j == seen[p]
        kept == installed[p] = j.active /\ prepared[p] = j.candidate
        rows == [row EXCEPT ![p] = Row(client, Nobody, TRUE)]
    IN  /\ tick[p] = "apply"
        /\ Faulty(TRUE)
        /\ client \in {installed[p], j.active}
        /\ installed' = [installed EXCEPT ![p] = client]
        /\ error' = [error EXCEPT ![p] = TRUE]
        /\ \/ /\ Behind(p)
              /\ prepared' = IF installed[p] = j.active THEN prepared
                             ELSE [prepared EXCEPT ![p] = Nobody]
              /\ Rest(p) /\ row' = rows
           \/ /\ Preparing(p) /\ ~kept /\ client = j.active
              /\ prepared' = [prepared EXCEPT ![p] = Nobody]
              /\ Recover(p, rows)
        /\ UNCHANGED <<journal, tickFrame>>

\* A transaction of the tick fails: monitor keeps the error until the next tick.
TickFails(p) ==
    /\ life[p] = "up" /\ tick[p] # "apply"
    /\ Faulty(TRUE)
    /\ \E e \in {error[p], TRUE} : error' = [error EXCEPT ![p] = e]
    /\ Rest(p)
    /\ UNCHANGED <<journal, row, installed, prepared, tickFrame>>

\* Mutant: only the owner of the switch finishes it.
FinishCommitMutant(p) ==
    /\ tick[p] = "finish"
    /\ IF phase = "committing" /\ active = seen[p].candidate /\ owner = p
         THEN phase' = "active" /\ candidate' = Nobody
         ELSE UNCHANGED <<phase, candidate>>
    /\ Rest(p)
    /\ UNCHANGED <<active, owner, digest, row, installed, prepared, error, tickFrame, faults>>

\* finish_commit
FinishCommit(p) ==
    /\ tick[p] = "finish"
    /\ IF phase = "committing" /\ active = seen[p].candidate
         THEN phase' = "active" /\ candidate' = Nobody
         ELSE UNCHANGED <<phase, candidate>>
    /\ Rest(p)
    /\ UNCHANGED <<active, owner, digest, row, installed, prepared, error, tickFrame, faults>>

\* fail_prepare: only the preparation of this owner, and only before its commit.
FailPrepare(o) ==
    /\ IF phase = "preparing" /\ owner = o
         THEN phase' = "failed" /\ candidate' = Nobody
         ELSE UNCHANGED <<phase, candidate>>
    /\ UNCHANGED <<active, owner, digest>>

\* Mutant: a process fails its own preparation instead of the dead owner's.
FailOrphanMutant(p) ==
    /\ tick[p] = "orphan"
    /\ FailPrepare(p)
    /\ Rest(p)
    /\ UNCHANGED <<row, installed, prepared, error, tickFrame, faults>>

\* fail_orphan
FailOrphan(p) ==
    /\ tick[p] = "orphan"
    /\ FailPrepare(seen[p].owner)
    /\ Rest(p)
    /\ UNCHANGED <<row, installed, prepared, error, tickFrame, faults>>

-----------------------------------------------------------------------------
(* Edits, and the writes to Qdrant of the outbox dispatcher. *)

Edit(c) ==
    /\ edits < MaxEdits /\ c # corpus
    /\ edits' = edits + 1
    /\ corpus' = c
    /\ since' = since \cup {corpus}
    /\ UNCHANGED <<journal, epoch, row, xlock, stored, procVars, tickVars, writeVars,
                   switchVars, faults>>

writeFrame == <<journal, row, xlock, edits, procVars, tickVars, switchVars>>
WriteStep(p, s) == write' = [write EXCEPT ![p] = s]

\* The dispatcher runs in the API processes and leases the installed client.
TakeClient(p) ==
    /\ life[p] = "up" /\ Role[p] = "api"
    /\ write[p] = "idle" /\ Unfinished
    /\ target' = [target EXCEPT ![p] = installed[p]]
    /\ WriteStep(p, "client")
    /\ UNCHANGED <<writeFrame, epoch, corpus, since, stored, text, faults>>

LockShared(p) ==
    /\ write[p] = "client" /\ xlock = Nobody
    /\ WriteStep(p, "locked")
    /\ UNCHANGED <<writeFrame, epoch, corpus, since, stored, target, text, faults>>

\* Mutant: the journal is not read again under the lock.
AdmitMutant(p) ==
    /\ write[p] = "locked"
    /\ WriteStep(p, "writing")
    /\ UNCHANGED <<writeFrame, epoch, corpus, since, stored, target, text, faults>>

\* validate_write_admission
Admit(p) ==
    /\ write[p] = "locked" /\ Open /\ active = target[p]
    /\ WriteStep(p, "writing")
    /\ UNCHANGED <<writeFrame, epoch, corpus, since, stored, target, text, faults>>

\* The lock is not free within five seconds, or the write is not admitted.
Reject(p) ==
    /\ \/ write[p] = "client" /\ xlock # Nobody
       \/ write[p] = "locked" /\ ~(Open /\ active = target[p])
    /\ WriteEnds(p)
    /\ UNCHANGED <<writeFrame, epoch, corpus, since, stored, faults>>

\* The entries are applied to a collection that holds what they were edits of, or
\* to one that then agrees with nothing.
Write(p) ==
    /\ write[p] = "writing"
    /\ LET c == CollectionOf(target[p])
       IN  stored' = [stored EXCEPT ![c] = IF @ \in since \cup {corpus} THEN corpus ELSE Mixed]
    /\ text' = [text EXCEPT ![p] = edits]
    /\ WriteStep(p, "written")
    /\ UNCHANGED <<writeFrame, epoch, corpus, since, target, faults>>

\* The epoch counts every admitted write, also one that Qdrant refused.
Unlock(p) ==
    /\ write[p] = "written"
    /\ epoch' = epoch + 1
    /\ WriteStep(p, "applied")
    /\ UNCHANGED <<writeFrame, corpus, since, stored, target, text, faults>>

WriteFails(p) ==
    /\ write[p] = "writing"
    /\ Faulty(TRUE)
    /\ epoch' = epoch + 1
    /\ WriteEnds(p)
    /\ UNCHANGED <<writeFrame, corpus, since, stored>>

\* The entry is done; an edit since the write has an entry of its own.
MarkDone(p) ==
    /\ write[p] = "applied"
    /\ since' = IF edits = text[p] THEN {} ELSE since
    /\ WriteEnds(p)
    /\ UNCHANGED <<writeFrame, epoch, corpus, stored, faults>>

-----------------------------------------------------------------------------
(* A switch: switch(endpoint, collection, expected_generation). *)

switchFrame == <<epoch, row, rowVars, stored, procVars, tickVars, writeVars>>
Goto(s, next) == step' = [step EXCEPT ![s] = next]
Check(s, ok, next) == Goto(s, IF ok THEN next ELSE "abort")

\* The administrator expects the generation of an earlier status, or the journal
\* is not open: refused, unless the journal read here agrees.
Request(s, p, c, fresh) ==
    /\ step[s] = "new" /\ life[p] = "up" /\ Role[p] = "api"
    /\ by' = [by EXCEPT ![s] = p]
    /\ physical' = [physical EXCEPT ![s] = c]
    /\ expected' = [expected EXCEPT ![s] = active]
    /\ version' = [version EXCEPT ![s] = epoch]
    /\ Check(s, Open /\ fresh, "survey")
    /\ UNCHANGED <<journal, switchFrame, xlock, base, required, faults>>

Survey(s) ==
    /\ step[s] = "survey"
    /\ required' = [required EXCEPT ![s] = Live]
    /\ Check(s, Fine(row, expected[s]), "inputs")
    /\ UNCHANGED <<journal, switchFrame, xlock, by, physical, expected, version, base, faults>>

\* switch_inputs
Inputs(s) ==
    /\ step[s] = "inputs"
    /\ base' = [base EXCEPT ![s] = corpus]
    /\ Check(s, ~Unfinished, "validate")
    /\ UNCHANGED <<journal, switchFrame, xlock, by, physical, expected, version, required, faults>>

stepFrame == <<switchFrame, by, physical, expected, version, base, required>>

\* validate_corpus scrolls the candidate and compares it with the rows.
Validate(s) ==
    /\ step[s] = "validate"
    /\ Check(s, stored[physical[s]] = base[s], "lock")
    /\ UNCHANGED <<journal, stepFrame, xlock, faults>>

\* Mutant: the lock is not waited for.
LockMutant(s) ==
    /\ step[s] = "lock" /\ xlock = Nobody
    /\ xlock' = s
    /\ Goto(s, "recheck")
    /\ UNCHANGED <<journal, stepFrame, faults>>

\* corpus_switch_guard: a writer or another switch makes it wait.
Lock(s) ==
    /\ step[s] = "lock" /\ xlock = Nobody /\ Sharing = {}
    /\ xlock' = s
    /\ Goto(s, "recheck")
    /\ UNCHANGED <<journal, stepFrame, faults>>

\* validate_switch_version
Recheck(s) ==
    /\ step[s] = "recheck"
    /\ Check(s, Open /\ active = expected[s] /\ epoch = version[s], "begin")
    /\ UNCHANGED <<journal, stepFrame, xlock, faults>>

BeginPrepare(s) ==
    /\ step[s] = "begin"
    /\ phase' = "preparing" /\ candidate' = s /\ digest' = base[s] /\ owner' = by[s]
    /\ Goto(s, "wait")
    /\ UNCHANGED <<active, stepFrame, xlock, faults>>

\* wait_prepared ends well; it fails by Cancel.
Prepared(s) ==
    /\ step[s] = "wait"
    /\ \A p \in required[s] : row[p].alive /\ ~row[p].error /\ row[p].prepared = s
    /\ Goto(s, "commit")
    /\ UNCHANGED <<journal, stepFrame, xlock, faults>>

\* commit_switch, with the tables locked.  Its answer may be lost.
Commit(s, known) ==
    /\ step[s] = "commit"
    /\ phase = "preparing" /\ owner = by[s] /\ candidate = s
    /\ ~Unfinished /\ corpus = base[s]
    /\ Faulty(~known)
    /\ phase' = "committing" /\ active' = candidate
    /\ Goto(s, IF known THEN "await" ELSE "abort")
    /\ UNCHANGED <<candidate, owner, digest, stepFrame, xlock>>

\* A check fails, a call fails, a wait times out or the request is cancelled.
Cancel(s) ==
    /\ step[s] \in Abortable
    /\ Goto(s, "abort")
    /\ UNCHANGED <<journal, stepFrame, xlock, faults>>

\* The request is over: its connection closes.
Forget(s) ==
    /\ by' = [by EXCEPT ![s] = Nobody]
    /\ expected' = [expected EXCEPT ![s] = First]
    /\ version' = [version EXCEPT ![s] = 0]
    /\ base' = [base EXCEPT ![s] = Blank]
    /\ required' = [required EXCEPT ![s] = {}]
    /\ xlock' = IF xlock = s THEN Nobody ELSE xlock

\* Every exception before the commit fails the preparation of this process.
Abort(s, recorded) ==
    /\ step[s] = "abort"
    /\ Faulty(~recorded)
    /\ IF recorded THEN FailPrepare(by[s]) ELSE UNCHANGED journal
    /\ Goto(s, IF recorded THEN "end" ELSE "lost")
    /\ Forget(s)
    /\ UNCHANGED <<switchFrame, physical>>

\* The caller sees the phase active, or gives up waiting for it.
Leave(s) ==
    /\ step[s] = "await"
    /\ Goto(s, "end")
    /\ Forget(s)
    /\ UNCHANGED <<journal, switchFrame, physical, faults>>

-----------------------------------------------------------------------------
Tick(p) ==
    \/ ReadJournal(p) \/ Apply(p, TRUE) \/ FinishCommit(p) \/ FailOrphan(p)

Writer(p) ==
    \/ TakeClient(p) \/ LockShared(p) \/ Admit(p) \/ Reject(p) \/ Write(p) \/ Unlock(p)
    \/ MarkDone(p)

Switch(s) ==
    \/ Survey(s) \/ Inputs(s) \/ Validate(s) \/ Lock(s) \/ Recheck(s) \/ BeginPrepare(s)
    \/ Prepared(s) \/ Commit(s, TRUE) \/ Cancel(s) \/ Abort(s, TRUE) \/ Leave(s)

Environment(p) ==
    \/ Start(p) \/ Expire(p)
    \/ \E graceful \in BOOLEAN : End(p, graceful)
    \/ Apply(p, FALSE) \/ TickFails(p) \/ WriteFails(p)
    \/ \E g \in Generations : ApplyFails(p, g)

Next ==
    \/ \E p \in Procs : Tick(p) \/ Writer(p) \/ Environment(p)
    \/ \E s \in Switches : Switch(s) \/ Commit(s, FALSE) \/ Abort(s, FALSE)
    \/ \E s \in Switches, p \in Procs, c \in Collections, fresh \in BOOLEAN :
          Request(s, p, c, fresh)
    \/ \E c \in Contents : Edit(c)

Spec == Init /\ [][Next]_vars

\* monitor ticks as long as its process lives, a request ends by its time limits,
\* and the heartbeat of a dead process expires.
Fairness ==
    /\ \A p \in Procs : WF_vars(Tick(p)) /\ WF_vars(life[p] = "dead" /\ Expire(p))
    /\ \A s \in Switches : WF_vars(Switch(s))
FairSpec == Spec /\ Fairness

-----------------------------------------------------------------------------
\* Writes are fenced: while a write to Qdrant is in flight, its generation is the
\* active one and no switch is pending, whoever switches, stalls or dies meanwhile.
WritesFenced ==
    \A p \in Procs : write[p] = "writing" => Open /\ target[p] = active

\* When the outbox has nothing to do, the active collection holds the corpus, also
\* right after a switch to a collection that was compared with older rows.
ActiveHoldsCorpus == ~Unfinished => stored[CollectionOf(active)] = corpus

\* No process serves a candidate whose switch has not committed, or never did.
Published == {First} \cup {s \in Switches : step[s] \in {"await", "abort", "lost", "end"}}
ServedIsPublished ==
    \A p \in Procs : /\ installed[p] \in Published
                     /\ installed[p] = candidate => candidate = active

\* Writes are admitted again after a commit only when an API process and a worker
\* have installed the new generation.
InstalledByBothRoles ==
    [][phase = "committing" /\ phase' # "committing"
          => {Role[p] : p \in {q \in Procs : installed[q] = active}} = {"api", "worker"}]_vars

\* The journal and the advisory lock implement the gated register.
Register == INSTANCE CorpusRegister
    WITH Writers <- Procs,
         open <- Open,
         writing <- [p \in Procs |-> IF write[p] = "writing" THEN target[p] ELSE Nobody]
RegisterRefined == Register!Spec

\* A preparation ends: its switch commits or fails it, or another process does when
\* the owner is dead.  Only a failure that could not be journalled may stay.
PreparingEnds ==
    phase = "preparing" ~> \/ phase # "preparing"
                           \/ \E s \in Switches : step[s] = "lost"
                           \/ \A p \in Procs : life[p] # "up"

\* A committed switch ends while an API process and a worker live.
CommittingEnds ==
    phase = "committing" ~> (phase = "active" \/ ~BothRoles({p \in Procs : life[p] = "up"}))
-----------------------------------------------------------------------------
(* What the safety properties rest on. *)

\* The lock is exclusive, and a switch holds it from its last check to its commit.
LockFacts ==
    /\ \A s \in Switches : step[s] \in Locked => xlock = s
    /\ xlock # Nobody => Sharing = {}
    /\ \A s \in Switches : step[s] = "begin" => Open
    /\ \A s \in Switches : step[s] \in {"begin", "wait", "commit"} => active = expected[s]

\* A generation that is active, expected, installed or reported never is the one of
\* a switch that may still commit.
PastFacts ==
    /\ active \in Published
    /\ \A s \in Switches : expected[s] \in Published
    /\ \A p \in Procs : installed[p] \in Published /\ seen[p].active \in Published
    /\ \A p \in Procs : row[p].applied \in Published \cup {Nobody}

\* A collection that was compared holds the same, or is the active one.
Compared(s) == stored[physical[s]] = base[s] \/ physical[s] = CollectionOf(active)

ContentFacts ==
    /\ stored[CollectionOf(active)] \in since \cup {corpus}
    /\ \A p \in Procs : write[p] \in {"written", "applied"} =>
          /\ text[p] <= edits
          /\ text[p] = edits => stored[CollectionOf(active)] = corpus
    /\ \A s \in Switches :
          step[s] \in {"lock", "recheck", "begin", "wait", "commit"} /\ active = expected[s] => Compared(s)

CandidateFacts ==
    /\ phase = "committing" => active = candidate
    /\ \A p \in Procs : seen[p].phase = "committing" => seen[p].active = seen[p].candidate
    /\ \A p \in Procs : installed[p] = candidate => candidate = active
    /\ \A p \in Procs : seen[p].active = candidate => candidate = active

\* Who has installed the active generation does not go back to an earlier one.
InstalledFacts ==
    /\ \A p \in Procs : life[p] = "new" => tick[p] = "idle"
    /\ \A p \in Procs : tick[p] = "apply" /\ installed[p] = active => seen[p].active = active
    /\ \A p \in Procs : row[p].applied = active => installed[p] = active
    /\ \A p \in Procs : tick[p] = "finish" =>
          /\ seen[p].phase = "committing"
          /\ active = seen[p].candidate =>
                \A r \in {"api", "worker"} :
                   \E q \in Procs : Role[q] = r /\ installed[q] = active

IInv ==
    /\ TypeOK /\ LockFacts /\ WritesFenced
    /\ PastFacts /\ ContentFacts /\ CandidateFacts /\ InstalledFacts
=============================================================================
