----------------------------- MODULE CostBudget -----------------------------
(***************************************************************************)
(* Paid provider calls of worker jobs: PaidAsyncTransport reserves units in   *)
(* PostgreSQL before each HTTP attempt, marks the dispatch, and settles the   *)
(* charge of the response.  A transaction is split at its advisory locks and  *)
(* between its reads and its write.  Jobs are executed by slots of worker     *)
(* processes; a job may be delivered again while an older execution is alive. *)
(***************************************************************************)
EXTENDS Naturals, FiniteSets, FiniteSetsExt

CONSTANTS
    Ops, Principals, Owner, Versions, Price, Limits, Hour, Day, Charges, MaxTime,
    Jobs,           \* cost_operation_id of the enqueued jobs
    OpsOf,          \* job -> its operation ids (uuid5 of the job, request and sequence)
    Slots,          \* executions of jobs, in any number of processes
    Attempts,       \* coroutines of the slots that may call a provider
    SlotOf,         \* attempt -> slot
    Admins,         \* administrators that reconcile pending rows
    Nobody, NoJob, NoOp

ASSUME LedgerAssumption ==
    /\ Owner \in [Ops -> Principals]
    /\ Versions \subseteq Nat \ {0} /\ 1 \in Versions
    /\ Price \in [Versions -> Nat]
    /\ Limits \subseteq [hour : Nat, day : Nat] /\ Limits # {}
    /\ {Hour, Day, MaxTime} \subseteq Nat /\ Hour <= Day
    /\ Charges \subseteq Nat
ASSUME SlotAssumption ==
    /\ SlotOf \in [Attempts -> Slots] /\ OpsOf \in [Jobs -> SUBSET Ops]
    /\ Attempts \cap Admins = {}
ASSUME SentinelAssumption ==
    Nobody \notin Attempts \cup Admins /\ NoJob \notin Jobs /\ NoOp \notin Ops

VARIABLES
    rows, sent, billed, clock, published, policy, offered,
    \* advisory transaction locks
    readers,    \* version -> shared holders of its tariff lock
    writer,     \* version -> exclusive holder
    plock,      \* principal -> holder
    \* job_billing_scope of a slot
    job, used, blocked,
    \* local variables
    pc, op, lim, ver, t0, val, src

L == INSTANCE CostLedger

ledgerVars == <<rows, sent, billed, clock, published, policy, offered>>
lockVars == <<readers, writer, plock>>
slotVars == <<job, used, blocked>>
localVars == <<op, lim, ver, t0, val, src>>
vars == <<ledgerVars, lockVars, slotVars, pc, localVars>>

Actors == Attempts \cup Admins
Slot(a) == SlotOf[a]
Blocked(a) == blocked[Slot(a)]

PcValues == {"idle", "tariff", "principal", "insert", "admitted", "marked", "sent",
             "settle", "settle tariff", "settle row"}
Goto(x, next) == pc' = [pc EXCEPT ![x] = next]

\* The end of a transaction, committed or rolled back, frees its locks.
Release(x) ==
    /\ readers' = [v \in Versions |-> readers[v] \ {x}]
    /\ writer' = [v \in Versions |-> IF writer[v] = x THEN Nobody ELSE writer[v]]
    /\ plock' = [p \in Principals |-> IF plock[p] = x THEN Nobody ELSE plock[p]]

Forget(x) ==
    /\ Goto(x, "idle")
    /\ op' = [op EXCEPT ![x] = NoOp]
    /\ lim' = [lim EXCEPT ![x] = CHOOSE limit \in Limits : TRUE]
    /\ ver' = [ver EXCEPT ![x] = 1]
    /\ t0' = [t0 EXCEPT ![x] = 0]
    /\ val' = [val EXCEPT ![x] = 0]
    /\ src' = [src EXCEPT ![x] = "none"]

-----------------------------------------------------------------------------
(* Jobs. *)

Resting(s) == \A a \in Attempts : SlotOf[a] = s => pc[a] = "idle"

\* A slot takes a job, or the retry of one: a fresh job_billing_scope.
StartJob(s, j) ==
    /\ Resting(s)
    /\ job' = [job EXCEPT ![s] = j]
    /\ used' = [used EXCEPT ![s] = {}]
    /\ blocked' = [blocked EXCEPT ![s] = FALSE]
    /\ UNCHANGED <<ledgerVars, lockVars, pc, localVars>>

\* The process of the slot dies: its connections close, nothing is released.
Crash(s) ==
    LET mine == {a \in Attempts : SlotOf[a] = s}
    IN  /\ ~Resting(s)
        /\ pc' = [x \in Actors |-> IF x \in mine THEN "idle" ELSE pc[x]]
        /\ op' = [x \in Actors |-> IF x \in mine THEN NoOp ELSE op[x]]
        /\ lim' = [x \in Actors |-> IF x \in mine THEN CHOOSE limit \in Limits : TRUE ELSE lim[x]]
        /\ ver' = [x \in Actors |-> IF x \in mine THEN 1 ELSE ver[x]]
        /\ t0' = [x \in Actors |-> IF x \in mine THEN 0 ELSE t0[x]]
        /\ val' = [x \in Actors |-> IF x \in mine THEN 0 ELSE val[x]]
        /\ src' = [x \in Actors |-> IF x \in mine THEN "none" ELSE src[x]]
        /\ readers' = [v \in Versions |-> readers[v] \ mine]
        /\ writer' = [v \in Versions |-> IF writer[v] \in mine THEN Nobody ELSE writer[v]]
        /\ plock' = [p \in Principals |-> IF plock[p] \in mine THEN Nobody ELSE plock[p]]
        /\ UNCHANGED <<ledgerVars, slotVars>>

-----------------------------------------------------------------------------
(* admit_request and PostgresRedisBudget.reserve. *)

\* Mutant: the tariff after the current one.
IdentifyMutant(a, o) ==
    /\ pc[a] = "idle" /\ job[Slot(a)] # NoJob
    /\ o \in OpsOf[job[Slot(a)]] \ used[Slot(a)]
    /\ ~L!Violated(published) /\ ~Blocked(a)
    /\ op' = [op EXCEPT ![a] = o]
    /\ lim' = [lim EXCEPT ![a] = policy]
    /\ ver' = [ver EXCEPT ![a] = published + 1]
    /\ t0' = [t0 EXCEPT ![a] = clock]
    /\ used' = [used EXCEPT ![Slot(a)] = @ \cup {o}]
    /\ Goto(a, "tariff")
    /\ UNCHANGED <<ledgerVars, lockVars, job, blocked, val, src>>

\* The policy in force, the current tariff and the operation id; reserve begins.
\* A request key has one operation id per occurrence in the execution of the job.
Identify(a, o) ==
    /\ pc[a] = "idle" /\ job[Slot(a)] # NoJob
    /\ o \in OpsOf[job[Slot(a)]] \ used[Slot(a)]
    /\ ~L!Violated(published) /\ ~Blocked(a)
    /\ op' = [op EXCEPT ![a] = o]
    /\ lim' = [lim EXCEPT ![a] = policy]
    /\ ver' = [ver EXCEPT ![a] = published]
    /\ t0' = [t0 EXCEPT ![a] = clock]
    /\ used' = [used EXCEPT ![Slot(a)] = @ \cup {o}]
    /\ Goto(a, "tariff")
    /\ UNCHANGED <<ledgerVars, lockVars, job, blocked, val, src>>

\* Mutant: a settlement in progress is not waited for.
LockTariffSharedMutant(a) ==
    /\ pc[a] = "tariff"
    /\ readers' = [readers EXCEPT ![ver[a]] = @ \cup {a}]
    /\ Goto(a, "principal")
    /\ UNCHANGED <<ledgerVars, writer, plock, slotVars, localVars>>

\* Reservations share the lock of the tariff, a settlement excludes them.
LockTariffShared(a) ==
    /\ pc[a] = "tariff"
    /\ writer[ver[a]] = Nobody
    /\ readers' = [readers EXCEPT ![ver[a]] = @ \cup {a}]
    /\ Goto(a, "principal")
    /\ UNCHANGED <<ledgerVars, writer, plock, slotVars, localVars>>

\* Mutant: an existing row is taken over whatever became of its request.
CheckAdmitsMutant(a) ==
    /\ pc[a] = "principal"
    /\ plock[Owner[op[a]]] = Nobody
    /\ ~L!Violated(ver[a])
    /\ L!Fits(Owner[op[a]], ver[a], lim[a], t0[a])
    /\ plock' = [plock EXCEPT ![Owner[op[a]]] = a]
    /\ Goto(a, "insert")
    /\ UNCHANGED <<ledgerVars, readers, writer, slotVars, localVars>>

\* Mutant: the totals are read without the lock of the principal.
CheckAdmitsUnlockedMutant(a) ==
    /\ pc[a] = "principal"
    /\ ~L!Violated(ver[a])
    /\ L!Armable(op[a])
    /\ L!Fits(Owner[op[a]], ver[a], lim[a], t0[a])
    /\ Goto(a, "insert")
    /\ UNCHANGED <<ledgerVars, lockVars, slotVars, localVars>>

\* Under both locks the three queries and the Redis script agree to the reservation.
CheckAdmits(a) ==
    /\ pc[a] = "principal"
    /\ plock[Owner[op[a]]] = Nobody
    /\ ~L!Violated(ver[a])
    /\ L!Armable(op[a])
    /\ L!Fits(Owner[op[a]], ver[a], lim[a], t0[a])
    /\ plock' = [plock EXCEPT ![Owner[op[a]]] = a]
    /\ Goto(a, "insert")
    /\ UNCHANGED <<ledgerVars, readers, writer, slotVars, localVars>>

\* They do not: the request fails, and a row that may have been sent blocks the job.
CheckRefuses(a) ==
    /\ pc[a] = "principal"
    /\ plock[Owner[op[a]]] = Nobody
    /\ \/ (L!Violated(ver[a]) \/ L!Armable(op[a])) /\ UNCHANGED blocked
       \/ ~L!Violated(ver[a]) /\ ~L!Armable(op[a])
            /\ blocked' = [blocked EXCEPT ![Slot(a)] = TRUE]
    /\ L!Violated(ver[a]) \/ ~L!Armable(op[a]) \/ ~L!Fits(Owner[op[a]], ver[a], lim[a], t0[a])
    /\ Forget(a)
    /\ Release(a)
    /\ UNCHANGED <<ledgerVars, job, used>>

\* INSERT or UPDATE, and commit.
Reserve(a) ==
    /\ pc[a] = "insert"
    /\ rows' = L!Armed(op[a], ver[a])
    /\ Release(a)
    /\ Goto(a, "admitted")
    /\ UNCHANGED <<sent, billed, clock, published, policy, offered, slotVars, localVars>>

-----------------------------------------------------------------------------
(* PaidAsyncTransport.handle_async_request after the admission. *)

\* release_before_dispatch: reconcile(0, not_dispatched).
StartRefund(a) ==
    /\ val' = [val EXCEPT ![a] = 0]
    /\ src' = [src EXCEPT ![a] = "not_dispatched"]
    /\ Goto(a, "settle")

\* The job is still allowed to dispatch, and the row is still reserved.
MarkDispatch(a) ==
    /\ pc[a] = "admitted" /\ ~Blocked(a)
    /\ rows[op[a]].state = "reserved"
    /\ rows' = L!Sending(op[a])
    /\ Goto(a, "marked")
    /\ UNCHANGED <<sent, billed, clock, published, policy, offered, lockVars, slotVars, localVars>>

\* A blocked job, a row that is no longer reserved, an error or a cancellation,
\* before or after the mark: the transport has not been called.
GiveUp(a) ==
    /\ pc[a] \in {"admitted", "marked"}
    /\ StartRefund(a)
    /\ UNCHANGED <<ledgerVars, lockVars, slotVars, op, lim, ver, t0>>

Send(a, charge) ==
    /\ pc[a] = "marked" /\ ~Blocked(a)
    /\ sent' = [sent EXCEPT ![op[a]] = @ + 1]
    /\ billed' = [billed EXCEPT ![op[a]] = @ + charge]
    /\ Goto(a, "sent")
    /\ UNCHANGED <<rows, clock, published, policy, offered, lockVars, slotVars, localVars>>

\* The response reports its usage.
Usage(a) ==
    /\ pc[a] = "sent"
    /\ val' = [val EXCEPT ![a] = billed[op[a]]]
    /\ src' = [src EXCEPT ![a] = "provider"]
    /\ Goto(a, "settle")
    /\ UNCHANGED <<ledgerVars, lockVars, slotVars, op, lim, ver, t0>>

\* A lost acknowledgement of the commit, a timeout, an error or a response without
\* usage: the reservation stays.
NoUsage(a) ==
    /\ pc[a] \in {"admitted", "sent"}
    /\ Forget(a)
    /\ UNCHANGED <<ledgerVars, lockVars, slotVars>>

-----------------------------------------------------------------------------
(* PostgresRedisBudget.reconcile, for an attempt or an administrator. *)

\* reconcile_pending finds the row and its principal.
Reconcile(x, o, u) ==
    /\ pc[x] = "idle"
    /\ rows[o].state # "none"
    /\ op' = [op EXCEPT ![x] = o]
    /\ val' = [val EXCEPT ![x] = u]
    /\ src' = [src EXCEPT ![x] = "administrative"]
    /\ Goto(x, "settle")
    /\ UNCHANGED <<ledgerVars, lockVars, slotVars, lim, ver, t0>>

\* The tariff of the row is read before any lock is held.
ReadTariff(x) ==
    /\ pc[x] = "settle"
    /\ ver' = [ver EXCEPT ![x] = rows[op[x]].version]
    /\ t0' = [t0 EXCEPT ![x] = clock]
    /\ Goto(x, "settle tariff")
    /\ UNCHANGED <<ledgerVars, lockVars, slotVars, op, lim, val, src>>

LockTariff(x) ==
    /\ pc[x] = "settle tariff"
    /\ writer[ver[x]] = Nobody /\ readers[ver[x]] = {}
    /\ writer' = [writer EXCEPT ![ver[x]] = x]
    /\ Goto(x, "settle row")
    /\ UNCHANGED <<ledgerVars, readers, plock, slotVars, localVars>>

\* Under both locks the row is settled once; a second settlement is a conflict, or
\* repeats the first.
SettleRow(x) ==
    /\ pc[x] = "settle row"
    /\ plock[Owner[op[x]]] = Nobody
    /\ rows' = IF L!Settled(op[x]) THEN rows
               ELSE L!SettledAs(op[x], val[x], src[x], t0[x])
    /\ Release(x)
    /\ Forget(x)
    /\ UNCHANGED <<sent, billed, clock, published, policy, offered, slotVars>>

\* A transaction fails and is rolled back.
Fail(x) ==
    /\ pc[x] \in {"tariff", "principal", "insert", "settle", "settle tariff", "settle row"}
    /\ Release(x)
    /\ Forget(x)
    /\ UNCHANGED <<ledgerVars, slotVars>>

-----------------------------------------------------------------------------
(* The specification. *)

Env ==
    /\ L!Tick \/ L!Publish \/ \E limit \in Limits : L!SetPolicy(limit)
    /\ UNCHANGED <<lockVars, slotVars, pc, localVars>>

Init ==
    /\ L!Init
    /\ readers = [v \in Versions |-> {}]
    /\ writer = [v \in Versions |-> Nobody]
    /\ plock = [p \in Principals |-> Nobody]
    /\ job = [s \in Slots |-> NoJob]
    /\ used = [s \in Slots |-> {}]
    /\ blocked = [s \in Slots |-> FALSE]
    /\ pc = [x \in Actors |-> "idle"]
    /\ op = [x \in Actors |-> NoOp]
    /\ lim = [x \in Actors |-> CHOOSE limit \in Limits : TRUE]
    /\ ver = [x \in Actors |-> 1]
    /\ t0 = [x \in Actors |-> 0]
    /\ val = [x \in Actors |-> 0]
    /\ src = [x \in Actors |-> "none"]

Admission(a) ==
    \/ \E o \in Ops : Identify(a, o)
    \/ LockTariffShared(a)
    \/ CheckAdmits(a)
    \/ CheckRefuses(a)
    \/ Reserve(a)

Transport(a) ==
    \/ MarkDispatch(a)
    \/ GiveUp(a)
    \/ \E charge \in Charges : Send(a, charge)
    \/ Usage(a)
    \/ NoUsage(a)

Settlement(x) ==
    \/ ReadTariff(x)
    \/ LockTariff(x)
    \/ SettleRow(x)
    \/ Fail(x)

Next ==
    \/ \E s \in Slots : Crash(s) \/ \E j \in Jobs : StartJob(s, j)
    \/ \E a \in Attempts : Admission(a) \/ Transport(a)
    \/ \E x \in Admins, o \in Ops, u \in Charges : Reconcile(x, o, u)
    \/ \E x \in Actors : Settlement(x)
    \/ Env

Spec == Init /\ [][Next]_vars

-----------------------------------------------------------------------------
(* Properties. *)

\* Every variable stays in its domain.
TypeOK ==
    /\ rows \in [Ops -> L!Rows]
    /\ sent \in [Ops -> Nat] /\ billed \in [Ops -> Nat]
    /\ clock \in 0..MaxTime /\ published \in Versions
    /\ policy \in offered /\ offered \subseteq Limits
    /\ readers \in [Versions -> SUBSET Actors]
    /\ writer \in [Versions -> Actors \cup {Nobody}]
    /\ plock \in [Principals -> Actors \cup {Nobody}]
    /\ pc \in [Actors -> PcValues]
    /\ job \in [Slots -> Jobs \cup {NoJob}]
    /\ used \in [Slots -> SUBSET Ops] /\ blocked \in [Slots -> BOOLEAN]
    /\ op \in [Actors -> Ops \cup {NoOp}] /\ lim \in [Actors -> Limits]
    /\ ver \in [Actors -> Versions] /\ t0 \in [Actors -> Nat] /\ val \in [Actors -> Nat]
    /\ src \in [Actors -> L!Sources]

\* A paid request is handed to the provider at most once, whatever is retried,
\* delivered twice or crashes; once it is, the ledger keeps counting it: as a
\* reservation, as what the provider charged, or as an administrator decided.
PaidOnce ==
    \A o \in Ops :
        /\ sent[o] <= 1
        /\ sent[o] = 1 =>
             \/ rows[o].state = "sending"
             \/ L!Settled(o) /\ rows[o].source = "administrative"
             \/ L!Settled(o) /\ rows[o].source = "provider" /\ rows[o].actual = billed[o]

\* In every hour and in every day a principal is charged at most the largest limit
\* that was in force, charges above a reservation aside.
Bounded(o) == IF L!Settled(o) /\ rows[o].actual < rows[o].units THEN rows[o].actual
              ELSE rows[o].units
WindowSpent(p, length) ==
    MapThenSumSet(Bounded, {o \in Ops : Owner[o] = p /\ L!InWindow(o, clock, length)})
WithinBudget ==
    \A p \in Principals :
        /\ WindowSpent(p, Hour) <= Max({limit.hour : limit \in offered})
        /\ WindowSpent(p, Day) <= Max({limit.day : limit \in offered})

\* No reservation is made under a tariff version that a charge has exceeded.
ViolatedTariffRefused ==
    [][\A o \in Ops : (L!Armable(o) /\ rows'[o].state = "reserved")
           => ~L!Violated(rows'[o].version)]_vars

\* The transactions under their locks behave like the atomic steps of CostLedger.
LedgerRefined == L!Spec

-----------------------------------------------------------------------------
(* The inductive invariant behind PaidOnce. *)

Settling(x) == pc[x] \in {"settle", "settle tariff", "settle row"}

\* The attempt armed the row of its operation and has not given it back.
Holds(a) == pc[a] \in {"admitted", "marked", "sent"} \/ Settling(a)

ByAdmin(o) == L!Settled(o) /\ rows[o].source = "administrative"

\* An actor is at an operation unless it is idle; administrators only settle.
Busy ==
    /\ \A x \in Actors : pc[x] # "idle" => op[x] \in Ops
    /\ \A x \in Admins : pc[x] = "idle" \/ (Settling(x) /\ src[x] = "administrative")

\* An operation has one holder, and none while its row can be armed.
OneHolder ==
    \A a \in Attempts : Holds(a) =>
        /\ ~L!Armable(op[a])
        /\ \A b \in Attempts \ {a} : op[b] = op[a] => ~Holds(b)

\* Between the checks and the write the principal is locked and the row stays as it was.
Inserting ==
    \A a \in Attempts : pc[a] = "insert" =>
        plock[Owner[op[a]]] = a /\ L!Armable(op[a])

\* What a holder knows of its request.
Knows(a) ==
    /\ pc[a] \in {"admitted", "marked"} => sent[op[a]] = 0
    /\ pc[a] = "marked" => rows[op[a]].state = "sending" \/ ByAdmin(op[a])
    /\ pc[a] = "sent" => sent[op[a]] = 1
    /\ Settling(a) => \/ src[a] = "not_dispatched" /\ val[a] = 0 /\ sent[op[a]] = 0
                      \/ src[a] = "provider" /\ sent[op[a]] = 1 /\ val[a] = billed[op[a]]
HolderFacts == \A a \in Attempts : Knows(a)

Unbilled == \A o \in Ops : sent[o] = 0 => billed[o] = 0

\* The strengthening of PaidOnce that every step preserves.
IInv ==
    TypeOK /\ Busy /\ OneHolder /\ Inserting /\ HolderFacts /\ Unbilled /\ PaidOnce

=============================================================================
