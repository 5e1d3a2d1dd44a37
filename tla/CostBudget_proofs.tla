-------------------------- MODULE CostBudget_proofs --------------------------
(***************************************************************************)
(* Proofs about CostBudget: type correctness, and that a paid request is sent *)
(* at most once and stays in the ledger.                                      *)
(***************************************************************************)
EXTENDS CostBudget, TLAPS

-----------------------------------------------------------------------------
(* Rows. *)

\* A row that is armed or settled is a row.
LEMMA RowTypes ==
    ASSUME TypeOK, NEW o \in Ops
    PROVE  /\ \A v \in Versions : L!Armed(o, v) \in [Ops -> L!Rows]
           /\ \A u \in Nat, s \in L!Sources, t \in Nat : L!SettledAs(o, u, s, t) \in [Ops -> L!Rows]
           /\ L!Sending(o) \in [Ops -> L!Rows]
<1>1. rows \in [Ops -> L!Rows]
  BY DEF TypeOK
<1>2. rows[o] \in L!Rows
  BY <1>1
<1>3. ASSUME NEW v \in Versions PROVE L!Armed(o, v) \in [Ops -> L!Rows]
  <2>1. Price[v] \in Nat
    BY LedgerAssumption
  <2>2. [state |-> "reserved", version |-> v, units |-> Price[v], actual |-> 0,
          source |-> "none", at |-> 0] \in L!Rows
    BY <1>2, <2>1 DEF L!Rows, L!RowStates, L!Sources
  <2> QED
    BY <1>1, <2>2 DEF L!Armed
<1>4. ASSUME NEW u \in Nat, NEW s \in L!Sources, NEW t \in Nat
      PROVE L!SettledAs(o, u, s, t) \in [Ops -> L!Rows]
  <2>1. [state |-> "settled", version |-> rows[o].version, units |-> rows[o].units,
          actual |-> u, source |-> s, at |-> t] \in L!Rows
    BY <1>2 DEF L!Rows, L!RowStates
  <2> QED
    BY <1>1, <2>1 DEF L!SettledAs
<1>5. L!Sending(o) \in [Ops -> L!Rows]
  <2>1. [rows[o] EXCEPT !.state = "sending"] \in L!Rows
    BY <1>2 DEF L!Rows, L!RowStates
  <2> QED
    BY <1>1, <2>1 DEF L!Sending
<1> QED
  BY <1>3, <1>4, <1>5

-----------------------------------------------------------------------------
(* Type correctness. *)

\* Every operation keeps the types.
LEMMA TypeNext ==
    ASSUME TypeOK, Busy, Next
    PROVE  TypeOK'
<1> USE LedgerAssumption, SlotAssumption, SentinelAssumption
<1>0. (CHOOSE limit \in Limits : TRUE) \in Limits
  OBVIOUS
<1>a. Attempts \subseteq Actors /\ Admins \subseteq Actors
  BY DEF Actors
<1>1. ASSUME NEW s \in Slots, Crash(s) PROVE TypeOK'
  BY <1>1, <1>0, <1>a
     DEF Crash, Goto, Busy, TypeOK, PcValues, L!Sources, ledgerVars, lockVars, slotVars,
         localVars
<1>2. ASSUME NEW s \in Slots, NEW j \in Jobs, StartJob(s, j) PROVE TypeOK'
  BY <1>2, <1>0, <1>a
     DEF StartJob, Goto, Busy, TypeOK, PcValues, ledgerVars, lockVars, slotVars, localVars
<1>3. ASSUME NEW a \in Attempts, NEW o \in Ops, Identify(a, o) PROVE TypeOK'
  <2>1. op' \in [Actors -> Ops \cup {NoOp}] /\ ver' \in [Actors -> Versions]
    BY <1>3, <1>a DEF Identify, TypeOK
  <2>2. lim' \in [Actors -> Limits] /\ t0' \in [Actors -> Nat]
    BY <1>3, <1>a DEF Identify, TypeOK
  <2>3. used' \in [Slots -> SUBSET Ops]
    BY <1>3 DEF Identify, Slot, TypeOK
  <2>4. pc' \in [Actors -> PcValues]
    BY <1>3 DEF Identify, Goto, TypeOK, PcValues
  <2> QED
    BY <1>3, <2>1, <2>2, <2>3, <2>4 DEF Identify, TypeOK, ledgerVars, lockVars
<1>4. ASSUME NEW a \in Attempts, LockTariffShared(a) PROVE TypeOK'
  <2>1. readers' \in [Versions -> SUBSET Actors]
    BY <1>4, <1>a DEF LockTariffShared, TypeOK
  <2>2. pc' \in [Actors -> PcValues]
    BY <1>4, <1>a DEF LockTariffShared, Goto, TypeOK, PcValues
  <2> QED
    BY <1>4, <2>1, <2>2 DEF LockTariffShared, TypeOK, ledgerVars, slotVars, localVars
<1>5. ASSUME NEW a \in Attempts, CheckAdmits(a) PROVE TypeOK'
  BY <1>5, <1>0, <1>a
     DEF CheckAdmits, Goto, Busy, TypeOK, PcValues, ledgerVars, lockVars, slotVars,
         localVars
<1>6. ASSUME NEW a \in Attempts, CheckRefuses(a) PROVE TypeOK'
  BY <1>6, <1>0, <1>a
     DEF CheckRefuses, Forget, Release, Goto, Busy, TypeOK, PcValues, L!Sources,
         ledgerVars, lockVars, slotVars, localVars
<1>7. ASSUME NEW a \in Attempts, Reserve(a) PROVE TypeOK'
  <2>1. op[a] \in Ops /\ ver[a] \in Versions
    BY <1>7, <1>a DEF Reserve, Busy, TypeOK
  <2>2. rows' \in [Ops -> L!Rows]
    BY <1>7, <2>1, RowTypes DEF Reserve
  <2> QED
    BY <1>7, <1>a, <2>2
       DEF Reserve, Release, Goto, TypeOK, PcValues, ledgerVars, lockVars, slotVars,
           localVars
<1>8. ASSUME NEW a \in Attempts, MarkDispatch(a) PROVE TypeOK'
  <2>1. op[a] \in Ops /\ ver[a] \in Versions
    BY <1>8, <1>a DEF MarkDispatch, Busy, TypeOK
  <2>2. rows' \in [Ops -> L!Rows]
    BY <1>8, <2>1, RowTypes DEF MarkDispatch
  <2> QED
    BY <1>8, <1>a, <2>2
       DEF MarkDispatch, Goto, TypeOK, PcValues, ledgerVars, lockVars, slotVars, localVars
<1>9. ASSUME NEW a \in Attempts, GiveUp(a) PROVE TypeOK'
  BY <1>9, <1>0, <1>a
     DEF GiveUp, StartRefund, Goto, Busy, TypeOK, PcValues, L!Sources, ledgerVars,
         lockVars, slotVars, localVars
<1>10. ASSUME NEW a \in Attempts, NEW charge \in Charges, Send(a, charge) PROVE TypeOK'
  <2>1. op[a] \in Ops /\ charge \in Nat
    BY <1>10, <1>a DEF Send, Busy
  <2>2. sent' \in [Ops -> Nat] /\ billed' \in [Ops -> Nat]
    BY <1>10, <2>1 DEF Send, TypeOK
  <2>3. pc' \in [Actors -> PcValues]
    BY <1>10 DEF Send, Goto, TypeOK, PcValues
  <2> QED
    BY <1>10, <2>2, <2>3 DEF Send, TypeOK, lockVars, slotVars, localVars
<1>11. ASSUME NEW a \in Attempts, Usage(a) PROVE TypeOK'
  <2>1. op[a] \in Ops /\ billed[op[a]] \in Nat
    BY <1>11, <1>a DEF Usage, Busy, TypeOK
  <2>2. val' \in [Actors -> Nat] /\ src' \in [Actors -> L!Sources]
    BY <1>11, <2>1 DEF Usage, TypeOK, L!Sources
  <2>3. pc' \in [Actors -> PcValues]
    BY <1>11 DEF Usage, Goto, TypeOK, PcValues
  <2> QED
    BY <1>11, <2>2, <2>3 DEF Usage, TypeOK, ledgerVars, lockVars, slotVars
<1>12. ASSUME NEW a \in Attempts, NoUsage(a) PROVE TypeOK'
  BY <1>12, <1>0, <1>a
     DEF NoUsage, Forget, Goto, Busy, TypeOK, PcValues, L!Sources, ledgerVars, lockVars,
         slotVars, localVars
<1>13. ASSUME NEW x \in Admins, NEW o \in Ops, NEW u \in Charges, Reconcile(x, o, u)
       PROVE TypeOK'
  BY <1>13, <1>0, <1>a
     DEF Reconcile, Goto, Busy, TypeOK, PcValues, L!Sources, ledgerVars, lockVars,
         slotVars, localVars
<1>14. ASSUME NEW x \in Actors, ReadTariff(x) PROVE TypeOK'
  <2>1. op[x] \in Ops
    BY <1>14 DEF ReadTariff, Busy
  <2>2. rows[op[x]].version \in Versions
    BY <2>1 DEF TypeOK, L!Rows
  <2>3. clock \in Nat
    BY DEF TypeOK
  <2>4. pc' \in [Actors -> PcValues]
    BY <1>14 DEF ReadTariff, Goto, TypeOK, PcValues
  <2> QED
    BY <1>14, <2>2, <2>3, <2>4 DEF ReadTariff, TypeOK, ledgerVars, lockVars, slotVars
<1>15. ASSUME NEW x \in Actors, LockTariff(x) PROVE TypeOK'
  <2>1. writer' \in [Versions -> Actors \cup {Nobody}]
    BY <1>15 DEF LockTariff, TypeOK
  <2>2. pc' \in [Actors -> PcValues]
    BY <1>15 DEF LockTariff, Goto, TypeOK, PcValues
  <2> QED
    BY <1>15, <2>1, <2>2 DEF LockTariff, TypeOK, ledgerVars, lockVars, slotVars, localVars
<1>16. ASSUME NEW x \in Actors, SettleRow(x) PROVE TypeOK'
  <2>1. op[x] \in Ops /\ val[x] \in Nat /\ src[x] \in L!Sources /\ t0[x] \in Nat
    BY <1>16, <1>a DEF SettleRow, Busy, TypeOK
  <2>2. rows' \in [Ops -> L!Rows]
    BY <1>16, <2>1, RowTypes DEF SettleRow, TypeOK
  <2> QED
    BY <1>16, <1>0, <1>a, <2>2
       DEF SettleRow, Forget, Release, Goto, TypeOK, PcValues, L!Sources, ledgerVars,
           lockVars, slotVars, localVars
<1>17. ASSUME NEW x \in Actors, Fail(x) PROVE TypeOK'
  BY <1>17, <1>0, <1>a
     DEF Fail, Forget, Release, Goto, Busy, TypeOK, PcValues, L!Sources, ledgerVars,
         lockVars, slotVars, localVars
<1>18. ASSUME Env PROVE TypeOK'
  BY <1>18
     DEF Env, L!Tick, L!Publish, L!SetPolicy, TypeOK, ledgerVars, lockVars, slotVars,
         localVars
<1> QED
  BY <1>1, <1>2, <1>3, <1>4, <1>5, <1>6, <1>7, <1>8, <1>9, <1>10, <1>11, <1>12, <1>13,
     <1>14, <1>15, <1>16, <1>17, <1>18
     DEF Next, Admission, Transport, Settlement

\* Initially every variable has its type and nobody holds anything.
LEMMA InvInit == Init => IInv
<1> SUFFICES ASSUME Init PROVE IInv
  OBVIOUS
<1> USE LedgerAssumption, SlotAssumption, SentinelAssumption DEF Init, L!Init
<1>1. TypeOK
  BY DEF TypeOK, L!Rows, L!RowStates, L!Sources, L!NoRow, PcValues, Actors
<1>2. Busy /\ OneHolder /\ Inserting /\ HolderFacts /\ Unbilled /\ PaidOnce
  BY DEF Busy, OneHolder, Inserting, HolderFacts, Knows, Unbilled, PaidOnce, Holds,
         Settling, Actors
<1> QED
  BY <1>1, <1>2 DEF IInv

-----------------------------------------------------------------------------
(* The inductive invariant. *)

\* The invariant about the requests: what IInv adds to the types.
Money == OneHolder /\ Inserting /\ HolderFacts /\ Unbilled /\ PaidOnce

\* An operation that can be armed was never sent.
LEMMA ArmableIsUnsent ==
    ASSUME TypeOK, PaidOnce, NEW o \in Ops, L!Armable(o)
    PROVE  sent[o] = 0
<1>1. sent[o] \in Nat /\ sent[o] <= 1
  BY DEF TypeOK, PaidOnce
<1>2. sent[o] # 1
  BY DEF PaidOnce, L!Armable, L!Refunded, L!Settled
<1> QED
  BY <1>1, <1>2

\* An attempt that steps away from the row, stays where it was, or stays the holder
\* of its operation with what it knows, disturbs nothing.
LEMMA QuietStep ==
    ASSUME Money, UNCHANGED <<rows, sent, billed>>,
           \A x \in Attempts :
             \/ /\ pc'[x] = pc[x] /\ op'[x] = op[x] /\ val'[x] = val[x] /\ src'[x] = src[x]
                /\ pc[x] = "insert" => plock'[Owner[op[x]]] = plock[Owner[op[x]]]
             \/ pc'[x] \in {"idle", "tariff", "principal"}
             \/ Holds(x) /\ Holds(x)' /\ op'[x] = op[x] /\ Knows(x)'
    PROVE  Money'
<1>1. \A x \in Attempts : Holds(x)' => Holds(x) /\ op'[x] = op[x]
  BY DEF Holds, Settling
<1>2. OneHolder'
  BY <1>1 DEF Money, OneHolder, L!Armable, L!Refunded, L!Settled
<1>3. Inserting'
  <2> SUFFICES ASSUME NEW x \in Attempts, pc'[x] = "insert"
               PROVE  plock'[Owner[op'[x]]] = x /\ L!Armable(op[x])'
    BY DEF Inserting
  <2>1. ~Holds(x)' /\ pc'[x] \notin {"idle", "tariff", "principal"}
    BY DEF Holds, Settling
  <2>2. /\ pc[x] = "insert" /\ op'[x] = op[x]
        /\ plock'[Owner[op[x]]] = plock[Owner[op[x]]]
    BY <2>1
  <2>3. plock[Owner[op[x]]] = x /\ L!Armable(op[x])
    BY <2>2 DEF Money, Inserting
  <2> QED
    BY <2>2, <2>3 DEF L!Armable, L!Refunded, L!Settled
<1>4. HolderFacts'
  <2> SUFFICES ASSUME NEW x \in Attempts PROVE Knows(x)'
    BY DEF HolderFacts
  <2>1. Knows(x)
    BY DEF Money, HolderFacts
  <2>2. CASE /\ pc'[x] = pc[x] /\ op'[x] = op[x] /\ val'[x] = val[x] /\ src'[x] = src[x]
    BY <2>1, <2>2 DEF Knows, Settling, ByAdmin, L!Settled
  <2>3. CASE pc'[x] \in {"idle", "tariff", "principal"}
    BY <2>3 DEF Knows, Settling
  <2> QED
    BY <2>2, <2>3
<1>5. Unbilled' /\ PaidOnce'
  BY DEF Money, Unbilled, PaidOnce, L!Settled
<1> QED
  BY <1>2, <1>3, <1>4, <1>5 DEF Money

\* The steps that write neither the ledger nor a lock they do not own.
LEMMA QuietSteps ==
    ASSUME IInv,
           \/ \E s \in Slots : Crash(s) \/ \E j \in Jobs : StartJob(s, j)
           \/ \E a \in Attempts :
                \/ \E o \in Ops : Identify(a, o)
                \/ LockTariffShared(a) \/ CheckRefuses(a) \/ GiveUp(a) \/ Usage(a) \/ NoUsage(a)
           \/ \E x \in Admins, o \in Ops, u \in Charges : Reconcile(x, o, u)
           \/ \E x \in Actors : ReadTariff(x) \/ LockTariff(x) \/ Fail(x)
           \/ Env
    PROVE  Money'
<1> USE LedgerAssumption, SlotAssumption, SentinelAssumption
<1>a. Attempts \subseteq Actors /\ Admins \subseteq Actors /\ Money /\ TypeOK /\ Busy
  BY DEF Actors, IInv, Money
<1>b. \A a \in Attempts : pc[a] # "idle" => op[a] \in Ops /\ Owner[op[a]] \in Principals
  BY <1>a DEF Busy
<1>c. \A a \in Attempts : Knows(a) /\ (pc[a] = "insert" => plock[Owner[op[a]]] = a)
  BY <1>a DEF Money, HolderFacts, Inserting
<1>1. ASSUME NEW s \in Slots, Crash(s) PROVE Money'
  BY <1>1, <1>a, <1>b, <1>c, QuietStep
     DEF Crash, Knows, Holds, Settling, TypeOK, ledgerVars, lockVars, slotVars, localVars
<1>2. ASSUME NEW s \in Slots, NEW j \in Jobs, StartJob(s, j) PROVE Money'
  BY <1>2, <1>a, <1>b, <1>c, QuietStep
     DEF StartJob, Knows, Holds, Settling, TypeOK, ledgerVars, lockVars, slotVars,
         localVars
<1>3. ASSUME NEW a \in Attempts, NEW o \in Ops, Identify(a, o) PROVE Money'
  BY <1>3, <1>a, <1>b, <1>c, QuietStep
     DEF Identify, Goto, Knows, Holds, Settling, TypeOK, ledgerVars, lockVars, slotVars,
         localVars
<1>4. ASSUME NEW a \in Attempts, LockTariffShared(a) PROVE Money'
  BY <1>4, <1>a, <1>b, <1>c, QuietStep
     DEF LockTariffShared, Goto, Knows, Holds, Settling, TypeOK, ledgerVars, lockVars,
         slotVars, localVars
<1>5. ASSUME NEW a \in Attempts, CheckRefuses(a) PROVE Money'
  BY <1>5, <1>a, <1>b, <1>c, QuietStep
     DEF CheckRefuses, Forget, Release, Goto, Knows, Holds, Settling, TypeOK, ledgerVars,
         lockVars, slotVars, localVars
<1>6. ASSUME NEW a \in Attempts, GiveUp(a) PROVE Money'
  BY <1>6, <1>a, <1>b, <1>c, QuietStep
     DEF GiveUp, StartRefund, Goto, Knows, Holds, Settling, TypeOK, ledgerVars, lockVars,
         slotVars, localVars
<1>7. ASSUME NEW a \in Attempts, Usage(a) PROVE Money'
  BY <1>7, <1>a, <1>b, <1>c, QuietStep
     DEF Usage, Goto, Knows, Holds, Settling, TypeOK, ledgerVars, lockVars, slotVars,
         localVars
<1>8. ASSUME NEW a \in Attempts, NoUsage(a) PROVE Money'
  BY <1>8, <1>a, <1>b, <1>c, QuietStep
     DEF NoUsage, Forget, Goto, Knows, Holds, Settling, TypeOK, ledgerVars, lockVars,
         slotVars, localVars
<1>9. ASSUME NEW x \in Admins, NEW o \in Ops, NEW u \in Charges, Reconcile(x, o, u)
      PROVE Money'
  <2>1. /\ UNCHANGED <<ledgerVars, lockVars>> /\ x \in Actors /\ x \notin Attempts
        /\ pc' = [pc EXCEPT ![x] = "settle"] /\ op' = [op EXCEPT ![x] = o]
        /\ val' = [val EXCEPT ![x] = u] /\ src' = [src EXCEPT ![x] = "administrative"]
    BY <1>9, <1>a DEF Reconcile, Goto
  <2> QED
    BY <2>1, <1>a, <1>b, <1>c, QuietStep DEF Knows, Holds, Settling, TypeOK, ledgerVars, lockVars
<1>10. ASSUME NEW x \in Actors, ReadTariff(x) PROVE Money'
  BY <1>10, <1>a, <1>b, <1>c, QuietStep
     DEF ReadTariff, Goto, Knows, Holds, Settling, TypeOK, ledgerVars, lockVars, slotVars,
         localVars
<1>11. ASSUME NEW x \in Actors, LockTariff(x) PROVE Money'
  BY <1>11, <1>a, <1>b, <1>c, QuietStep
     DEF LockTariff, Goto, Knows, Holds, Settling, TypeOK, ledgerVars, lockVars, slotVars,
         localVars
<1>12. ASSUME NEW x \in Actors, Fail(x) PROVE Money'
  BY <1>12, <1>a, <1>b, <1>c, QuietStep
     DEF Fail, Forget, Release, Goto, Knows, Holds, Settling, TypeOK, ledgerVars, lockVars,
         slotVars, localVars
<1>13. ASSUME Env PROVE Money'
  BY <1>13, <1>a, <1>b, <1>c, QuietStep
     DEF Env, L!Tick, L!Publish, L!SetPolicy, Knows, Holds, Settling, TypeOK, ledgerVars,
         lockVars, slotVars, localVars
<1> QED
  BY <1>1, <1>2, <1>3, <1>4, <1>5, <1>6, <1>7, <1>8, <1>9, <1>10, <1>11, <1>12, <1>13

\* An actor that is not idle is at an operation, and administrators only settle.
LEMMA BusyNext ==
    ASSUME TypeOK, Busy, Next
    PROVE  Busy'
<1> USE SlotAssumption, SentinelAssumption
<1>a. Attempts \subseteq Actors /\ Admins \subseteq Actors
  BY DEF Actors
<1>1. ASSUME NEW s \in Slots, Crash(s) PROVE Busy'
  BY <1>1, <1>a DEF Crash, Busy, Settling, TypeOK, ledgerVars, lockVars, slotVars, localVars
<1>2. ASSUME NEW s \in Slots, NEW j \in Jobs, StartJob(s, j) PROVE Busy'
  BY <1>2, <1>a
     DEF StartJob, Busy, Settling, TypeOK, ledgerVars, lockVars, slotVars, localVars
<1>3. ASSUME NEW a \in Attempts, NEW o \in Ops, Identify(a, o) PROVE Busy'
  BY <1>3, <1>a
     DEF Identify, Goto, Busy, Settling, TypeOK, ledgerVars, lockVars, slotVars, localVars
<1>4. ASSUME NEW a \in Attempts, LockTariffShared(a) PROVE Busy'
  BY <1>4, <1>a
     DEF LockTariffShared, Goto, Busy, Settling, TypeOK, ledgerVars, lockVars, slotVars,
         localVars
<1>5. ASSUME NEW a \in Attempts, CheckAdmits(a) PROVE Busy'
  BY <1>5, <1>a
     DEF CheckAdmits, Goto, Busy, Settling, TypeOK, ledgerVars, lockVars, slotVars,
         localVars
<1>6. ASSUME NEW a \in Attempts, CheckRefuses(a) PROVE Busy'
  BY <1>6, <1>a
     DEF CheckRefuses, Forget, Release, Goto, Busy, Settling, TypeOK, ledgerVars, lockVars,
         slotVars, localVars
<1>7. ASSUME NEW a \in Attempts, Reserve(a) PROVE Busy'
  BY <1>7, <1>a
     DEF Reserve, Release, Goto, Busy, Settling, TypeOK, ledgerVars, lockVars, slotVars,
         localVars
<1>8. ASSUME NEW a \in Attempts, MarkDispatch(a) PROVE Busy'
  BY <1>8, <1>a
     DEF MarkDispatch, Goto, Busy, Settling, TypeOK, ledgerVars, lockVars, slotVars,
         localVars
<1>9. ASSUME NEW a \in Attempts, GiveUp(a) PROVE Busy'
  BY <1>9, <1>a
     DEF GiveUp, StartRefund, Goto, Busy, Settling, TypeOK, ledgerVars, lockVars, slotVars,
         localVars
<1>10. ASSUME NEW a \in Attempts, NEW charge \in Charges, Send(a, charge) PROVE Busy'
  BY <1>10, <1>a
     DEF Send, Goto, Busy, Settling, TypeOK, ledgerVars, lockVars, slotVars, localVars
<1>11. ASSUME NEW a \in Attempts, Usage(a) PROVE Busy'
  BY <1>11, <1>a
     DEF Usage, Goto, Busy, Settling, TypeOK, ledgerVars, lockVars, slotVars, localVars
<1>12. ASSUME NEW a \in Attempts, NoUsage(a) PROVE Busy'
  BY <1>12, <1>a
     DEF NoUsage, Forget, Goto, Busy, Settling, TypeOK, ledgerVars, lockVars, slotVars,
         localVars
<1>13. ASSUME NEW x \in Admins, NEW o \in Ops, NEW u \in Charges, Reconcile(x, o, u)
       PROVE Busy'
  BY <1>13, <1>a
     DEF Reconcile, Goto, Busy, Settling, TypeOK, ledgerVars, lockVars, slotVars, localVars
<1>14. ASSUME NEW x \in Actors, ReadTariff(x) PROVE Busy'
  BY <1>14, <1>a
     DEF ReadTariff, Goto, Busy, Settling, TypeOK, ledgerVars, lockVars, slotVars,
         localVars
<1>15. ASSUME NEW x \in Actors, LockTariff(x) PROVE Busy'
  BY <1>15, <1>a
     DEF LockTariff, Goto, Busy, Settling, TypeOK, ledgerVars, lockVars, slotVars,
         localVars
<1>16. ASSUME NEW x \in Actors, SettleRow(x) PROVE Busy'
  BY <1>16, <1>a
     DEF SettleRow, Forget, Release, Goto, Busy, Settling, TypeOK, ledgerVars, lockVars,
         slotVars, localVars
<1>17. ASSUME NEW x \in Actors, Fail(x) PROVE Busy'
  BY <1>17, <1>a
     DEF Fail, Forget, Release, Goto, Busy, Settling, TypeOK, ledgerVars, lockVars,
         slotVars, localVars
<1>18. ASSUME Env PROVE Busy'
  BY <1>18, <1>a
     DEF Env, L!Tick, L!Publish, L!SetPolicy, Busy, Settling, TypeOK, ledgerVars, lockVars,
         slotVars, localVars
<1> QED
  BY <1>1, <1>2, <1>3, <1>4, <1>5, <1>6, <1>7, <1>8, <1>9, <1>10, <1>11, <1>12, <1>13,
     <1>14, <1>15, <1>16, <1>17, <1>18
     DEF Next, Admission, Transport, Settlement

\* The checks take the lock of the principal: nobody else is about to write its rows.
LEMMA CheckAdmitsStep ==
    ASSUME IInv, NEW a \in Attempts, CheckAdmits(a)
    PROVE  Money'
<1> USE LedgerAssumption, SlotAssumption, SentinelAssumption
<1>1. /\ Attempts \subseteq Actors /\ Money /\ TypeOK /\ Busy
      /\ pc[a] = "principal" /\ a \in Actors /\ op[a] \in Ops /\ Owner[op[a]] \in Principals
      /\ L!Armable(op[a]) /\ plock[Owner[op[a]]] = Nobody
  BY DEF Actors, IInv, Money, CheckAdmits, Busy
<1>2. /\ pc' = [pc EXCEPT ![a] = "insert"] /\ plock' = [plock EXCEPT ![Owner[op[a]]] = a]
      /\ UNCHANGED <<rows, sent, billed, op, val, src>>
  BY DEF CheckAdmits, Goto, ledgerVars, localVars
<1>3. \A b \in Attempts \ {a} : pc'[b] = pc[b]
  BY <1>1, <1>2 DEF TypeOK
<1>4. pc'[a] = "insert" /\ plock'[Owner[op[a]]] = a
  BY <1>1, <1>2 DEF TypeOK
<1>5. \A x \in Attempts : Holds(x)' <=> Holds(x)
  BY <1>1, <1>3, <1>4 DEF Holds, Settling
<1>6. OneHolder'
  BY <1>1, <1>2, <1>5 DEF Money, OneHolder, L!Armable, L!Refunded, L!Settled
<1>7. Inserting'
  <2> SUFFICES ASSUME NEW b \in Attempts, pc'[b] = "insert"
               PROVE  plock'[Owner[op'[b]]] = b /\ L!Armable(op[b])'
    BY DEF Inserting
  <2>1. CASE b = a
    BY <2>1, <1>1, <1>2, <1>4 DEF L!Armable, L!Refunded, L!Settled
  <2>2. CASE b # a
    <3>1. pc[b] = "insert" /\ plock[Owner[op[b]]] = b /\ L!Armable(op[b]) /\ op[b] \in Ops
      BY <2>2, <1>1, <1>3 DEF Money, Inserting, Busy
    <3>2. Owner[op[b]] # Owner[op[a]]
      BY <3>1, <1>1
    <3>3. plock'[Owner[op[b]]] = b
      BY <3>1, <3>2, <1>2 DEF TypeOK
    <3> QED
      BY <3>1, <3>3, <1>2 DEF L!Armable, L!Refunded, L!Settled
  <2> QED
    BY <2>1, <2>2
<1>8. HolderFacts'
  <2> SUFFICES ASSUME NEW b \in Attempts PROVE Knows(b)'
    BY DEF HolderFacts
  <2>1. Knows(b)
    BY <1>1 DEF Money, HolderFacts
  <2>2. CASE b = a
    BY <2>2, <1>4 DEF Knows, Settling
  <2>3. CASE b # a
    BY <2>1, <2>3, <1>2, <1>3 DEF Knows, Settling, ByAdmin, L!Settled
  <2> QED
    BY <2>2, <2>3
<1>9. Unbilled' /\ PaidOnce'
  BY <1>1, <1>2 DEF Money, Unbilled, PaidOnce, L!Settled
<1> QED
  BY <1>6, <1>7, <1>8, <1>9 DEF Money

\* The write of a reservation makes the attempt the holder: nobody held the row
\* while it could be armed.
LEMMA ReserveStep ==
    ASSUME IInv, NEW a \in Attempts, Reserve(a)
    PROVE  Money'
<1> USE LedgerAssumption, SlotAssumption, SentinelAssumption
<1>1. /\ Attempts \subseteq Actors /\ Money /\ TypeOK /\ Busy
      /\ pc[a] = "insert" /\ a \in Actors /\ op[a] \in Ops
      /\ L!Armable(op[a]) /\ plock[Owner[op[a]]] = a
  BY DEF Actors, IInv, Money, Inserting, Reserve, Busy
<1>2. sent[op[a]] = 0
  BY <1>1, ArmableIsUnsent DEF Money
<1>3. /\ \A b \in Attempts \ {a} : pc'[b] = pc[b]
      /\ pc'[a] = "admitted"
      /\ UNCHANGED <<sent, billed, op, val, src>>
  BY <1>1 DEF Reserve, Goto, TypeOK, localVars
<1>4. /\ \A o \in Ops \ {op[a]} : rows'[o] = rows[o]
      /\ rows'[op[a]].state = "reserved"
  BY <1>1 DEF Reserve, L!Armed, TypeOK
<1>5. \A b \in Attempts \ {a} : pc[b] # "idle" => op[b] \in Ops /\ Owner[op[b]] \in Principals
  BY <1>1 DEF Busy
<1>6. \A b \in Attempts \ {a} : Holds(b) \/ pc[b] = "insert" => op[b] # op[a]
  BY <1>1 DEF Money, OneHolder, Inserting
<1>7. OneHolder'
  <2> SUFFICES ASSUME NEW b \in Attempts, Holds(b)'
               PROVE  /\ ~L!Armable(op[b])'
                      /\ \A c \in Attempts \ {b} : op'[c] = op'[b] => ~Holds(c)'
    BY DEF OneHolder
  <2>1. \A c \in Attempts \ {a} : Holds(c)' <=> Holds(c)
    BY <1>3 DEF Holds, Settling
  <2>2. CASE b = a
    BY <2>2, <2>1, <1>1, <1>3, <1>4, <1>6 DEF L!Armable, L!Refunded, L!Settled
  <2>3. CASE b # a
    <3>1. Holds(b) /\ op[b] # op[a] /\ op[b] \in Ops
      BY <2>1, <2>3, <1>5, <1>6 DEF Holds, Settling
    <3>2. ~L!Armable(op[b]) /\ \A c \in Attempts \ {b} : op[c] = op[b] => ~Holds(c)
      BY <3>1, <1>1 DEF Money, OneHolder
    <3> QED
      BY <3>1, <3>2, <2>1, <1>3, <1>4 DEF L!Armable, L!Refunded, L!Settled
  <2> QED
    BY <2>2, <2>3
<1>8. Inserting'
  <2> SUFFICES ASSUME NEW b \in Attempts, pc'[b] = "insert"
               PROVE  plock'[Owner[op'[b]]] = b /\ L!Armable(op[b])'
    BY DEF Inserting
  <2>1. b # a /\ pc[b] = "insert" /\ op[b] # op[a] /\ op[b] \in Ops
    BY <1>3, <1>5, <1>6
  <2>2. plock[Owner[op[b]]] = b /\ L!Armable(op[b]) /\ Owner[op[b]] \in Principals
    BY <2>1, <1>1, <1>5 DEF Money, Inserting
  <2>3. plock'[Owner[op[b]]] = b
    BY <2>1, <2>2 DEF Reserve, Release
  <2> QED
    BY <2>1, <2>2, <2>3, <1>3, <1>4 DEF L!Armable, L!Refunded, L!Settled
<1>9. HolderFacts'
  <2> SUFFICES ASSUME NEW b \in Attempts PROVE Knows(b)'
    BY DEF HolderFacts
  <2>1. Knows(b)
    BY <1>1 DEF Money, HolderFacts
  <2>2. CASE b = a
    BY <2>2, <1>2, <1>3 DEF Knows, Settling
  <2>3. CASE b # a /\ Holds(b)
    <3>1. op[b] \in Ops /\ op[b] # op[a]
      BY <2>3, <1>5, <1>6 DEF Holds, Settling
    <3> QED
      BY <2>1, <2>3, <3>1, <1>3, <1>4 DEF Knows, Settling, ByAdmin, L!Settled
  <2>4. CASE b # a /\ ~Holds(b)
    BY <2>4, <1>3 DEF Knows, Holds, Settling
  <2> QED
    BY <2>2, <2>3, <2>4
<1>10. Unbilled' /\ PaidOnce'
  BY <1>1, <1>2, <1>3, <1>4 DEF Money, Unbilled, PaidOnce, L!Settled
<1> QED
  BY <1>7, <1>8, <1>9, <1>10 DEF Money

\* The holder marks its own row.
LEMMA MarkDispatchStep ==
    ASSUME IInv, NEW a \in Attempts, MarkDispatch(a)
    PROVE  Money'
<1> USE LedgerAssumption, SlotAssumption, SentinelAssumption
<1>1. /\ Attempts \subseteq Actors /\ Money /\ TypeOK /\ Busy
      /\ pc[a] = "admitted" /\ Holds(a) /\ a \in Actors /\ op[a] \in Ops
      /\ rows[op[a]].state = "reserved"
  BY DEF Actors, IInv, Money, MarkDispatch, Busy, Holds
<1>2. sent[op[a]] = 0 /\ ~L!Armable(op[a])
  BY <1>1 DEF Money, HolderFacts, Knows, OneHolder
<1>3. /\ \A b \in Attempts \ {a} : pc'[b] = pc[b]
      /\ pc'[a] = "marked"
      /\ UNCHANGED <<sent, billed, op, val, src, plock>>
  BY <1>1 DEF MarkDispatch, Goto, TypeOK, localVars, lockVars
<1>4. /\ \A o \in Ops \ {op[a]} : rows'[o] = rows[o]
      /\ rows'[op[a]].state = "sending"
  BY <1>1 DEF MarkDispatch, L!Sending, L!Rows, TypeOK
<1>5. \A b \in Attempts \ {a} : pc[b] # "idle" => op[b] \in Ops
  BY <1>1 DEF Busy
<1>6. \A b \in Attempts \ {a} : Holds(b) \/ pc[b] = "insert" => op[b] # op[a]
  BY <1>1, <1>2 DEF Money, OneHolder, Inserting
<1>7. OneHolder'
  <2>1. \A c \in Attempts : Holds(c)' <=> Holds(c)
    BY <1>1, <1>3 DEF Holds, Settling
  <2>2. ASSUME NEW b \in Attempts, Holds(b) PROVE ~L!Armable(op[b])'
    <3>1. op[b] \in Ops /\ ~L!Armable(op[b])
      BY <2>2, <1>1, <1>5 DEF Money, OneHolder, Holds, Settling
    <3> QED
      BY <3>1, <1>3, <1>4 DEF L!Armable, L!Refunded, L!Settled
  <2> QED
    BY <2>1, <2>2, <1>1, <1>3 DEF Money, OneHolder
<1>8. Inserting'
  <2> SUFFICES ASSUME NEW b \in Attempts, pc'[b] = "insert"
               PROVE  plock'[Owner[op'[b]]] = b /\ L!Armable(op[b])'
    BY DEF Inserting
  <2>1. b # a /\ pc[b] = "insert" /\ op[b] # op[a] /\ op[b] \in Ops
    BY <1>3, <1>5, <1>6
  <2>2. plock[Owner[op[b]]] = b /\ L!Armable(op[b])
    BY <2>1, <1>1 DEF Money, Inserting
  <2> QED
    BY <2>1, <2>2, <1>3, <1>4 DEF L!Armable, L!Refunded, L!Settled
<1>9. HolderFacts'
  <2> SUFFICES ASSUME NEW b \in Attempts PROVE Knows(b)'
    BY DEF HolderFacts
  <2>1. Knows(b)
    BY <1>1 DEF Money, HolderFacts
  <2>2. CASE b = a
    BY <2>2, <1>2, <1>3, <1>4 DEF Knows, Settling
  <2>3. CASE b # a /\ Holds(b)
    <3>1. op[b] \in Ops /\ op[b] # op[a]
      BY <2>3, <1>5, <1>6 DEF Holds, Settling
    <3> QED
      BY <2>1, <2>3, <3>1, <1>3, <1>4 DEF Knows, Settling, ByAdmin, L!Settled
  <2>4. CASE b # a /\ ~Holds(b)
    BY <2>4, <1>3 DEF Knows, Holds, Settling
  <2> QED
    BY <2>2, <2>3, <2>4
<1>10. Unbilled' /\ PaidOnce'
  BY <1>1, <1>2, <1>3, <1>4 DEF Money, Unbilled, PaidOnce, L!Settled
<1> QED
  BY <1>7, <1>8, <1>9, <1>10 DEF Money

\* The request leaves once, for the only holder of an operation never sent before.
LEMMA SendStep ==
    ASSUME IInv, NEW a \in Attempts, NEW charge \in Charges, Send(a, charge)
    PROVE  Money'
<1> USE LedgerAssumption, SlotAssumption, SentinelAssumption
<1>1. /\ Attempts \subseteq Actors /\ Money /\ TypeOK /\ Busy
      /\ pc[a] = "marked" /\ Holds(a) /\ a \in Actors /\ op[a] \in Ops
  BY DEF Actors, IInv, Money, Send, Busy, Holds
<1>2. /\ sent[op[a]] = 0
      /\ rows[op[a]].state = "sending" \/ ByAdmin(op[a])
  BY <1>1 DEF Money, HolderFacts, Knows
<1>3. /\ \A b \in Attempts \ {a} : pc'[b] = pc[b]
      /\ pc'[a] = "sent"
      /\ UNCHANGED <<rows, op, val, src, plock>>
  BY <1>1 DEF Send, Goto, TypeOK, localVars, lockVars
<1>4. /\ \A o \in Ops \ {op[a]} : sent'[o] = sent[o] /\ billed'[o] = billed[o]
      /\ sent'[op[a]] = 1
  BY <1>1, <1>2 DEF Send, TypeOK
<1>5. \A b \in Attempts \ {a} : pc[b] # "idle" => op[b] \in Ops
  BY <1>1 DEF Busy
<1>6. \A b \in Attempts \ {a} : Holds(b) => op[b] # op[a]
  BY <1>1 DEF Money, OneHolder
<1>7. OneHolder' /\ Inserting'
  <2>1. \A c \in Attempts : (Holds(c)' <=> Holds(c)) /\ (pc'[c] = "insert" => pc[c] = "insert")
    BY <1>1, <1>3 DEF Holds, Settling
  <2> QED
    BY <2>1, <1>1, <1>3 DEF Money, OneHolder, Inserting, L!Armable, L!Refunded, L!Settled
<1>8. HolderFacts'
  <2> SUFFICES ASSUME NEW b \in Attempts PROVE Knows(b)'
    BY DEF HolderFacts
  <2>1. Knows(b)
    BY <1>1 DEF Money, HolderFacts
  <2>2. CASE b = a
    BY <2>2, <1>3, <1>4 DEF Knows, Settling
  <2>3. CASE b # a /\ Holds(b)
    <3>1. op[b] \in Ops /\ op[b] # op[a]
      BY <2>3, <1>5, <1>6 DEF Holds, Settling
    <3> QED
      BY <2>1, <2>3, <3>1, <1>3, <1>4 DEF Knows, Settling, ByAdmin, L!Settled
  <2>4. CASE b # a /\ ~Holds(b)
    BY <2>4, <1>3 DEF Knows, Holds, Settling
  <2> QED
    BY <2>2, <2>3, <2>4
<1>9. Unbilled' /\ PaidOnce'
  BY <1>1, <1>2, <1>3, <1>4 DEF Money, Unbilled, PaidOnce, ByAdmin, L!Settled
<1> QED
  BY <1>7, <1>8, <1>9 DEF Money

\* A settlement leaves a settled row alone; an open one it closes as its holder or an
\* administrator says.
LEMMA SettleRowStep ==
    ASSUME IInv, NEW x \in Actors, SettleRow(x)
    PROVE  Money'
<1> USE LedgerAssumption, SlotAssumption, SentinelAssumption
<1>1. /\ Attempts \subseteq Actors /\ Money /\ TypeOK /\ Busy
      /\ pc[x] = "settle row" /\ Settling(x) /\ op[x] \in Ops
      /\ plock[Owner[op[x]]] = Nobody
  BY DEF Actors, IInv, Money, SettleRow, Busy, Settling
<1>2. /\ \A b \in Attempts \ {x} : /\ pc'[b] = pc[b] /\ op'[b] = op[b]
                                   /\ val'[b] = val[b] /\ src'[b] = src[b]
      /\ pc'[x] = "idle"
      /\ UNCHANGED <<sent, billed>>
  BY <1>1 DEF SettleRow, Forget, Goto, TypeOK
<1>3. /\ \A o \in Ops \ {op[x]} : rows'[o] = rows[o]
      /\ L!Settled(op[x]) => rows'[op[x]] = rows[op[x]]
      /\ ~L!Settled(op[x]) => /\ rows'[op[x]].state = "settled"
                              /\ rows'[op[x]].source = src[x] /\ rows'[op[x]].actual = val[x]
  BY <1>1 DEF SettleRow, L!SettledAs, TypeOK
<1>4. \A b \in Attempts : pc[b] # "idle" => op[b] \in Ops /\ Owner[op[b]] \in Principals
  BY <1>1 DEF Busy
<1>5. \A b \in Attempts : pc[b] = "insert" => op[b] # op[x]
  BY <1>1 DEF Money, Inserting
<1>6. x \in Attempts => \A b \in Attempts \ {x} : Holds(b) => op[b] # op[x]
  BY <1>1 DEF Money, OneHolder, Holds
<1>7. x \notin Attempts => src[x] = "administrative"
  BY <1>1 DEF Busy, Actors
<1>8. \A b \in Attempts : Holds(b)' => b # x /\ Holds(b)
  BY <1>2 DEF Holds, Settling
<1>9. OneHolder'
  <2> SUFFICES ASSUME NEW b \in Attempts, Holds(b)'
               PROVE  /\ ~L!Armable(op[b])'
                      /\ \A c \in Attempts \ {b} : op'[c] = op'[b] => ~Holds(c)'
    BY DEF OneHolder
  <2>1. /\ b # x /\ Holds(b) /\ op'[b] = op[b] /\ op[b] \in Ops /\ ~L!Armable(op[b])
        /\ \A c \in Attempts \ {b} : op[c] = op[b] => ~Holds(c)
    BY <1>1, <1>2, <1>4, <1>8 DEF Money, OneHolder, Holds, Settling
  <2>2. ~L!Armable(op[b])'
    BY <2>1, <1>3, <1>6, <1>7 DEF L!Armable, L!Refunded, L!Settled
  <2> QED
    BY <2>1, <2>2, <1>2, <1>8
<1>10. Inserting'
  <2> SUFFICES ASSUME NEW b \in Attempts, pc'[b] = "insert"
               PROVE  plock'[Owner[op'[b]]] = b /\ L!Armable(op[b])'
    BY DEF Inserting
  <2>1. /\ b # x /\ pc[b] = "insert" /\ op'[b] = op[b] /\ op[b] # op[x] /\ op[b] \in Ops
        /\ Owner[op[b]] \in Principals
    BY <1>2, <1>4, <1>5
  <2>2. plock[Owner[op[b]]] = b /\ L!Armable(op[b])
    BY <2>1, <1>1 DEF Money, Inserting
  <2>3. plock'[Owner[op[b]]] = b
    BY <2>1, <2>2 DEF SettleRow, Release
  <2> QED
    BY <2>1, <2>2, <2>3, <1>3 DEF L!Armable, L!Refunded, L!Settled
<1>11. HolderFacts'
  <2> SUFFICES ASSUME NEW b \in Attempts PROVE Knows(b)'
    BY DEF HolderFacts
  <2>1. Knows(b)
    BY <1>1 DEF Money, HolderFacts
  <2>2. CASE b = x
    BY <2>2, <1>2 DEF Knows, Settling
  <2>3. CASE b # x /\ Holds(b)
    <3>1. op[b] \in Ops
      BY <2>3, <1>4 DEF Holds, Settling
    <3>2. rows[op[b]].state = "sending" \/ ByAdmin(op[b])
            => rows'[op[b]].state = "sending" \/ ByAdmin(op[b])'
      BY <2>3, <3>1, <1>2, <1>3, <1>6, <1>7 DEF ByAdmin, L!Settled
    <3> QED
      BY <2>1, <2>3, <3>2, <1>2 DEF Knows, Settling
  <2>4. CASE b # x /\ ~Holds(b)
    BY <2>4, <1>2 DEF Knows, Holds, Settling
  <2> QED
    BY <2>2, <2>3, <2>4
<1>12. Unbilled' /\ PaidOnce'
  <2>1. x \in Attempts => \/ src[x] = "not_dispatched" /\ sent[op[x]] = 0
                          \/ src[x] = "provider" /\ val[x] = billed[op[x]]
    BY <1>1 DEF Money, HolderFacts, Knows
  <2>2. Unbilled' /\ \A o \in Ops \ {op[x]} : rows'[o] = rows[o]
    BY <1>1, <1>2, <1>3 DEF Money, Unbilled
  <2>3. \A o \in Ops : sent'[o] <= 1
    BY <1>1, <1>2 DEF Money, PaidOnce
  <2>4. ASSUME NEW o \in Ops, sent[o] = 1
        PROVE  \/ rows'[o].state = "sending"
               \/ L!Settled(o)' /\ rows'[o].source = "administrative"
               \/ L!Settled(o)' /\ rows'[o].source = "provider" /\ rows'[o].actual = billed[o]
    <3>1. \/ rows[o].state = "sending"
          \/ L!Settled(o) /\ rows[o].source = "administrative"
          \/ L!Settled(o) /\ rows[o].source = "provider" /\ rows[o].actual = billed[o]
      BY <2>4, <1>1 DEF Money, PaidOnce
    <3>2. CASE o # op[x] \/ L!Settled(o)
      BY <3>1, <3>2, <2>2, <1>3 DEF L!Settled
    <3>3. CASE o = op[x] /\ ~L!Settled(o)
      BY <3>3, <2>1, <2>4, <1>3, <1>7 DEF L!Settled
    <3> QED
      BY <3>2, <3>3
  <2> QED
    BY <2>2, <2>3, <2>4, <1>2 DEF PaidOnce
<1> QED
  BY <1>9, <1>10, <1>11, <1>12 DEF Money

-----------------------------------------------------------------------------
(* The theorems. *)

\* Every step preserves the invariant.
LEMMA InvNext == IInv /\ [Next]_vars => IInv'
<1> SUFFICES ASSUME IInv, [Next]_vars PROVE IInv'
  OBVIOUS
<1>1. TypeOK /\ Busy /\ Money
  BY DEF IInv, Money
<1>2. CASE UNCHANGED vars
  <2>1. TypeOK' /\ Busy'
    BY <1>1, <1>2
       DEF TypeOK, Busy, Settling, vars, ledgerVars, lockVars, slotVars, localVars
  <2>2. Money'
    BY <1>1, <1>2, QuietStep DEF vars, ledgerVars, lockVars, localVars
  <2> QED
    BY <2>1, <2>2 DEF IInv, Money
<1>3. CASE Next
  <2>1. TypeOK' /\ Busy'
    BY <1>1, <1>3, TypeNext, BusyNext
  <2>2. Money'
    BY <1>3, CheckAdmitsStep, ReserveStep, MarkDispatchStep, SendStep, SettleRowStep,
       QuietSteps
       DEF Next, Admission, Transport, Settlement
  <2> QED
    BY <2>1, <2>2 DEF IInv, Money
<1> QED
  BY <1>2, <1>3

\* In every run of any number of jobs, slots, attempts and administrators the ledger,
\* the locks and the local variables keep their types.
THEOREM BudgetTypeCorrect == Spec => []TypeOK
<1>1. IInv => TypeOK
  BY DEF IInv
<1> QED
  BY <1>1, InvInit, InvNext, PTL DEF Spec

\* Whatever is retried, delivered twice, interrupted or reconciled by hand, a paid
\* request is sent at most once and stays in the ledger.
THEOREM ChargedOnce == Spec => []PaidOnce
<1>1. IInv => PaidOnce
  BY DEF IInv
<1> QED
  BY <1>1, InvInit, InvNext, PTL DEF Spec

=============================================================================
