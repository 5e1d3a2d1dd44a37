-------------------------- MODULE CostLedger_proofs --------------------------
(***************************************************************************)
(* Proofs that the locked transactions of CostBudget implement the atomic     *)
(* steps of CostLedger, and that no window is charged more than a limit that  *)
(* was in force.                                                              *)
(***************************************************************************)
EXTENDS CostBudget_proofs, FiniteSums

-----------------------------------------------------------------------------
(* The sums of the ledger as functions of the rows r. *)

CountedTable(r) ==
    [o \in Ops |-> IF r[o].state = "settled" THEN r[o].actual ELSE r[o].units]
BoundedTable(r) ==
    [o \in Ops |-> IF r[o].state = "settled" /\ r[o].actual < r[o].units THEN r[o].actual
                   ELSE r[o].units]

Counting(row, t, length) ==
    \/ row.state \in {"reserved", "sending"}
    \/ row.state = "settled" /\ row.at + length > t
Window(r, p, t, length) == {o \in Ops : Owner[o] = p /\ Counting(r[o], t, length)}
Touched(r) == {o \in Ops : r[o].state # "none"}

SpentIn(r, p, t, length) == Total(CountedTable(r), Window(r, p, t, length))
BoundedIn(r, p, t, length) == Total(BoundedTable(r), Window(r, p, t, length))

\* A ledger with finitely many rows.
Ledger(r) == r \in [Ops -> L!Rows] /\ IsFiniteSet(Touched(r))

\* Tables count naturals, windows are finite sets of operations.
LEMMA TableTypes ==
    ASSUME NEW r, Ledger(r)
    PROVE  /\ CountedTable(r) \in [Ops -> Nat] /\ BoundedTable(r) \in [Ops -> Nat]
           /\ \A p, t, length : /\ Window(r, p, t, length) \in SUBSET Ops
                                /\ IsFiniteSet(Window(r, p, t, length))
<1>1. \A o \in Ops : r[o].actual \in Nat /\ r[o].units \in Nat
  BY DEF Ledger, L!Rows
<1>2. CountedTable(r) \in [Ops -> Nat] /\ BoundedTable(r) \in [Ops -> Nat]
  BY <1>1 DEF CountedTable, BoundedTable
<1>3. ASSUME NEW p, NEW t, NEW length
      PROVE  Window(r, p, t, length) \in SUBSET Ops /\ IsFiniteSet(Window(r, p, t, length))
  <2>1. Window(r, p, t, length) \in SUBSET Touched(r)
    BY DEF Window, Touched, Counting
  <2>2. IsFiniteSet(Window(r, p, t, length))
    BY <2>1, FS_Subset DEF Ledger
  <2> QED
    BY <2>2 DEF Window
<1> QED
  BY <1>2, <1>3

\* The budget of the code is the sum of the counted units of the rows in the window.
LEMMA SpentIsTotal ==
    Ledger(rows) => \A p, t, length : L!Spent(p, t, length) = SpentIn(rows, p, t, length)
<1> SUFFICES ASSUME Ledger(rows), NEW p, NEW t, NEW length
             PROVE  L!Spent(p, t, length) = SpentIn(rows, p, t, length)
  OBVIOUS
<1> DEFINE f == CountedTable(rows)
           S == Window(rows, p, t, length)
           Folds(g) == g = [s \in SUBSET S |->
                              IF s = {} THEN 0
                              ELSE L!Counted(CHOOSE x \in s : TRUE)
                                     + g[s \ {CHOOSE x \in s : TRUE}]]
<1>1. S \in SUBSET Ops /\ IsFiniteSet(S)
  BY TableTypes
<1>2. L!Spent(p, t, length) = (CHOOSE g : Folds(g))[S]
  <2>1. {o \in Ops : Owner[o] = p /\ L!InWindow(o, t, length)} = S
    BY DEF Window, Counting, L!InWindow, L!Unsettled, L!Settled
  <2>2. L!Spent(p, t, length) = L!MapThenSumSet(L!Counted, S)
    BY <2>1 DEF L!Spent
  <2> HIDE DEF S
  <2> QED
    BY <2>2 DEF L!MapThenSumSet, L!MapThenFoldSet
<1>3. ASSUME NEW g PROVE Folds(g) <=> SumsOf(g, f, S)
  <2>1. ASSUME NEW s \in SUBSET S, s # {} PROVE L!Counted(CHOOSE x \in s : TRUE) = f[First(s)]
    <3>1. First(s) \in Ops
      BY <2>1, <1>1 DEF First
    <3> QED
      BY <3>1 DEF First, CountedTable, L!Counted, L!Settled
  <2>2. [s \in SUBSET S |-> IF s = {} THEN 0
                            ELSE L!Counted(CHOOSE x \in s : TRUE)
                                   + g[s \ {CHOOSE x \in s : TRUE}]]
          = [s \in SUBSET S |-> IF s = {} THEN 0 ELSE f[First(s)] + g[s \ {First(s)}]]
    <3> HIDE DEF f, S
    <3> QED
      BY <2>1 DEF First
  <2> QED
    BY <2>2 DEF SumsOf
<1>4. SumsOf(CHOOSE g : Folds(g), f, S)
  <2>1. \E g : SumsOf(g, f, S)
    BY <1>1, SumsExist
  <2> HIDE DEF f, S, Folds
  <2>2. \E g : Folds(g)
    BY <2>1, <1>3
  <2> QED
    BY <2>2, <1>3
<1>5. (CHOOSE g : Folds(g))[S] = Total(f, S)
  <2> HIDE DEF f, S, Folds
  <2> QED
    BY <1>1, <1>4, SumsTotal
<1> QED
  BY <1>2, <1>5 DEF SpentIn

\* So is what WithinBudget bounds.
LEMMA WindowSpentIsTotal ==
    Ledger(rows) => \A p, length : WindowSpent(p, length) = BoundedIn(rows, p, clock, length)
<1> SUFFICES ASSUME Ledger(rows), NEW p, NEW length
             PROVE  WindowSpent(p, length) = BoundedIn(rows, p, clock, length)
  OBVIOUS
<1> DEFINE f == BoundedTable(rows)
           S == Window(rows, p, clock, length)
           Folds(g) == g = [s \in SUBSET S |->
                              IF s = {} THEN 0
                              ELSE Bounded(CHOOSE x \in s : TRUE)
                                     + g[s \ {CHOOSE x \in s : TRUE}]]
<1>1. S \in SUBSET Ops /\ IsFiniteSet(S)
  BY TableTypes
<1>2. WindowSpent(p, length) = (CHOOSE g : Folds(g))[S]
  <2>1. {o \in Ops : Owner[o] = p /\ L!InWindow(o, clock, length)} = S
    BY DEF Window, Counting, L!InWindow, L!Unsettled, L!Settled
  <2>2. WindowSpent(p, length) = MapThenSumSet(Bounded, S)
    BY <2>1 DEF WindowSpent
  <2> HIDE DEF S
  <2> QED
    BY <2>2 DEF MapThenSumSet, MapThenFoldSet
<1>3. ASSUME NEW g PROVE Folds(g) <=> SumsOf(g, f, S)
  <2>1. ASSUME NEW s \in SUBSET S, s # {} PROVE Bounded(CHOOSE x \in s : TRUE) = f[First(s)]
    <3>1. First(s) \in Ops
      BY <2>1, <1>1 DEF First
    <3> QED
      BY <3>1 DEF First, BoundedTable, Bounded, L!Settled
  <2>2. [s \in SUBSET S |-> IF s = {} THEN 0
                            ELSE Bounded(CHOOSE x \in s : TRUE)
                                   + g[s \ {CHOOSE x \in s : TRUE}]]
          = [s \in SUBSET S |-> IF s = {} THEN 0 ELSE f[First(s)] + g[s \ {First(s)}]]
    <3> HIDE DEF f, S
    <3> QED
      BY <2>1 DEF First
  <2> QED
    BY <2>2 DEF SumsOf
<1>4. SumsOf(CHOOSE g : Folds(g), f, S)
  <2>1. \E g : SumsOf(g, f, S)
    BY <1>1, SumsExist
  <2> HIDE DEF f, S, Folds
  <2>2. \E g : Folds(g)
    BY <2>1, <1>3
  <2> QED
    BY <2>2, <1>3
<1>5. (CHOOSE g : Folds(g))[S] = Total(f, S)
  <2> HIDE DEF f, S, Folds
  <2> QED
    BY <1>1, <1>4, SumsTotal
<1> QED
  BY <1>2, <1>5 DEF BoundedIn

-----------------------------------------------------------------------------
(* How the sums change. *)

\* A window loses rows as time goes by, never wins one.
LEMMA SpentLater ==
    ASSUME NEW r, Ledger(r), NEW p, NEW t \in Nat, NEW u \in Nat, t <= u, NEW length \in Nat
    PROVE  SpentIn(r, p, u, length) <= SpentIn(r, p, t, length)
<1>1. Window(r, p, u, length) \in SUBSET Window(r, p, t, length)
  BY DEF Window, Counting, Ledger, L!Rows
<1>2. /\ CountedTable(r) \in [Ops -> Nat]
      /\ Window(r, p, t, length) \in SUBSET Ops /\ IsFiniteSet(Window(r, p, t, length))
  BY TableTypes
<1>3. \A x \in Window(r, p, u, length) : CountedTable(r)[x] <= CountedTable(r)[x]
  BY <1>1, <1>2
<1> QED
  BY <1>1, <1>2, <1>3, TotalMonotone DEF SpentIn

\* Rows that count alike for a principal leave what it spent.
LEMMA SpentAlike ==
    ASSUME NEW r, Ledger(r), NEW q, Ledger(q), NEW p, NEW t, NEW length,
           \A o \in Ops : Owner[o] = p =>
             /\ Counting(q[o], t, length) <=> Counting(r[o], t, length)
             /\ CountedTable(q)[o] = CountedTable(r)[o]
    PROVE  SpentIn(q, p, t, length) = SpentIn(r, p, t, length)
<1> DEFINE S == Window(r, p, t, length)
           f == CountedTable(r)
           g == CountedTable(q)
<1>1. Window(q, p, t, length) = S /\ \A x \in S : f[x] = g[x]
  BY DEF Window
<1>2. f \in [Ops -> Nat] /\ g \in [Ops -> Nat] /\ S \in SUBSET Ops /\ IsFiniteSet(S)
  BY TableTypes
<1>3. Total(f, S) <= Total(g, S) /\ Total(g, S) <= Total(f, S)
  <2> HIDE DEF f, g, S
  <2>1. \A x \in S : f[x] <= g[x] /\ g[x] <= f[x]
    BY <1>1, <1>2
  <2> QED
    BY <2>1, <1>2, TotalMonotone
<1>4. Total(f, S) \in Nat /\ Total(g, S) \in Nat
  <2> HIDE DEF f, g, S
  <2> QED
    BY <1>2, TotalType
<1>5. Total(f, S) = Total(g, S)
  <2> HIDE DEF f, g, S
  <2> QED
    BY <1>3, <1>4
<1> QED
  BY <1>1, <1>5 DEF SpentIn

\* Fewer rows that count less have a smaller bounded sum.
LEMMA BoundedShrinks ==
    ASSUME NEW r, Ledger(r), NEW q, Ledger(q), NEW p, NEW t, NEW u, NEW length,
           \A o \in Ops : Owner[o] = p /\ Counting(q[o], u, length) =>
             /\ Counting(r[o], t, length)
             /\ BoundedTable(q)[o] <= BoundedTable(r)[o]
    PROVE  BoundedIn(q, p, u, length) <= BoundedIn(r, p, t, length)
<1>1. Window(q, p, u, length) \in SUBSET Window(r, p, t, length)
  BY DEF Window
<1>2. /\ BoundedTable(r) \in [Ops -> Nat] /\ BoundedTable(q) \in [Ops -> Nat]
      /\ Window(r, p, t, length) \in SUBSET Ops /\ IsFiniteSet(Window(r, p, t, length))
  BY TableTypes
<1>3. \A x \in Window(q, p, u, length) : BoundedTable(q)[x] <= BoundedTable(r)[x]
  BY DEF Window
<1> QED
  BY <1>1, <1>2, <1>3, TotalMonotone DEF BoundedIn

\* An armed row adds its price to what its principal had spent.
LEMMA BoundedAdds ==
    ASSUME NEW r, Ledger(r), NEW q, Ledger(q), NEW o \in Ops, NEW t, NEW length, NEW price \in Nat,
           q[o].state = "reserved", q[o].units = price,
           \A x \in Ops \ {o} : q[x] = r[x]
    PROVE  BoundedIn(q, Owner[o], t, length) <= SpentIn(r, Owner[o], t, length) + price
<1> DEFINE f == BoundedTable(q)
           g == CountedTable(r)
           S == Window(q, Owner[o], t, length)
           T == Window(r, Owner[o], t, length)
<1>1. /\ f \in [Ops -> Nat] /\ g \in [Ops -> Nat]
      /\ S \in SUBSET Ops /\ IsFiniteSet(S) /\ T \in SUBSET Ops /\ IsFiniteSet(T)
  BY TableTypes
<1>2. o \in S /\ f[o] = price
  BY DEF Window, Counting, BoundedTable
<1>3. S \ {o} \in SUBSET T
  BY DEF Window
<1>4. \A x \in S \ {o} : f[x] <= g[x]
  <2> SUFFICES ASSUME NEW x \in S \ {o} PROVE f[x] <= g[x]
    OBVIOUS
  <2>1. x \in Ops /\ x # o /\ q[x] = r[x]
    BY <1>1
  <2>2. q[x].actual \in Nat /\ q[x].units \in Nat
    BY <2>1 DEF Ledger, L!Rows
  <2> QED
    BY <2>1, <2>2 DEF BoundedTable, CountedTable
<1>5. Total(f, S) = f[o] + Total(f, S \ {o})
  <2> HIDE DEF f, S
  <2> QED
    BY <1>1, <1>2, TotalRemove
<1>6. Total(f, S \ {o}) <= Total(g, T) /\ Total(g, T) \in Nat /\ Total(f, S \ {o}) \in Nat
  <2> HIDE DEF f, g, S, T
  <2>1. IsFiniteSet(S \ {o}) /\ S \ {o} \in SUBSET Ops
    BY <1>1, FS_RemoveElement
  <2> QED
    BY <2>1, <1>1, <1>3, <1>4, TotalMonotone, TotalType
<1>7. Total(f, S) <= Total(g, T) + price
  <2> HIDE DEF f, g, S, T
  <2> QED
    BY <1>2, <1>5, <1>6
<1> QED
  BY <1>7 DEF BoundedIn, SpentIn

-----------------------------------------------------------------------------
(* The invariant. *)

FitsIn(r, p, v, limit, t) ==
    /\ SpentIn(r, p, t, Hour) + Price[v] <= limit.hour
    /\ SpentIn(r, p, t, Day) + Price[v] <= limit.day

\* A settlement of a tariff excludes its reservations while it holds the lock.
LockFacts ==
    /\ \A v \in Versions : writer[v] # Nobody => readers[v] = {}
    /\ \A a \in Attempts : pc[a] \in {"principal", "insert"} => a \in readers[ver[a]]
    /\ \A x \in Actors : pc[x] = "settle row" => writer[ver[x]] = x

\* What an actor holds in its variables was true when it read it, or still is.
LocalFacts ==
    /\ \A x \in Actors : t0[x] <= clock /\ val[x] \in Charges \cup {0}
    /\ \A a \in Attempts : pc[a] \in {"tariff", "principal", "insert"} => lim[a] \in offered
    /\ \A x \in Actors : Settling(x) => rows[op[x]].state # "none"
    /\ \A o \in Ops : billed[o] \in Charges \cup {0}

\* At every moment there are finitely many rows and policies.
FiniteFacts ==
    /\ IsFiniteSet(Touched(rows))
    /\ IsFiniteSet({limit.hour : limit \in offered})
    /\ IsFiniteSet({limit.day : limit \in offered})

\* What was admitted still fits when it is inserted.
FitFacts ==
    \A a \in Attempts : pc[a] = "insert" =>
        FitsIn(rows, Owner[op[a]], ver[a], lim[a], t0[a])

\* Each window is within a policy that has been in force.
SpentFacts ==
    \A p \in Principals :
        /\ \E limit \in offered : BoundedIn(rows, p, clock, Hour) <= limit.hour
        /\ \E limit \in offered : BoundedIn(rows, p, clock, Day) <= limit.day

LInv == IInv /\ LockFacts /\ LocalFacts /\ FiniteFacts /\ FitFacts /\ SpentFacts

\* Without administrators, or with a single tariff version, a settlement locks the
\* version of its row, and no reservation is made under an exceeded one.
Steady == Admins = {} \/ \A v, w \in Versions : v = w
TariffFacts ==
    /\ \A x \in Actors : pc[x] \in {"settle tariff", "settle row"} => rows[op[x]].version = ver[x]
    /\ \A a \in Attempts : pc[a] = "insert" => ~L!Violated(ver[a])

-----------------------------------------------------------------------------
(* What the steps leave alone. *)

\* Three operations write rows.
LEMMA RowSteps ==
    ASSUME Next
    PROVE  \/ UNCHANGED rows
           \/ \E a \in Attempts : Reserve(a) \/ MarkDispatch(a)
           \/ \E x \in Actors : SettleRow(x)
<1>1. ASSUME Env PROVE UNCHANGED rows
  BY <1>1 DEF Env, L!Tick, L!Publish, L!SetPolicy
<1>2. ASSUME NEW s \in Slots, Crash(s) \/ \E j \in Jobs : StartJob(s, j) PROVE UNCHANGED rows
  BY <1>2 DEF Crash, StartJob, ledgerVars
<1>3. ASSUME NEW a \in Attempts, Admission(a), ~Reserve(a) PROVE UNCHANGED rows
  BY <1>3 DEF Admission, Identify, LockTariffShared, CheckAdmits, CheckRefuses, ledgerVars
<1>4. ASSUME NEW a \in Attempts, Transport(a), ~MarkDispatch(a) PROVE UNCHANGED rows
  BY <1>4 DEF Transport, GiveUp, Send, Usage, NoUsage, ledgerVars
<1>5. ASSUME NEW x \in Actors, Settlement(x), ~SettleRow(x) PROVE UNCHANGED rows
  BY <1>5 DEF Settlement, ReadTariff, LockTariff, Fail, ledgerVars
<1>6. ASSUME NEW x \in Admins, NEW o \in Ops, NEW u \in Charges, Reconcile(x, o, u)
      PROVE  UNCHANGED rows
  BY <1>6 DEF Reconcile, ledgerVars
<1> QED
  BY <1>1, <1>2, <1>3, <1>4, <1>5, <1>6 DEF Next

\* Only the environment moves the clock and changes the policy.
LEMMA EnvKeeps ==
    ASSUME Next, ~Env
    PROVE  UNCHANGED <<offered, clock>>
<1> USE DEF ledgerVars
<1>2. ASSUME NEW s \in Slots, Crash(s) \/ \E j \in Jobs : StartJob(s, j)
      PROVE  UNCHANGED <<offered, clock>>
  BY <1>2 DEF Crash, StartJob
<1>3. ASSUME NEW a \in Attempts, Admission(a) PROVE UNCHANGED <<offered, clock>>
  BY <1>3 DEF Admission, Identify, LockTariffShared, CheckAdmits, CheckRefuses, Reserve
<1>4. ASSUME NEW a \in Attempts, Transport(a) PROVE UNCHANGED <<offered, clock>>
  BY <1>4 DEF Transport, MarkDispatch, GiveUp, Send, Usage, NoUsage
<1>5. ASSUME NEW x \in Actors, Settlement(x) PROVE UNCHANGED <<offered, clock>>
  BY <1>5 DEF Settlement, ReadTariff, LockTariff, SettleRow, Fail
<1>6. ASSUME NEW x \in Admins, NEW o \in Ops, NEW u \in Charges, Reconcile(x, o, u)
      PROVE  UNCHANGED <<offered, clock>>
  BY <1>6 DEF Reconcile
<1> QED
  BY <1>2, <1>3, <1>4, <1>5, <1>6 DEF Next

\* The clock only moves forward, and only while no row is written; policies are kept.
LEMMA EnvSteps ==
    ASSUME TypeOK, Next
    PROVE  /\ offered \subseteq offered'
           /\ clock' = clock \/ (clock' = clock + 1 /\ UNCHANGED <<rows, offered>>)
<1>1. CASE Env
  BY <1>1 DEF Env, L!Tick, L!Publish, L!SetPolicy
<1>2. CASE ~Env
  BY <1>2, EnvKeeps
<1> QED
  BY <1>1, <1>2

\* An attempt that is about to insert was there before, or has just been admitted.
LEMMA Inserters ==
    ASSUME TypeOK, Next, NEW a \in Attempts, pc'[a] = "insert"
    PROVE  \/ CheckAdmits(a)
           \/ /\ pc[a] = "insert"
              /\ op'[a] = op[a] /\ ver'[a] = ver[a] /\ lim'[a] = lim[a] /\ t0'[a] = t0[a]
<1> DEFINE Kept == /\ pc[a] = "insert" /\ op'[a] = op[a] /\ ver'[a] = ver[a]
                   /\ lim'[a] = lim[a] /\ t0'[a] = t0[a]
<1> USE DEF localVars
<1>0. a \in Actors
  BY DEF Actors
<1>1. ASSUME Env PROVE Kept
  BY <1>1 DEF Env
<1>2. ASSUME NEW s \in Slots, Crash(s) \/ \E j \in Jobs : StartJob(s, j) PROVE Kept
  BY <1>0, <1>2 DEF Crash, StartJob
<1>3. ASSUME NEW b \in Attempts, Admission(b), ~(b = a /\ CheckAdmits(a)) PROVE Kept
  <2>1. b \in Actors
    BY DEF Actors
  <2>2. CASE \E o \in Ops : Identify(b, o)
    BY <1>0, <2>1, <2>2 DEF Identify, Goto, TypeOK
  <2>3. CASE LockTariffShared(b) \/ CheckAdmits(b) \/ Reserve(b)
    BY <1>0, <1>3, <2>1, <2>3 DEF LockTariffShared, CheckAdmits, Reserve, Goto, TypeOK
  <2>4. CASE CheckRefuses(b)
    BY <1>0, <2>1, <2>4 DEF CheckRefuses, Forget, Goto, TypeOK
  <2> QED
    BY <1>3, <2>2, <2>3, <2>4 DEF Admission
<1>4. ASSUME NEW b \in Attempts, Transport(b) PROVE Kept
  <2>1. b \in Actors
    BY DEF Actors
  <2> QED
    BY <1>0, <1>4, <2>1
       DEF Transport, MarkDispatch, GiveUp, StartRefund, Send, Usage, NoUsage, Forget, Goto,
           TypeOK
<1>5. ASSUME NEW x \in Actors, Settlement(x) PROVE Kept
  <2>1. CASE ReadTariff(x)
    BY <1>0, <2>1 DEF ReadTariff, Goto, TypeOK
  <2>2. CASE LockTariff(x)
    BY <1>0, <2>2 DEF LockTariff, Goto, TypeOK
  <2>3. CASE Forget(x)
    BY <1>0, <2>3 DEF Forget, Goto, TypeOK
  <2> QED
    BY <1>5, <2>1, <2>2, <2>3 DEF Settlement, SettleRow, Fail
<1>6. ASSUME NEW x \in Admins, NEW o \in Ops, NEW u \in Charges, Reconcile(x, o, u) PROVE Kept
  <2>1. x \in Actors
    BY DEF Actors
  <2> QED
    BY <1>0, <1>6, <2>1 DEF Reconcile, Goto, TypeOK
<1> QED
  BY <1>1, <1>2, <1>3, <1>4, <1>5, <1>6 DEF Next

-----------------------------------------------------------------------------
(* Each part of the invariant is kept. *)

\* The members of m release their locks; the others keep theirs, and what they know.
Frees(m) ==
    /\ \A v \in Versions : /\ readers'[v] = readers[v] \ m
                           /\ writer'[v] = IF writer[v] \in m THEN Nobody ELSE writer[v]
    /\ \A x \in Actors : \/ x \notin m /\ pc'[x] = pc[x] /\ ver'[x] = ver[x]
                         \/ pc'[x] \notin {"principal", "insert", "settle row"}

LEMMA LocksKept ==
    ASSUME TypeOK, LockFacts, NEW m \in SUBSET Actors, Frees(m)
    PROVE  LockFacts'
<1>1. /\ Attempts \subseteq Actors /\ Nobody \notin Actors
      /\ \A x \in Actors : ver[x] \in Versions
  BY SlotAssumption, SentinelAssumption DEF Actors, TypeOK
<1>2. \A v \in Versions : writer'[v] # Nobody => readers'[v] = {}
  BY DEF Frees, LockFacts
<1>3. ASSUME NEW a \in Attempts, pc'[a] \in {"principal", "insert"} PROVE a \in readers'[ver'[a]]
  <2>1. a \in Actors /\ a \notin m /\ pc'[a] = pc[a] /\ ver'[a] = ver[a]
    BY <1>1, <1>3 DEF Frees
  <2>2. a \in readers[ver[a]] /\ ver[a] \in Versions
    BY <1>1, <1>3, <2>1 DEF LockFacts
  <2>3. readers'[ver[a]] = readers[ver[a]] \ m
    BY <2>2 DEF Frees
  <2> QED
    BY <2>1, <2>2, <2>3
<1>4. ASSUME NEW x \in Actors, pc'[x] = "settle row" PROVE writer'[ver'[x]] = x
  <2>1. x \notin m /\ pc'[x] = pc[x] /\ ver'[x] = ver[x]
    BY <1>4 DEF Frees
  <2>2. writer[ver[x]] = x /\ ver[x] \in Versions
    BY <1>1, <1>4, <2>1 DEF LockFacts
  <2>3. writer'[ver[x]] = writer[ver[x]]
    BY <2>1, <2>2 DEF Frees
  <2> QED
    BY <2>1, <2>2, <2>3
<1> QED
  BY <1>2, <1>3, <1>4 DEF LockFacts

\* The tariff locks: shared by reservations, exclusive for a settlement.
LEMMA LockNext ==
    ASSUME IInv, LockFacts, Next
    PROVE  LockFacts'
<1> USE LedgerAssumption, SlotAssumption, SentinelAssumption
<1>0. /\ Attempts \subseteq Actors /\ Admins \subseteq Actors /\ Nobody \notin Actors
      /\ pc \in [Actors -> PcValues] /\ ver \in [Actors -> Versions]
      /\ readers \in [Versions -> SUBSET Actors] /\ writer \in [Versions -> Actors \cup {Nobody}]
      /\ TypeOK /\ \A x \in Actors : {x} \in SUBSET Actors
      /\ \A x \in Admins : pc[x] \notin {"principal", "insert"}
  BY DEF Actors, IInv, TypeOK, Busy, Settling
<1>1. ASSUME NEW s \in Slots, Crash(s) PROVE LockFacts'
  <2> DEFINE mine == {a \in Attempts : SlotOf[a] = s}
  <2>1. mine \in SUBSET Actors /\ Frees(mine)
    BY <1>0, <1>1 DEF Crash, Frees
  <2> QED
    BY <1>0, <2>1, LocksKept
<1>2. ASSUME \/ \E s \in Slots, j \in Jobs : StartJob(s, j)
             \/ \E a \in Attempts : MarkDispatch(a) \/ \E charge \in Charges : Send(a, charge)
             \/ Env
      PROVE  LockFacts'
  <2>1. Frees({})
    BY <1>0, <1>2 DEF StartJob, MarkDispatch, Send, Goto, Env, Frees, lockVars, localVars
  <2> QED
    BY <1>0, <2>1, LocksKept
<1>3. ASSUME NEW a \in Attempts, NEW o \in Ops, Identify(a, o) PROVE LockFacts'
  <2>1. Frees({})
    BY <1>0, <1>3 DEF Identify, Goto, Frees, lockVars
  <2> QED
    BY <1>0, <2>1, LocksKept
<1>4. ASSUME NEW a \in Attempts, GiveUp(a) \/ Usage(a) \/ NoUsage(a) PROVE LockFacts'
  <2>1. pc' = [pc EXCEPT ![a] = "settle"] \/ pc' = [pc EXCEPT ![a] = "idle"]
    BY <1>4 DEF GiveUp, StartRefund, Usage, NoUsage, Forget, Goto
  <2>2. /\ UNCHANGED <<readers, writer>>
        /\ ver' = ver \/ ver' = [ver EXCEPT ![a] = 1]
    BY <1>4 DEF GiveUp, Usage, NoUsage, Forget, lockVars
  <2>3. Frees({})
    BY <1>0, <2>1, <2>2 DEF Frees
  <2> QED
    BY <1>0, <2>3, LocksKept
<1>5. ASSUME NEW x \in Admins, NEW o \in Ops, NEW u \in Charges, Reconcile(x, o, u)
      PROVE  LockFacts'
  <2>1. Frees({})
    BY <1>0, <1>5 DEF Reconcile, Goto, Frees, lockVars
  <2> QED
    BY <1>0, <2>1, LocksKept
<1>6. ASSUME NEW x \in Actors, ReadTariff(x) PROVE LockFacts'
  <2>1. Frees({})
    BY <1>0, <1>6 DEF ReadTariff, Goto, Frees, lockVars
  <2> QED
    BY <1>0, <2>1, LocksKept
<1>7. ASSUME NEW x \in Actors, Release(x), pc'[x] \in {"idle", "admitted"},
             \A y \in Actors \ {x} : pc'[y] = pc[y] /\ ver'[y] = ver[y]
      PROVE  LockFacts'
  <2>1. Frees({x})
    BY <1>0, <1>7 DEF Release, Frees
  <2> QED
    BY <1>0, <2>1, LocksKept
<1>8. ASSUME NEW x \in Actors, Forget(x)
      PROVE  pc'[x] = "idle" /\ \A y \in Actors \ {x} : pc'[y] = pc[y] /\ ver'[y] = ver[y]
  BY <1>0, <1>8 DEF Forget, Goto
<1>9. ASSUME NEW a \in Attempts, CheckRefuses(a) \/ Reserve(a) PROVE LockFacts'
  <2>1. CASE CheckRefuses(a)
    BY <1>0, <1>7, <1>8, <2>1 DEF CheckRefuses
  <2>2. CASE Reserve(a)
    BY <1>0, <1>7, <2>2 DEF Reserve, Goto, localVars
  <2> QED
    BY <1>9, <2>1, <2>2
<1>10. ASSUME NEW x \in Actors, SettleRow(x) \/ Fail(x) PROVE LockFacts'
  BY <1>7, <1>8, <1>10 DEF SettleRow, Fail
<1>11. ASSUME NEW a \in Attempts, LockTariffShared(a) PROVE LockFacts'
  <2>1. /\ pc' = [pc EXCEPT ![a] = "principal"] /\ ver' = ver /\ writer' = writer
        /\ writer[ver[a]] = Nobody /\ readers' = [readers EXCEPT ![ver[a]] = @ \cup {a}]
    BY <1>11 DEF LockTariffShared, Goto, localVars
  <2>2. ver[a] \in Versions /\ \A v \in Versions :
          readers'[v] = IF v = ver[a] THEN readers[v] \cup {a} ELSE readers[v]
    BY <1>0, <2>1
  <2>3. \A v \in Versions : writer'[v] # Nobody => readers'[v] = {}
    BY <2>1, <2>2 DEF LockFacts
  <2>4. ASSUME NEW b \in Attempts, pc'[b] \in {"principal", "insert"}
        PROVE  b \in readers'[ver'[b]]
    <3>1. CASE b = a
      <4>1. readers'[ver[a]] = readers[ver[a]] \cup {a}
        BY <2>2
      <4>2. ver'[b] = ver[a]
        BY <2>1, <3>1
      <4> QED
        BY <3>1, <4>1, <4>2
    <3>2. CASE b # a
      <4>1. b \in readers[ver[b]] /\ ver[b] \in Versions /\ ver'[b] = ver[b]
        BY <1>0, <2>1, <2>4, <3>2 DEF LockFacts
      <4> QED
        BY <2>2, <4>1
    <3> QED
      BY <3>1, <3>2
  <2>5. ASSUME NEW x \in Actors, pc'[x] = "settle row" PROVE writer'[ver'[x]] = x
    <3>1. pc[x] = "settle row"
      BY <1>0, <2>1, <2>5
    <3> QED
      BY <2>1, <3>1 DEF LockFacts
  <2> QED
    BY <2>3, <2>4, <2>5 DEF LockFacts
<1>12. ASSUME NEW a \in Attempts, CheckAdmits(a) PROVE LockFacts'
  <2>1. /\ pc[a] = "principal" /\ pc' = [pc EXCEPT ![a] = "insert"] /\ ver' = ver
        /\ writer' = writer /\ readers' = readers
    BY <1>12 DEF CheckAdmits, Goto, localVars
  <2> QED
    BY <1>0, <2>1 DEF LockFacts
<1>13. ASSUME NEW x \in Actors, LockTariff(x) PROVE LockFacts'
  <2>1. /\ pc' = [pc EXCEPT ![x] = "settle row"] /\ ver' = ver /\ readers' = readers
        /\ readers[ver[x]] = {} /\ writer[ver[x]] = Nobody
        /\ writer' = [writer EXCEPT ![ver[x]] = x]
    BY <1>13 DEF LockTariff, Goto, localVars
  <2>2. ver[x] \in Versions /\ \A v \in Versions :
          writer'[v] = IF v = ver[x] THEN x ELSE writer[v]
    BY <1>0, <2>1
  <2>3. \A v \in Versions : writer'[v] # Nobody => readers'[v] = {}
    BY <2>1, <2>2 DEF LockFacts
  <2>4. ASSUME NEW b \in Attempts, pc'[b] \in {"principal", "insert"}
        PROVE  b \in readers'[ver'[b]]
    <3>1. pc[b] \in {"principal", "insert"}
      BY <1>0, <2>1, <2>4
    <3> QED
      BY <2>1, <3>1 DEF LockFacts
  <2>5. ASSUME NEW y \in Actors, pc'[y] = "settle row" PROVE writer'[ver'[y]] = y
    <3>1. CASE y = x
      BY <2>1, <2>2, <3>1
    <3>2. CASE y # x
      <4>0. pc[y] = "settle row"
        BY <1>0, <2>1, <2>5, <3>2
      <4>1. writer[ver[y]] = y /\ ver[y] \in Versions
        BY <1>0, <4>0 DEF LockFacts
      <4>2. ver[y] # ver[x]
        BY <1>0, <2>1, <4>1
      <4> QED
        BY <2>1, <2>2, <4>1, <4>2
    <3> QED
      BY <3>1, <3>2
  <2> QED
    BY <2>3, <2>4, <2>5 DEF LockFacts
<1> QED
  BY <1>1, <1>2, <1>3, <1>4, <1>5, <1>6, <1>9, <1>10, <1>11, <1>12, <1>13
     DEF Next, Admission, Transport, Settlement

\* Rows do not disappear.
LEMMA RowsStay ==
    ASSUME IInv, Next, NEW o \in Ops, rows[o].state # "none"
    PROVE  rows'[o].state # "none"
<1> USE LedgerAssumption, SlotAssumption, SentinelAssumption
<1>0. /\ Attempts \subseteq Actors /\ TypeOK /\ Busy /\ rows \in [Ops -> L!Rows]
  BY DEF Actors, IInv, TypeOK
<1>1. ASSUME NEW a \in Attempts, Reserve(a) \/ MarkDispatch(a) PROVE rows'[o].state # "none"
  <2>1. op[a] \in Ops
    BY <1>0, <1>1 DEF Reserve, MarkDispatch, Busy
  <2> QED
    <3>1. CASE Reserve(a)
      BY <1>0, <2>1, <3>1 DEF Reserve, L!Armed
    <3>2. CASE MarkDispatch(a)
      <4>1. rows' = [rows EXCEPT ![op[a]] = [rows[op[a]] EXCEPT !.state = "sending"]]
        BY <3>2 DEF MarkDispatch, L!Sending
      <4> QED
        BY <1>0, <2>1, <4>1 DEF L!Rows
    <3> QED
      BY <1>1, <3>1, <3>2
<1>2. ASSUME NEW x \in Actors, SettleRow(x) PROVE rows'[o].state # "none"
  <2>1. op[x] \in Ops
    BY <1>0, <1>2 DEF SettleRow, Busy
  <2> QED
    BY <1>0, <1>2, <2>1 DEF SettleRow, L!SettledAs
<1> QED
  BY <1>1, <1>2, RowSteps

\* What the actors have read stays true of the clock, the policies and the rows.
LEMMA LocalNext ==
    ASSUME IInv, LocalFacts, Next
    PROVE  LocalFacts'
<1> USE LedgerAssumption, SlotAssumption, SentinelAssumption
<1>0. /\ Attempts \subseteq Actors /\ Admins \subseteq Actors /\ TypeOK /\ Busy
      /\ clock \in Nat /\ clock' >= clock /\ offered \subseteq offered' /\ clock' \in Nat
  BY EnvSteps DEF Actors, IInv, TypeOK
<1>a. \A o \in Ops : rows[o].state # "none" => rows'[o].state # "none"
  BY RowsStay
<1>b. \A x \in Actors : t0[x] \in Nat /\ t0[x] <= clock /\ t0[x] <= clock' /\ 0 <= clock'
  BY <1>0 DEF LocalFacts, TypeOK
<1>c. \A a \in Attempts : pc[a] \in {"admitted", "marked", "sent"}
                            => op[a] \in Ops /\ rows[op[a]].state # "none"
  <2>1. \A a \in Attempts : Holds(a) => ~L!Armable(op[a])
    BY DEF IInv, OneHolder
  <2> QED
    BY <1>0, <2>1 DEF Holds, Busy, L!Armable
<1>f. ASSUME NEW x \in Actors, Forget(x), UNCHANGED <<billed, clock, offered>>
      PROVE  LocalFacts'
  <2>1. /\ pc' = [pc EXCEPT ![x] = "idle"]
        /\ \A y \in Actors : y # x => /\ op'[y] = op[y] /\ lim'[y] = lim[y]
                                      /\ t0'[y] = t0[y] /\ val'[y] = val[y]
        /\ t0'[x] = 0 /\ val'[x] = 0
    BY <1>0, <1>f DEF Forget, Goto, TypeOK
  <2>2. \A y \in Actors : Settling(y)' => y # x /\ Settling(y) /\ op[y] \in Ops
    BY <1>0, <2>1 DEF Settling, Busy, TypeOK
  <2>3. \A y \in Actors : Settling(y)' => rows'[op'[y]].state # "none"
    BY <1>a, <2>1, <2>2 DEF LocalFacts
  <2>4. \A y \in Actors : t0'[y] <= clock' /\ val'[y] \in Charges \cup {0}
    BY <1>b, <2>1 DEF LocalFacts
  <2>5. \A a \in Attempts : pc'[a] \in {"tariff", "principal", "insert"} => lim'[a] \in offered'
    BY <1>0, <1>f, <2>1 DEF LocalFacts, TypeOK
  <2> QED
    BY <1>f, <2>3, <2>4, <2>5 DEF LocalFacts
<1>1. ASSUME NEW s \in Slots, Crash(s) PROVE LocalFacts'
  BY <1>0, <1>a, <1>b, <1>1 DEF LocalFacts, Crash, TypeOK, Settling, ledgerVars
<1>2. ASSUME NEW s \in Slots, NEW j \in Jobs, StartJob(s, j) PROVE LocalFacts'
  BY <1>2 DEF LocalFacts, StartJob, ledgerVars, lockVars, localVars, Settling
<1>3. ASSUME NEW a \in Attempts, NEW o \in Ops, Identify(a, o) PROVE LocalFacts'
  BY <1>0, <1>3 DEF LocalFacts, Identify, Goto, TypeOK, ledgerVars, Settling
<1>4. ASSUME NEW a \in Attempts, LockTariffShared(a) PROVE LocalFacts'
  BY <1>0, <1>4 DEF LocalFacts, LockTariffShared, Goto, TypeOK, ledgerVars, localVars, Settling
<1>5. ASSUME NEW a \in Attempts, CheckAdmits(a) PROVE LocalFacts'
  BY <1>0, <1>5 DEF LocalFacts, CheckAdmits, Goto, TypeOK, ledgerVars, localVars, Settling
<1>6. ASSUME NEW a \in Attempts, CheckRefuses(a) PROVE LocalFacts'
  BY <1>0, <1>f, <1>6 DEF CheckRefuses, ledgerVars
<1>7. ASSUME NEW a \in Attempts, Reserve(a) PROVE LocalFacts'
  <2>1. \A x \in Actors : Settling(x) => op[x] \in Ops /\ rows[op[x]].state # "none"
    BY <1>0 DEF LocalFacts, Busy, Settling
  <2> QED
    BY <1>0, <1>a, <1>b, <1>7, <2>1
       DEF LocalFacts, Reserve, Goto, TypeOK, localVars, Settling
<1>8. ASSUME NEW a \in Attempts, MarkDispatch(a) PROVE LocalFacts'
  <2>1. \A x \in Actors : Settling(x) => op[x] \in Ops /\ rows[op[x]].state # "none"
    BY <1>0 DEF LocalFacts, Busy, Settling
  <2> QED
    BY <1>0, <1>a, <1>b, <1>8, <2>1
       DEF LocalFacts, MarkDispatch, Goto, TypeOK, localVars, Settling
<1>9. ASSUME NEW a \in Attempts, NEW charge \in Charges, Send(a, charge) PROVE LocalFacts'
  <2>1. op[a] \in Ops /\ billed[op[a]] = 0 /\ billed \in [Ops -> Nat] /\ charge \in Nat
    BY <1>0, <1>9 DEF IInv, Send, Busy, HolderFacts, Knows, Unbilled, TypeOK
  <2>2. /\ billed' = [billed EXCEPT ![op[a]] = charge]
        /\ pc' = [pc EXCEPT ![a] = "sent"] /\ UNCHANGED <<rows, clock, offered, localVars>>
    BY <1>9, <2>1 DEF Send, Goto
  <2>3. UNCHANGED <<rows, clock, offered, op, lim, t0, val>>
    BY <2>2 DEF localVars
  <2>4. \A o \in Ops : billed'[o] \in Charges \cup {0}
    BY <2>1, <2>2 DEF LocalFacts
  <2>5. \A x \in Actors : pc'[x] # pc[x] => x = a /\ pc'[x] = "sent"
    BY <1>0, <2>2 DEF TypeOK
  <2> QED
    BY <1>0, <2>3, <2>4, <2>5 DEF LocalFacts, Settling
<1>10. ASSUME NEW a \in Attempts, GiveUp(a) \/ Usage(a) PROVE LocalFacts'
  <2>1. /\ pc[a] \in {"admitted", "marked", "sent"} /\ pc' = [pc EXCEPT ![a] = "settle"]
        /\ UNCHANGED <<ledgerVars, op, lim, t0>>
        /\ val' = [val EXCEPT ![a] = 0] \/ val' = [val EXCEPT ![a] = billed[op[a]]]
    BY <1>10 DEF GiveUp, StartRefund, Usage, Goto
  <2>2. op[a] \in Ops /\ rows[op[a]].state # "none" /\ billed[op[a]] \in Charges \cup {0}
    BY <1>c, <2>1 DEF LocalFacts
  <2>3. UNCHANGED <<rows, billed, clock, offered>>
    BY <2>1 DEF ledgerVars
  <2>4. pc \in [Actors -> PcValues] /\ val \in [Actors -> Nat]
    BY <1>0 DEF TypeOK
  <2>5. \A x \in Actors : t0'[x] <= clock' /\ val'[x] \in Charges \cup {0}
    BY <2>1, <2>2, <2>3, <2>4 DEF LocalFacts
  <2>6. \A b \in Attempts : pc'[b] \in {"tariff", "principal", "insert"} => lim'[b] \in offered'
    BY <1>0, <2>1, <2>3, <2>4 DEF LocalFacts
  <2>7. \A x \in Actors : Settling(x)' => rows'[op'[x]].state # "none"
    BY <2>1, <2>2, <2>3, <2>4 DEF LocalFacts, Settling
  <2> QED
    BY <2>3, <2>5, <2>6, <2>7 DEF LocalFacts
<1>11. ASSUME NEW a \in Attempts, NoUsage(a) PROVE LocalFacts'
  BY <1>0, <1>f, <1>11 DEF NoUsage, ledgerVars
<1>12. ASSUME NEW x \in Admins, NEW o \in Ops, NEW u \in Charges, Reconcile(x, o, u)
       PROVE  LocalFacts'
  BY <1>0, <1>b, <1>12 DEF LocalFacts, Reconcile, Goto, TypeOK, ledgerVars, Settling
<1>13. ASSUME NEW x \in Actors, ReadTariff(x) PROVE LocalFacts'
  BY <1>0, <1>b, <1>13 DEF LocalFacts, ReadTariff, Goto, TypeOK, ledgerVars, Settling
<1>14. ASSUME NEW x \in Actors, LockTariff(x) PROVE LocalFacts'
  BY <1>0, <1>b, <1>14 DEF LocalFacts, LockTariff, Goto, TypeOK, ledgerVars, localVars, Settling
<1>15. ASSUME NEW x \in Actors, SettleRow(x) PROVE LocalFacts'
  BY <1>f, <1>15 DEF SettleRow
<1>16. ASSUME NEW x \in Actors, Fail(x) PROVE LocalFacts'
  BY <1>f, <1>16 DEF Fail, ledgerVars
<1>17. ASSUME Env PROVE LocalFacts'
  <2>1. UNCHANGED <<rows, billed>>
    BY <1>17 DEF Env, L!Tick, L!Publish, L!SetPolicy
  <2> QED
    BY <1>0, <1>b, <1>17, <2>1 DEF LocalFacts, Env, localVars, Settling
<1> QED
  BY <1>1, <1>2, <1>3, <1>4, <1>5, <1>6, <1>7, <1>8, <1>9, <1>10, <1>11, <1>12, <1>13,
     <1>14, <1>15, <1>16, <1>17
     DEF Next, Admission, Transport, Settlement

\* A step touches at most one row, and puts at most one policy in force.
LEMMA FiniteNext ==
    ASSUME IInv, FiniteFacts, Next
    PROVE  FiniteFacts'
<1> USE LedgerAssumption, SlotAssumption, SentinelAssumption
<1>0. /\ TypeOK /\ Busy /\ Attempts \subseteq Actors /\ rows \in [Ops -> L!Rows]
  BY DEF IInv, TypeOK, Actors
<1>1. IsFiniteSet(Touched(rows)')
  <2>1. ASSUME NEW o \in Ops, \A x \in Ops \ {o} : rows'[x].state = rows[x].state
        PROVE  IsFiniteSet(Touched(rows)')
    <3>1. Touched(rows)' \in SUBSET (Touched(rows) \cup {o})
      BY <2>1 DEF Touched
    <3>2. IsFiniteSet(Touched(rows) \cup {o})
      BY FS_AddElement DEF FiniteFacts
    <3> QED
      BY <3>1, <3>2, FS_Subset
  <2>2. CASE UNCHANGED rows
    BY <2>2 DEF FiniteFacts, Touched
  <2>3. ASSUME NEW a \in Attempts, Reserve(a) \/ MarkDispatch(a)
        PROVE  IsFiniteSet(Touched(rows)')
    <3>1. op[a] \in Ops
      BY <1>0, <2>3 DEF Reserve, MarkDispatch, Busy
    <3>2. \A x \in Ops \ {op[a]} : rows'[x] = rows[x]
      BY <1>0, <2>3 DEF Reserve, MarkDispatch, L!Armed, L!Sending
    <3> QED
      BY <2>1, <3>1, <3>2
  <2>4. ASSUME NEW x \in Actors, SettleRow(x) PROVE IsFiniteSet(Touched(rows)')
    <3>1. op[x] \in Ops
      BY <1>0, <2>4 DEF SettleRow, Busy
    <3>2. \A o \in Ops \ {op[x]} : rows'[o] = rows[o]
      BY <1>0, <2>4 DEF SettleRow, L!SettledAs
    <3> QED
      BY <2>1, <3>1, <3>2
  <2> QED
    BY <2>2, <2>3, <2>4, RowSteps
<1>2. offered' = offered \/ \E limit \in Limits : offered' = offered \cup {limit}
  <2>1. ASSUME Env PROVE offered' = offered \/ \E limit \in Limits : offered' = offered \cup {limit}
    BY <2>1 DEF Env, L!Tick, L!Publish, L!SetPolicy
  <2>2. ASSUME ~Env PROVE offered' = offered
    BY <2>2, EnvKeeps, <1>0
  <2> QED
    BY <2>1, <2>2
<1>3. /\ IsFiniteSet({limit.hour : limit \in offered}')
      /\ IsFiniteSet({limit.day : limit \in offered}')
  <2>1. CASE offered' = offered
    BY <2>1 DEF FiniteFacts
  <2>2. ASSUME NEW new \in Limits, offered' = offered \cup {new}
        PROVE  /\ IsFiniteSet({limit.hour : limit \in offered}')
               /\ IsFiniteSet({limit.day : limit \in offered}')
    <3>1. /\ {limit.hour : limit \in offered}' = {limit.hour : limit \in offered} \cup {new.hour}
          /\ {limit.day : limit \in offered}' = {limit.day : limit \in offered} \cup {new.day}
      BY <2>2
    <3>2. /\ IsFiniteSet({limit.hour : limit \in offered} \cup {new.hour})
          /\ IsFiniteSet({limit.day : limit \in offered} \cup {new.day})
      BY FS_AddElement DEF FiniteFacts
    <3> QED
      BY <3>1, <3>2
  <2> QED
    BY <1>2, <2>1, <2>2
<1> QED
  BY <1>1, <1>3 DEF FiniteFacts

\* The rows of a state and of the next one have sums.
LEMMA Ledgers ==
    ASSUME IInv, FiniteFacts, Next
    PROVE  /\ Ledger(rows) /\ Ledger(rows')
           /\ \A p : \A t : \A length : /\ SpentIn(rows, p, t, length) \in Nat
                                        /\ BoundedIn(rows, p, t, length) \in Nat
                                        /\ BoundedIn(rows', p, t, length) \in Nat
<1>1. TypeOK /\ TypeOK'
  BY InvNext DEF IInv
<1>2. FiniteFacts'
  BY FiniteNext
<1>3. Ledger(rows)
  BY <1>1 DEF Ledger, TypeOK, FiniteFacts
<1>4. rows' \in [Ops -> L!Rows] /\ IsFiniteSet(Touched(rows'))
  BY <1>1, <1>2 DEF TypeOK, FiniteFacts, Touched
<1>5. Ledger(rows')
  BY <1>4 DEF Ledger
<1>6. ASSUME NEW p, NEW t, NEW length
      PROVE  /\ SpentIn(rows, p, t, length) \in Nat
             /\ BoundedIn(rows, p, t, length) \in Nat
             /\ BoundedIn(rows', p, t, length) \in Nat
  <2>1. /\ CountedTable(rows) \in [Ops -> Nat] /\ BoundedTable(rows) \in [Ops -> Nat]
        /\ Window(rows, p, t, length) \in SUBSET Ops
        /\ IsFiniteSet(Window(rows, p, t, length))
    BY <1>3, TableTypes
  <2>2. /\ BoundedTable(rows') \in [Ops -> Nat]
        /\ Window(rows', p, t, length) \in SUBSET Ops
        /\ IsFiniteSet(Window(rows', p, t, length))
    BY <1>5, TableTypes
  <2>3. SpentIn(rows, p, t, length) \in Nat /\ BoundedIn(rows, p, t, length) \in Nat
    BY <2>1, TotalType DEF SpentIn, BoundedIn
  <2>4. BoundedIn(rows', p, t, length) \in Nat
    BY <2>2, TotalType DEF BoundedIn
  <2> QED
    BY <2>3, <2>4
<1> QED
  BY <1>3, <1>5, <1>6

\* What the three writers do to the rows.
LEMMA ReserveRows ==
    ASSUME IInv, NEW a \in Attempts, Reserve(a)
    PROVE  /\ pc[a] = "insert" /\ op[a] \in Ops /\ pc'[a] # "insert" /\ clock' = clock
           /\ plock[Owner[op[a]]] = a
           /\ rows'[op[a]].state = "reserved" /\ rows'[op[a]].version = ver[a]
           /\ rows'[op[a]].units = Price[ver[a]]
           /\ \A o \in Ops : o # op[a] => rows'[o] = rows[o]
<1>1. /\ TypeOK /\ Busy /\ Inserting /\ a \in Actors /\ rows \in [Ops -> L!Rows]
      /\ pc \in [Actors -> PcValues]
  BY DEF IInv, TypeOK, Actors
<1>2. /\ pc[a] = "insert" /\ pc' = [pc EXCEPT ![a] = "admitted"] /\ clock' = clock
      /\ rows' = L!Armed(op[a], ver[a])
  BY DEF Reserve, Goto
<1>3. op[a] \in Ops /\ plock[Owner[op[a]]] = a
  BY <1>1, <1>2 DEF Busy, Inserting
<1> QED
  BY <1>1, <1>2, <1>3 DEF L!Armed

LEMMA MarkDispatchRows ==
    ASSUME IInv, NEW a \in Attempts, MarkDispatch(a)
    PROVE  /\ pc[a] = "admitted" /\ op[a] \in Ops /\ rows[op[a]].state = "reserved"
           /\ clock' = clock
           /\ rows'[op[a]].state = "sending" /\ rows'[op[a]].version = rows[op[a]].version
           /\ rows'[op[a]].units = rows[op[a]].units
           /\ \A o \in Ops : o # op[a] => rows'[o] = rows[o]
<1>1. TypeOK /\ Busy /\ a \in Actors /\ rows \in [Ops -> L!Rows]
  BY DEF IInv, TypeOK, Actors
<1>2. /\ pc[a] = "admitted" /\ rows[op[a]].state = "reserved" /\ clock' = clock
      /\ rows' = [rows EXCEPT ![op[a]] = [rows[op[a]] EXCEPT !.state = "sending"]]
  BY DEF MarkDispatch, L!Sending
<1>3. op[a] \in Ops
  BY <1>1, <1>2 DEF Busy
<1> QED
  BY <1>1, <1>2, <1>3 DEF L!Rows

LEMMA SettleRowRows ==
    ASSUME IInv, NEW x \in Actors, SettleRow(x)
    PROVE  /\ pc[x] = "settle row" /\ op[x] \in Ops /\ plock[Owner[op[x]]] = Nobody
           /\ clock' = clock
           /\ rows'[op[x]].state = "settled" /\ rows'[op[x]].version = rows[op[x]].version
           /\ rows'[op[x]].units = rows[op[x]].units
           /\ \A o \in Ops : (o # op[x] \/ rows[o].state = "settled") => rows'[o] = rows[o]
<1>1. TypeOK /\ Busy /\ rows \in [Ops -> L!Rows]
  BY DEF IInv, TypeOK, Actors
<1>2. /\ pc[x] = "settle row" /\ plock[Owner[op[x]]] = Nobody /\ clock' = clock
      /\ rows' = IF rows[op[x]].state = "settled" THEN rows
                 ELSE L!SettledAs(op[x], val[x], src[x], t0[x])
  BY DEF SettleRow, L!Settled
<1>3. op[x] \in Ops
  BY <1>1, <1>2 DEF Busy
<1> QED
  BY <1>1, <1>2, <1>3 DEF L!SettledAs

\* Other transactions leave the sums of a locked principal alone.
LEMMA FitNext ==
    ASSUME IInv, FiniteFacts, FitFacts, Next
    PROVE  FitFacts'
<1> USE LedgerAssumption, SlotAssumption, SentinelAssumption
<1>0. /\ TypeOK /\ Inserting /\ Busy /\ Attempts \subseteq Actors /\ Nobody \notin Actors
      /\ Ledger(rows) /\ Ledger(rows')
  BY Ledgers DEF IInv, Actors
<1> SUFFICES ASSUME NEW a \in Attempts, pc'[a] = "insert"
             PROVE  FitsIn(rows', Owner[op'[a]], ver'[a], lim'[a], t0'[a])
  BY DEF FitFacts
<1>1. CASE CheckAdmits(a)
  <2>1. /\ L!Fits(Owner[op[a]], ver[a], lim[a], t0[a])
        /\ UNCHANGED <<rows, op, ver, lim, t0>>
    BY <1>1 DEF CheckAdmits, ledgerVars, localVars
  <2>2. FitsIn(rows, Owner[op[a]], ver[a], lim[a], t0[a])
    BY <1>0, <2>1, SpentIsTotal DEF L!Fits, FitsIn
  <2> QED
    BY <2>1, <2>2
<1>2. CASE ~CheckAdmits(a)
  <2>1. /\ pc[a] = "insert" /\ op'[a] = op[a] /\ ver'[a] = ver[a] /\ lim'[a] = lim[a]
        /\ t0'[a] = t0[a]
    BY <1>0, <1>2, Inserters
  <2>2. FitsIn(rows, Owner[op[a]], ver[a], lim[a], t0[a]) /\ plock[Owner[op[a]]] = a
    BY <1>0, <2>1 DEF FitFacts, Inserting
  <2> DEFINE p == Owner[op[a]]
             Alike(o) == /\ \A t, length : Counting(rows'[o], t, length) <=> Counting(rows[o], t, length)
                         /\ CountedTable(rows')[o] = CountedTable(rows)[o]
  <2>3. ASSUME NEW o \in Ops, Owner[o] = p PROVE Alike(o)
    <3>1. ASSUME rows'[o] = rows[o] PROVE Alike(o)
      BY <3>1 DEF CountedTable
    <3>2. ASSUME NEW b \in Attempts, Reserve(b) PROVE rows'[o] = rows[o]
      <4>1. b # a /\ plock[Owner[op[b]]] = b
        BY <2>1, <3>2, ReserveRows
      <4>2. o # op[b]
        BY <2>2, <2>3, <4>1
      <4> QED
        BY <3>2, <4>2, ReserveRows
    <3>3. ASSUME NEW b \in Attempts, MarkDispatch(b) PROVE Alike(o)
      <4>1. CASE o # op[b]
        BY <3>1, <3>3, <4>1, MarkDispatchRows
      <4>2. CASE o = op[b]
        <5>1. /\ rows[o].state = "reserved" /\ rows'[o].state = "sending"
              /\ rows'[o].units = rows[o].units
          BY <3>3, <4>2, MarkDispatchRows
        <5> QED
          BY <5>1 DEF Counting, CountedTable
      <4> QED
        BY <4>1, <4>2
    <3>4. ASSUME NEW x \in Actors, SettleRow(x) PROVE rows'[o] = rows[o]
      <4>1. o # op[x]
        <5>1. plock[Owner[op[x]]] = Nobody
          BY <3>4, SettleRowRows
        <5>2. plock[Owner[o]] # Nobody
          BY <1>0, <2>2, <2>3
        <5> QED
          BY <5>1, <5>2
      <4> QED
        BY <3>4, <4>1, SettleRowRows
    <3> HIDE DEF Alike
    <3> QED
      BY <3>1, <3>2, <3>3, <3>4, RowSteps
  <2>4. \A t, length : SpentIn(rows', p, t, length) = SpentIn(rows, p, t, length)
    BY <1>0, <2>3, SpentAlike
  <2> QED
    BY <2>1, <2>2, <2>4 DEF FitsIn
<1> QED
  BY <1>1, <1>2

\* A step adds to a window at most the price of a reservation that was admitted.
LEMMA BoundedStep ==
    ASSUME IInv, LocalFacts, FiniteFacts, Next, NEW p, NEW length \in Nat
    PROVE  \/ BoundedIn(rows', p, clock', length) <= BoundedIn(rows, p, clock, length)
           \/ \E a \in Attempts :
                /\ pc[a] = "insert" /\ Owner[op[a]] = p /\ Price[ver[a]] \in Nat
                /\ BoundedIn(rows', p, clock', length)
                     <= SpentIn(rows, p, t0[a], length) + Price[ver[a]]
<1> USE LedgerAssumption, SlotAssumption, SentinelAssumption
<1>0. /\ TypeOK /\ Attempts \subseteq Actors /\ clock \in Nat /\ clock' \in Nat
      /\ clock <= clock' /\ Ledger(rows) /\ Ledger(rows')
  BY EnvSteps, Ledgers DEF IInv, TypeOK, Actors
<1>1. \A o \in Ops : /\ rows[o].units \in Nat /\ rows[o].actual \in Nat /\ rows[o].at \in Nat
                     /\ rows'[o].units \in Nat /\ rows'[o].actual \in Nat
  BY <1>0 DEF Ledger, L!Rows
<1> DEFINE Less(o) == Counting(rows'[o], clock', length) =>
                        /\ Counting(rows[o], clock, length)
                        /\ BoundedTable(rows')[o] <= BoundedTable(rows)[o]
<1>2. ASSUME \A o \in Ops : Owner[o] = p => Less(o)
      PROVE  BoundedIn(rows', p, clock', length) <= BoundedIn(rows, p, clock, length)
  BY <1>0, <1>2, BoundedShrinks
<1>3. ASSUME NEW o \in Ops, rows'[o] = rows[o] PROVE Less(o)
  <2>1. Counting(rows[o], clock', length) => Counting(rows[o], clock, length)
    BY <1>0, <1>1 DEF Counting
  <2>2. BoundedTable(rows')[o] = BoundedTable(rows)[o] /\ BoundedTable(rows)[o] \in Nat
    BY <1>1, <1>3 DEF BoundedTable
  <2> QED
    BY <1>3, <2>1, <2>2
<1>4. CASE UNCHANGED rows
  BY <1>2, <1>3, <1>4
<1>5. ASSUME NEW b \in Attempts, MarkDispatch(b), NEW o \in Ops PROVE Less(o)
  <2>1. CASE o # op[b]
    BY <1>3, <1>5, <2>1, MarkDispatchRows
  <2>2. CASE o = op[b]
    <3>1. /\ rows[o].state = "reserved" /\ rows'[o].state = "sending"
          /\ rows'[o].units = rows[o].units
      BY <1>5, <2>2, MarkDispatchRows
    <3> QED
      BY <1>1, <3>1 DEF Counting, BoundedTable
  <2> QED
    BY <2>1, <2>2
<1>6. ASSUME NEW x \in Actors, SettleRow(x), NEW o \in Ops PROVE Less(o)
  <2>1. CASE o # op[x] \/ rows[op[x]].state = "settled"
    <3>1. rows'[o] = rows[o]
      BY <1>6, <2>1, SettleRowRows
    <3> QED
      BY <1>3, <3>1
  <2>2. CASE o = op[x] /\ rows[op[x]].state # "settled"
    <3>1. /\ rows'[o].state = "settled" /\ rows'[o].units = rows[o].units
      BY <1>6, <2>2, SettleRowRows
    <3>2. rows[o].state \in {"reserved", "sending"}
      <4>1. Settling(x)
        BY <1>6, SettleRowRows DEF Settling
      <4> QED
        BY <1>0, <2>2, <4>1 DEF LocalFacts, Ledger, L!Rows, L!RowStates
    <3> QED
      BY <1>1, <3>1, <3>2 DEF Counting, BoundedTable
  <2> QED
    BY <2>1, <2>2
<1>7. ASSUME NEW a \in Attempts, Reserve(a), Owner[op[a]] # p, NEW o \in Ops, Owner[o] = p
      PROVE  Less(o)
  BY <1>3, <1>7, ReserveRows
<1>8. ASSUME NEW a \in Attempts, Reserve(a), Owner[op[a]] = p
      PROVE  /\ pc[a] = "insert" /\ Price[ver[a]] \in Nat
             /\ BoundedIn(rows', p, clock', length)
                  <= SpentIn(rows, p, t0[a], length) + Price[ver[a]]
  <2>1. /\ Price[ver[a]] \in Nat /\ t0[a] \in Nat /\ t0[a] <= clock
    BY <1>0 DEF TypeOK, LocalFacts
  <2>2. /\ pc[a] = "insert" /\ op[a] \in Ops /\ clock' = clock
        /\ rows'[op[a]].state = "reserved" /\ rows'[op[a]].units = Price[ver[a]]
        /\ \A x \in Ops \ {op[a]} : rows'[x] = rows[x]
    BY <1>8, ReserveRows
  <2>3. BoundedIn(rows', p, clock, length) <= SpentIn(rows, p, clock, length) + Price[ver[a]]
    BY <1>0, <1>8, <2>1, <2>2, BoundedAdds
  <2>4. SpentIn(rows, p, clock, length) <= SpentIn(rows, p, t0[a], length)
    BY <1>0, <2>1, SpentLater
  <2>5. /\ SpentIn(rows, p, clock, length) \in Nat /\ SpentIn(rows, p, t0[a], length) \in Nat
        /\ BoundedIn(rows', p, clock, length) \in Nat
    BY Ledgers
  <2>6. BoundedIn(rows', p, clock, length) <= SpentIn(rows, p, t0[a], length) + Price[ver[a]]
    BY <2>1, <2>3, <2>4, <2>5
  <2> QED
    BY <2>1, <2>2, <2>6
<1> HIDE DEF Less
<1> QED
  BY <1>2, <1>4, <1>5, <1>6, <1>7, <1>8, RowSteps

\* Every window stays within a policy that has been in force.
LEMMA SpentNext ==
    ASSUME IInv, LocalFacts, FiniteFacts, FitFacts, SpentFacts, Next
    PROVE  SpentFacts'
<1> USE LedgerAssumption
<1>0. /\ offered \subseteq offered' /\ Hour \in Nat /\ Day \in Nat
      /\ \A limit \in offered : limit.hour \in Nat /\ limit.day \in Nat
  BY EnvSteps DEF IInv, TypeOK
<1>1. ASSUME NEW p \in Principals
      PROVE  \E limit \in offered' : BoundedIn(rows', p, clock', Hour) <= limit.hour
  <2>1. CASE BoundedIn(rows', p, clock', Hour) <= BoundedIn(rows, p, clock, Hour)
    <3>1. PICK limit \in offered : BoundedIn(rows, p, clock, Hour) <= limit.hour
      BY DEF SpentFacts
    <3>2. BoundedIn(rows', p, clock', Hour) \in Nat /\ BoundedIn(rows, p, clock, Hour) \in Nat
      BY Ledgers
    <3> QED
      BY <1>0, <2>1, <3>1, <3>2
  <2>2. ASSUME NEW a \in Attempts, pc[a] = "insert", Owner[op[a]] = p, Price[ver[a]] \in Nat,
               BoundedIn(rows', p, clock', Hour) <= SpentIn(rows, p, t0[a], Hour) + Price[ver[a]]
        PROVE  \E limit \in offered' : BoundedIn(rows', p, clock', Hour) <= limit.hour
    <3>1. lim[a] \in offered /\ SpentIn(rows, p, t0[a], Hour) + Price[ver[a]] <= lim[a].hour
      BY <2>2 DEF FitFacts, FitsIn, LocalFacts
    <3>2. BoundedIn(rows', p, clock', Hour) \in Nat /\ SpentIn(rows, p, t0[a], Hour) \in Nat
      BY Ledgers
    <3> QED
      BY <1>0, <2>2, <3>1, <3>2
  <2> QED
    BY <1>0, <2>1, <2>2, BoundedStep
<1>2. ASSUME NEW p \in Principals
      PROVE  \E limit \in offered' : BoundedIn(rows', p, clock', Day) <= limit.day
  <2>1. CASE BoundedIn(rows', p, clock', Day) <= BoundedIn(rows, p, clock, Day)
    <3>1. PICK limit \in offered : BoundedIn(rows, p, clock, Day) <= limit.day
      BY DEF SpentFacts
    <3>2. BoundedIn(rows', p, clock', Day) \in Nat /\ BoundedIn(rows, p, clock, Day) \in Nat
      BY Ledgers
    <3> QED
      BY <1>0, <2>1, <3>1, <3>2
  <2>2. ASSUME NEW a \in Attempts, pc[a] = "insert", Owner[op[a]] = p, Price[ver[a]] \in Nat,
               BoundedIn(rows', p, clock', Day) <= SpentIn(rows, p, t0[a], Day) + Price[ver[a]]
        PROVE  \E limit \in offered' : BoundedIn(rows', p, clock', Day) <= limit.day
    <3>1. lim[a] \in offered /\ SpentIn(rows, p, t0[a], Day) + Price[ver[a]] <= lim[a].day
      BY <2>2 DEF FitFacts, FitsIn, LocalFacts
    <3>2. BoundedIn(rows', p, clock', Day) \in Nat /\ SpentIn(rows, p, t0[a], Day) \in Nat
      BY Ledgers
    <3> QED
      BY <1>0, <2>2, <3>1, <3>2
  <2> QED
    BY <1>0, <2>1, <2>2, BoundedStep
<1> QED
  BY <1>1, <1>2 DEF SpentFacts

-----------------------------------------------------------------------------
(* The theorems. *)

LEMMA LInvInit == Init => LInv
<1> SUFFICES ASSUME Init PROVE LInv
  OBVIOUS
<1> USE LedgerAssumption, SlotAssumption, SentinelAssumption DEF Init, L!Init
<1>1. IInv
  BY InvInit
<1>2. LockFacts /\ LocalFacts
  <2>1. /\ \A x \in Actors : pc[x] = "idle" /\ t0[x] = 0 /\ val[x] = 0
        /\ \A v \in Versions : writer[v] = Nobody
        /\ \A o \in Ops : billed[o] = 0
        /\ clock = 0 /\ Attempts \subseteq Actors
    BY DEF Actors
  <2> QED
    BY <2>1 DEF LockFacts, LocalFacts, Settling
<1>3. Touched(rows) = {} /\ offered = {policy} /\ Ledger(rows)
  <2>1. Touched(rows) = {}
    BY DEF Touched, L!NoRow
  <2>2. IsFiniteSet(Touched(rows))
    BY <2>1, FS_EmptySet
  <2> QED
    BY <1>1, <2>1, <2>2 DEF Ledger, IInv, TypeOK
<1>4. FiniteFacts
  <2>1. /\ {limit.hour : limit \in offered} = {policy.hour}
        /\ {limit.day : limit \in offered} = {policy.day}
    BY <1>3
  <2>2. IsFiniteSet({policy.hour}) /\ IsFiniteSet({policy.day})
    BY FS_Singleton
  <2>3. IsFiniteSet(Touched(rows))
    BY <1>3 DEF Ledger
  <2> QED
    BY <1>3, <2>1, <2>2, <2>3 DEF FiniteFacts
<1>5. FitFacts
  BY DEF FitFacts, Actors
<1>6. SpentFacts
  <2>1. \A p, length : BoundedIn(rows, p, clock, length) = 0
    <3> SUFFICES ASSUME NEW p, NEW length PROVE BoundedIn(rows, p, clock, length) = 0
      OBVIOUS
    <3>1. Window(rows, p, clock, length) = {}
      BY <1>3 DEF Window, Touched, Counting
    <3>2. IsFiniteSet({})
      BY FS_EmptySet
    <3> QED
      BY <3>1, <3>2, TotalEquation DEF BoundedIn
  <2>2. policy \in offered /\ policy.hour \in Nat /\ policy.day \in Nat
    BY <1>3
  <2> QED
    BY <2>1, <2>2 DEF SpentFacts
<1> QED
  BY <1>1, <1>2, <1>4, <1>5, <1>6 DEF LInv

LEMMA LInvNext == LInv /\ [Next]_vars => LInv'
<1>1. ASSUME LInv, Next PROVE LInv'
  <2>1. IInv /\ IInv'
    BY <1>1, InvNext DEF LInv
  <2>2. LockFacts' /\ LocalFacts' /\ FiniteFacts'
    BY <1>1, LockNext, LocalNext, FiniteNext DEF LInv
  <2>3. FitFacts' /\ SpentFacts'
    BY <1>1, FitNext, SpentNext DEF LInv
  <2> QED
    BY <2>1, <2>2, <2>3 DEF LInv
<1>2. ASSUME LInv, UNCHANGED vars PROVE LInv'
  <2>1. IInv'
    BY <1>2, InvNext DEF LInv
  <2>2. LockFacts' /\ LocalFacts'
    BY <1>2 DEF LInv, LockFacts, LocalFacts, Settling, vars, ledgerVars, lockVars, localVars
  <2>3. FiniteFacts' /\ FitFacts' /\ SpentFacts'
    BY <1>2 DEF LInv, FiniteFacts, FitFacts, SpentFacts, Touched, vars, ledgerVars, localVars
  <2> QED
    BY <2>1, <2>2, <2>3 DEF LInv
<1> QED
  BY <1>1, <1>2

\* However many jobs and processes reserve at once, in every hour and in every day a
\* principal is charged at most the largest limit that was in force.
THEOREM BudgetIsKept == Spec => []WithinBudget
<1>1. ASSUME LInv PROVE WithinBudget
  <2>0. TypeOK /\ Ledger(rows)
    BY <1>1 DEF LInv, IInv, TypeOK, Ledger, FiniteFacts
  <2>1. ASSUME NEW p \in Principals
        PROVE  WindowSpent(p, Hour) <= Max({limit.hour : limit \in offered})
    <3> DEFINE S == {limit.hour : limit \in offered}
    <3>1. S \in SUBSET Nat /\ IsFiniteSet(S)
      BY <1>1, <2>0, LedgerAssumption DEF LInv, FiniteFacts, TypeOK
    <3>2. PICK limit \in offered : BoundedIn(rows, p, clock, Hour) <= limit.hour
      BY <1>1 DEF LInv, SpentFacts
    <3>3. limit.hour \in S
      OBVIOUS
    <3>4. WindowSpent(p, Hour) = BoundedIn(rows, p, clock, Hour)
      BY <2>0, WindowSpentIsTotal
    <3>5. BoundedIn(rows, p, clock, Hour) \in Nat
      BY <2>0, TableTypes, TotalType DEF BoundedIn
    <3> HIDE DEF S
    <3>6. \E m \in S : \A n \in S : m >= n
      BY <3>1, <3>3, LargestExists
    <3>7. Max(S) \in S /\ Max(S) >= limit.hour
      BY <3>3, <3>6 DEF Max
    <3>8. BoundedIn(rows, p, clock, Hour) <= Max(S)
      <4>1. limit.hour \in Nat /\ Max(S) \in Nat
        BY <3>1, <3>3, <3>7
      <4> QED
        BY <3>2, <3>5, <3>7, <4>1
    <3> QED
      BY <3>4, <3>8 DEF S
  <2>2. ASSUME NEW p \in Principals
        PROVE  WindowSpent(p, Day) <= Max({limit.day : limit \in offered})
    <3> DEFINE S == {limit.day : limit \in offered}
    <3>1. S \in SUBSET Nat /\ IsFiniteSet(S)
      BY <1>1, <2>0, LedgerAssumption DEF LInv, FiniteFacts, TypeOK
    <3>2. PICK limit \in offered : BoundedIn(rows, p, clock, Day) <= limit.day
      BY <1>1 DEF LInv, SpentFacts
    <3>3. limit.day \in S
      OBVIOUS
    <3>4. WindowSpent(p, Day) = BoundedIn(rows, p, clock, Day)
      BY <2>0, WindowSpentIsTotal
    <3>5. BoundedIn(rows, p, clock, Day) \in Nat
      BY <2>0, TableTypes, TotalType DEF BoundedIn
    <3> HIDE DEF S
    <3>6. \E m \in S : \A n \in S : m >= n
      BY <3>1, <3>3, LargestExists
    <3>7. Max(S) \in S /\ Max(S) >= limit.day
      BY <3>3, <3>6 DEF Max
    <3>8. BoundedIn(rows, p, clock, Day) <= Max(S)
      <4>1. limit.day \in Nat /\ Max(S) \in Nat
        BY <3>1, <3>3, <3>7
      <4> QED
        BY <3>2, <3>5, <3>7, <4>1
    <3> QED
      BY <3>4, <3>8 DEF S
  <2> QED
    BY <2>1, <2>2 DEF WithinBudget
<1> QED
  BY <1>1, LInvInit, LInvNext, PTL DEF Spec

-----------------------------------------------------------------------------
(* Tariffs: what holds without administrators or under a single version. *)

\* A settlement at its row locks the version it read, or has just read it.
LEMMA Settlers ==
    ASSUME TypeOK, Next, NEW x \in Actors, pc'[x] \in {"settle tariff", "settle row"}
    PROVE  \/ ReadTariff(x)
           \/ /\ pc[x] \in {"settle tariff", "settle row"}
              /\ op'[x] = op[x] /\ ver'[x] = ver[x]
<1> DEFINE Kept == /\ pc[x] \in {"settle tariff", "settle row"}
                   /\ op'[x] = op[x] /\ ver'[x] = ver[x]
<1> USE DEF localVars
<1>0. pc \in [Actors -> PcValues] /\ op \in [Actors -> Ops \cup {NoOp}]
      /\ ver \in [Actors -> Versions] /\ Attempts \subseteq Actors /\ Admins \subseteq Actors
  BY DEF TypeOK, Actors
<1>1. ASSUME Env PROVE Kept
  BY <1>1 DEF Env
<1>2. ASSUME NEW s \in Slots, Crash(s) \/ \E j \in Jobs : StartJob(s, j) PROVE Kept
  <2>1. CASE Crash(s)
    BY <1>0, <2>1 DEF Crash
  <2>2. CASE \E j \in Jobs : StartJob(s, j)
    BY <1>0, <2>2 DEF StartJob
  <2> QED
    BY <1>2, <2>1, <2>2
<1>3. ASSUME NEW b \in Attempts, Admission(b) PROVE Kept
  BY <1>0, <1>3
     DEF Admission, Identify, LockTariffShared, CheckAdmits, CheckRefuses, Reserve, Forget, Goto
<1>4. ASSUME NEW b \in Attempts, Transport(b) PROVE Kept
  BY <1>0, <1>4
     DEF Transport, MarkDispatch, GiveUp, StartRefund, Send, Usage, NoUsage, Forget, Goto
<1>5. ASSUME NEW y \in Actors, Settlement(y), ~(y = x /\ ReadTariff(x)) PROVE Kept
  BY <1>0, <1>5 DEF Settlement, ReadTariff, LockTariff, SettleRow, Fail, Forget, Goto
<1>6. ASSUME NEW y \in Admins, NEW o \in Ops, NEW u \in Charges, Reconcile(y, o, u) PROVE Kept
  BY <1>0, <1>6 DEF Reconcile, Goto
<1> QED
  BY <1>1, <1>2, <1>3, <1>4, <1>5, <1>6 DEF Next

\* Only a reservation gives a row another version or takes a settlement back.
LEMMA RowChanges ==
    ASSUME IInv, Next, NEW o \in Ops
    PROVE  \/ \E a \in Attempts : Reserve(a) /\ op[a] = o
           \/ rows'[o] = rows[o]
           \/ rows'[o].version = rows[o].version /\ rows'[o].state = "sending"
           \/ /\ rows'[o].version = rows[o].version /\ rows'[o].state = "settled"
              /\ \E x \in Actors : pc[x] = "settle row" /\ op[x] = o
<1>1. ASSUME NEW a \in Attempts, Reserve(a), op[a] # o PROVE rows'[o] = rows[o]
  BY <1>1, ReserveRows
<1>2. ASSUME NEW a \in Attempts, MarkDispatch(a)
      PROVE  \/ rows'[o] = rows[o]
             \/ rows'[o].version = rows[o].version /\ rows'[o].state = "sending"
  BY <1>2, MarkDispatchRows
<1>3. ASSUME NEW x \in Actors, SettleRow(x)
      PROVE  \/ rows'[o] = rows[o]
             \/ /\ rows'[o].version = rows[o].version /\ rows'[o].state = "settled"
                /\ pc[x] = "settle row" /\ op[x] = o
  BY <1>3, SettleRowRows
<1> QED
  BY <1>1, <1>2, <1>3, RowSteps

LEMMA TariffNext ==
    ASSUME IInv, LockFacts, TariffFacts, Steady, Next
    PROVE  TariffFacts'
<1> USE SlotAssumption, SentinelAssumption
<1>0. /\ IInv' /\ TypeOK /\ TypeOK' /\ Busy /\ Busy' /\ OneHolder /\ Inserting
      /\ Attempts \subseteq Actors /\ Nobody \notin Actors
  BY InvNext DEF IInv, Actors
<1>1. ASSUME NEW x \in Actors, pc'[x] \in {"settle tariff", "settle row"}
      PROVE  rows'[op'[x]].version = ver'[x]
  <2>1. CASE \A v, w \in Versions : v = w
    <3>1. op'[x] \in Ops
      BY <1>0, <1>1 DEF Busy
    <3>2. rows'[op'[x]].version \in Versions /\ ver'[x] \in Versions
      BY <1>0, <3>1 DEF TypeOK, L!Rows
    <3> QED
      BY <2>1, <3>2
  <2>2. CASE ReadTariff(x)
    <3>1. /\ rows' = rows /\ op' = op /\ ver' = [ver EXCEPT ![x] = rows[op[x]].version]
          /\ ver \in [Actors -> Versions]
      BY <1>0, <2>2 DEF ReadTariff, ledgerVars, TypeOK
    <3> QED
      BY <3>1
  <2>3. CASE Admins = {} /\ ~ReadTariff(x)
    <3>1. /\ pc[x] \in {"settle tariff", "settle row"} /\ op'[x] = op[x] /\ ver'[x] = ver[x]
          /\ x \in Attempts
      BY <1>0, <1>1, <2>3, Settlers DEF Actors
    <3>2. rows[op[x]].version = ver[x] /\ op[x] \in Ops
      BY <1>0, <3>1 DEF TariffFacts, Busy
    <3>3. ~L!Armable(op[x])
      BY <1>0, <3>1 DEF OneHolder, Holds, Settling
    <3>4. ~ \E a \in Attempts : Reserve(a) /\ op[a] = op[x]
      BY <1>0, <3>3, ReserveRows DEF Inserting
    <3>5. rows'[op[x]].version = rows[op[x]].version
      BY <3>2, <3>4, RowChanges
    <3> QED
      BY <3>1, <3>2, <3>5
  <2> QED
    BY <2>1, <2>2, <2>3 DEF Steady
<1>2. ASSUME NEW a \in Attempts, pc'[a] = "insert" PROVE ~L!Violated(ver[a])' /\ ver'[a] = ver[a]
  <2>1. CASE CheckAdmits(a)
    BY <2>1 DEF CheckAdmits, ledgerVars, localVars, L!Violated, L!Settled
  <2>2. CASE ~CheckAdmits(a)
    <3>1. pc[a] = "insert" /\ ver'[a] = ver[a]
      BY <1>0, <1>2, <2>2, Inserters
    <3>2. ~L!Violated(ver[a]) /\ a \in readers[ver[a]] /\ ver[a] \in Versions /\ a \in Actors
      BY <1>0, <3>1 DEF TariffFacts, LockFacts, TypeOK
    <3>3. ASSUME NEW o \in Ops, rows'[o].state = "settled", rows'[o].version = ver[a],
                 rows'[o].actual > rows'[o].units
          PROVE  FALSE
      <4>1. CASE rows'[o] = rows[o]
        BY <3>2, <3>3, <4>1 DEF L!Violated, L!Settled
      <4>2. CASE \E b \in Attempts : Reserve(b) /\ op[b] = o
        BY <3>3, <4>2, ReserveRows
      <4>3. ASSUME NEW x \in Actors, pc[x] = "settle row", op[x] = o,
                   rows'[o].version = rows[o].version
            PROVE  FALSE
        <5>1. ver[x] = ver[a] /\ writer[ver[x]] = x
          BY <3>3, <4>3 DEF TariffFacts, LockFacts
        <5>2. writer[ver[a]] # Nobody
          BY <1>0, <5>1
        <5>3. readers[ver[a]] = {}
          BY <3>2, <5>2 DEF LockFacts
        <5> QED
          BY <3>2, <5>3
      <4> QED
        BY <3>3, <4>1, <4>2, <4>3, RowChanges
    <3> QED
      BY <3>1, <3>3 DEF L!Violated, L!Settled
  <2> QED
    BY <2>1, <2>2
<1>3. ASSUME NEW a \in Attempts, pc'[a] = "insert" PROVE ~L!Violated(ver[a])'
  BY <1>2, <1>3
<1> QED
  BY <1>1, <1>3 DEF TariffFacts

LEMMA TariffInit == Init => TariffFacts
  BY DEF Init, TariffFacts, Actors

LEMMA TariffStep == IInv /\ LockFacts /\ TariffFacts /\ Steady /\ [Next]_vars => TariffFacts'
<1>1. ASSUME TariffFacts, UNCHANGED vars PROVE TariffFacts'
  BY <1>1 DEF TariffFacts, L!Violated, L!Settled, vars, ledgerVars, localVars
<1> QED
  BY <1>1, TariffNext

\* While nobody settles rows by hand, or under a single tariff version, no reservation
\* is made under a version that a provider has charged more than: the settlement that
\* reveals it and the reservations that rely on it exclude each other.
THEOREM TariffsAreFenced == Steady /\ Spec => ViolatedTariffRefused
<1>1. ASSUME LInv, TariffFacts, [Next]_vars,
             NEW o \in Ops, L!Armable(o), rows'[o].state = "reserved"
      PROVE  ~L!Violated(rows'[o].version)
  <2>1. rows[o].state # "reserved"
    BY <1>1 DEF L!Armable, L!Refunded, L!Settled
  <2>2. Next
    BY <1>1, <2>1 DEF vars, ledgerVars
  <2>3. IInv
    BY <1>1 DEF LInv
  <2>4. PICK a \in Attempts : Reserve(a) /\ op[a] = o
    BY <1>1, <2>1, <2>2, <2>3, RowChanges
  <2>5. rows'[o].version = ver[a] /\ pc[a] = "insert"
    BY <2>3, <2>4, ReserveRows
  <2> QED
    BY <1>1, <2>5 DEF TariffFacts
<1>2. LInv /\ TariffFacts /\ [Next]_vars =>
        [\A o \in Ops : (L!Armable(o) /\ rows'[o].state = "reserved")
                          => ~L!Violated(rows'[o].version)]_vars
  BY <1>1
<1>3. LInv /\ TariffFacts /\ Steady /\ [Next]_vars => TariffFacts'
  BY TariffStep DEF LInv
<1>4. Steady /\ Spec => [](LInv /\ TariffFacts)
  <2>1. Steady => [](Steady)
    OBVIOUS
  <2> QED
    BY <2>1, LInvInit, LInvNext, TariffInit, <1>3, PTL DEF Spec
<1> QED
  BY <1>2, <1>4, PTL DEF Spec, ViolatedTariffRefused

-----------------------------------------------------------------------------
(* The refinement. *)

\* A step under the locks is an atomic step of the ledger, or leaves the ledger alone.
LEMMA LedgerStep ==
    ASSUME LInv, TariffFacts, Next
    PROVE  L!Next \/ UNCHANGED ledgerVars
<1> USE LedgerAssumption, SlotAssumption, SentinelAssumption
<1>0. /\ IInv /\ TypeOK /\ Busy /\ Attempts \subseteq Actors /\ LocalFacts /\ Ledger(rows)
      /\ clock \in Nat
  BY Ledgers DEF LInv, IInv, TypeOK, Actors
<1>1. CASE Env
  BY <1>1 DEF Env, L!Next
<1>2. ASSUME NEW s \in Slots, Crash(s) \/ \E j \in Jobs : StartJob(s, j)
      PROVE  UNCHANGED ledgerVars
  BY <1>2 DEF Crash, StartJob
<1>3. ASSUME NEW a \in Attempts, Reserve(a) PROVE L!Next
  <2>1. op[a] \in Ops /\ ver[a] \in Versions /\ lim[a] \in Limits /\ pc[a] = "insert"
    BY <1>0, <1>3 DEF Reserve, Busy, TypeOK
  <2>2. L!Armable(op[a])
    BY <1>0, <2>1 DEF IInv, Inserting
  <2>3. sent[op[a]] = 0
    BY <1>0, <2>1, <2>2, ArmableIsUnsent DEF IInv
  <2>4. ~L!Violated(ver[a]) /\ lim[a] \in offered
    BY <1>0, <2>1 DEF TariffFacts, LocalFacts
  <2>5. L!Fits(Owner[op[a]], ver[a], lim[a], clock)
    <3> DEFINE p == Owner[op[a]]
    <3>1. FitsIn(rows, p, ver[a], lim[a], t0[a])
      BY <2>1 DEF LInv, FitFacts
    <3>2. t0[a] \in Nat /\ t0[a] <= clock /\ Hour \in Nat /\ Day \in Nat
      BY <1>0 DEF TypeOK, LocalFacts
    <3>3. /\ SpentIn(rows, p, clock, Hour) <= SpentIn(rows, p, t0[a], Hour)
          /\ SpentIn(rows, p, clock, Day) <= SpentIn(rows, p, t0[a], Day)
      BY <1>0, <3>2, SpentLater
    <3>4. /\ SpentIn(rows, p, clock, Hour) \in Nat /\ SpentIn(rows, p, t0[a], Hour) \in Nat
          /\ SpentIn(rows, p, clock, Day) \in Nat /\ SpentIn(rows, p, t0[a], Day) \in Nat
      BY <1>0, Ledgers DEF LInv
    <3>5. Price[ver[a]] \in Nat /\ lim[a].hour \in Nat /\ lim[a].day \in Nat
      BY <2>1
    <3>6. FitsIn(rows, p, ver[a], lim[a], clock)
      BY <3>1, <3>3, <3>4, <3>5 DEF FitsIn
    <3> QED
      BY <1>0, <3>6, SpentIsTotal DEF L!Fits, FitsIn
  <2>6. L!Admit(op[a], ver[a], lim[a])
    BY <1>3, <2>2, <2>3, <2>4, <2>5 DEF Reserve, L!Admit
  <2> QED
    BY <2>1, <2>6 DEF L!Next
<1>4. ASSUME NEW a \in Attempts, Admission(a), ~Reserve(a) PROVE UNCHANGED ledgerVars
  BY <1>4 DEF Admission, Identify, LockTariffShared, CheckAdmits, CheckRefuses
<1>5. ASSUME NEW a \in Attempts, MarkDispatch(a) PROVE L!Next
  <2>1. L!Dispatch(op[a])
    BY <1>5 DEF MarkDispatch, L!Dispatch
  <2>2. op[a] \in Ops
    BY <1>0, <1>5, MarkDispatchRows
  <2> QED
    BY <2>1, <2>2 DEF L!Next
<1>6. ASSUME NEW a \in Attempts, NEW charge \in Charges, Send(a, charge) PROVE L!Next
  <2>1. op[a] \in Ops /\ pc[a] = "marked"
    BY <1>0, <1>6 DEF Send, Busy
  <2>2. /\ sent[op[a]] = 0 /\ billed[op[a]] = 0 /\ charge \in Nat
        /\ rows[op[a]].state = "sending" \/ ByAdmin(op[a])
    BY <1>0, <2>1 DEF IInv, HolderFacts, Knows, Unbilled
  <2>3. /\ sent' = [sent EXCEPT ![op[a]] = 1]
        /\ billed' = [billed EXCEPT ![op[a]] = charge]
        /\ UNCHANGED <<rows, clock, published, policy, offered>>
    <3>1. /\ sent' = [sent EXCEPT ![op[a]] = sent[op[a]] + 1]
          /\ billed' = [billed EXCEPT ![op[a]] = billed[op[a]] + charge]
          /\ UNCHANGED <<rows, clock, published, policy, offered>>
      BY <1>6 DEF Send
    <3>2. sent[op[a]] + 1 = 1 /\ billed[op[a]] + charge = charge
      BY <2>2
    <3> QED
      BY <3>1, <3>2
  <2>4. L!Send(op[a], charge)
    BY <2>2, <2>3 DEF L!Send, ByAdmin
  <2> QED
    BY <2>1, <2>4 DEF L!Next
<1>7. ASSUME NEW a \in Attempts, GiveUp(a) \/ Usage(a) \/ NoUsage(a) PROVE UNCHANGED ledgerVars
  BY <1>7 DEF GiveUp, Usage, NoUsage
<1>8. ASSUME NEW x \in Actors, SettleRow(x) PROVE L!Next \/ UNCHANGED ledgerVars
  <2>1. op[x] \in Ops /\ Settling(x) /\ pc[x] = "settle row"
    BY <1>0, <1>8 DEF SettleRow, Busy, Settling
  <2>2. CASE L!Settled(op[x])
    BY <1>8, <2>2 DEF SettleRow, ledgerVars
  <2>3. CASE ~L!Settled(op[x])
    <3>1. L!Unsettled(op[x])
      BY <1>0, <2>1, <2>3 DEF LocalFacts, Ledger, L!Rows, L!RowStates, L!Settled, L!Unsettled
    <3>2. val[x] \in Charges \cup {0} /\ t0[x] \in 0..clock /\ t0[x] <= clock
      BY <1>0 DEF LocalFacts, TypeOK
    <3>3. /\ src[x] \in L!Sources \ {"none"}
          /\ src[x] = "not_dispatched" => sent[op[x]] = 0 /\ val[x] = 0
          /\ src[x] = "provider" => sent[op[x]] = 1 /\ val[x] = billed[op[x]]
      <4>1. CASE x \in Admins
        <5>1. src[x] = "administrative"
          BY <1>0, <2>1, <4>1 DEF Busy
        <5> QED
          BY <5>1 DEF L!Sources
      <4>2. CASE x \in Attempts
        <5>1. \/ src[x] = "not_dispatched" /\ val[x] = 0 /\ sent[op[x]] = 0
              \/ src[x] = "provider" /\ sent[op[x]] = 1 /\ val[x] = billed[op[x]]
          BY <1>0, <2>1, <4>2 DEF IInv, HolderFacts, Knows
        <5> QED
          BY <5>1 DEF L!Sources
      <4> QED
        BY <4>1, <4>2 DEF Actors
    <3>4. L!Settle(op[x], val[x], src[x], t0[x])
      <4>1. /\ rows' = L!SettledAs(op[x], val[x], src[x], t0[x])
            /\ UNCHANGED <<sent, billed, clock, published, policy, offered>>
        BY <1>8, <2>3 DEF SettleRow
      <4> QED
        BY <3>1, <3>2, <3>3, <4>1 DEF L!Settle
    <3> QED
      BY <2>1, <3>2, <3>3, <3>4 DEF L!Next
  <2> QED
    BY <2>2, <2>3
<1>9. ASSUME NEW x \in Actors, ReadTariff(x) \/ LockTariff(x) \/ Fail(x)
      PROVE  UNCHANGED ledgerVars
  BY <1>9 DEF ReadTariff, LockTariff, Fail
<1>10. ASSUME NEW x \in Admins, NEW o \in Ops, NEW u \in Charges, Reconcile(x, o, u)
       PROVE  UNCHANGED ledgerVars
  BY <1>10 DEF Reconcile
<1> QED
  BY <1>1, <1>2, <1>3, <1>4, <1>5, <1>6, <1>7, <1>8, <1>9, <1>10
     DEF Next, Transport, Settlement

\* While nobody settles rows by hand, or under a single tariff version, the locked
\* transactions of every execution of every job behave like the atomic admissions,
\* dispatches, sends and settlements of CostLedger.
THEOREM LedgerIsImplemented == Steady /\ Spec => LedgerRefined
<1>1. Init => L!Init
  BY DEF Init
<1>2. LInv /\ TariffFacts /\ [Next]_vars => [L!Next]_(L!ledgerVars)
  <2>1. ASSUME UNCHANGED vars PROVE UNCHANGED L!ledgerVars
    BY <2>1 DEF vars, ledgerVars, L!ledgerVars
  <2>2. ASSUME UNCHANGED ledgerVars PROVE UNCHANGED L!ledgerVars
    BY <2>2 DEF ledgerVars, L!ledgerVars
  <2> QED
    BY <2>1, <2>2, LedgerStep
<1>3. LInv /\ TariffFacts /\ Steady /\ [Next]_vars => TariffFacts'
  BY TariffStep DEF LInv
<1>4. Steady => [](Steady)
  OBVIOUS
<1> QED
  BY <1>1, <1>2, <1>3, <1>4, LInvInit, LInvNext, TariffInit, PTL
     DEF Spec, LedgerRefined, L!Spec

=============================================================================
