------------------------- MODULE ActVersions_proofs -------------------------
(***************************************************************************)
(* Proofs about ActVersions, for every number of acts, editions, days and  *)
(* concurrent commands.                                                    *)
(***************************************************************************)
EXTENDS ActVersions, TLAPS, FiniteSetTheorems

-----------------------------------------------------------------------------
(* Dates and rows.                                                         *)

LEMMA DateFacts ==
    /\ MaxVersions \in Nat /\ MaxDate \in Nat /\ MaxDate >= 1
    /\ MaybeDate \subseteq Nat /\ Versions \subseteq Nat
    /\ Dates \subseteq MaybeDate /\ None \in MaybeDate
    /\ \A d \in MaybeDate : d # None => d \in Dates /\ d > 0
    /\ \A d \in MaybeDate : d >= 0 /\ d # Keep
BY BoundAssumption DEF MaybeDate, Versions, Dates, None, Keep

LEMMA RowFields ==
    ASSUME NEW x \in Row
    PROVE  /\ x.act \in Acts \cup {NoAct}
           /\ x.from \in MaybeDate
           /\ x.to \in MaybeDate
           /\ x.cur \in BOOLEAN
           /\ ValidDates(x)
           /\ x = [act |-> x.act, from |-> x.from, to |-> x.to, cur |-> x.cur]
           /\ x \in RawRow
BY DEF Row, RawRow

LEMMA RowIntro ==
    ASSUME NEW a \in Acts \cup {NoAct}, NEW f \in MaybeDate, NEW t \in MaybeDate,
           NEW b \in BOOLEAN, f = None \/ t = None \/ f <= t
    PROVE  [act |-> a, from |-> f, to |-> t, cur |-> b] \in Row
BY DEF Row, RawRow, ValidDates

LEMMA RawFields ==
    ASSUME NEW x \in RawRow
    PROVE  /\ x.act \in Acts \cup {NoAct}
           /\ x.from \in MaybeDate
           /\ x.to \in MaybeDate
           /\ x.cur \in BOOLEAN
           /\ x = [act |-> x.act, from |-> x.from, to |-> x.to, cur |-> x.cur]
BY DEF RawRow

LEMMA RawIntro ==
    ASSUME NEW a \in Acts \cup {NoAct}, NEW f \in MaybeDate, NEW t \in MaybeDate, NEW b \in BOOLEAN
    PROVE  [act |-> a, from |-> f, to |-> t, cur |-> b] \in RawRow
BY DEF RawRow

LEMMA BlankType == Blank \in Row
<1>1. NoAct \in Acts \cup {NoAct} /\ None \in MaybeDate /\ FALSE \in BOOLEAN
  BY DateFacts
<1> QED
  BY <1>1, RowIntro DEF Blank

(* The least-number principle, from the well-founded order of the finite   *)
(* sets 0..n.                                                              *)
LEMMA LeastNumber ==
    ASSUME NEW D, D \subseteq Nat, D # {}
    PROVE  \E x \in D : \A y \in D : x <= y
<1> DEFINE T == {0 .. d : d \in D}
           R == StrictSubsetOrdering(Nat)
<1>1. IsWellFoundedOn(R, FiniteSubsetsOf(Nat))
  BY FS_StrictSubsetOrderingWellFounded
<1>2. T \subseteq FiniteSubsetsOf(Nat)
  <2> SUFFICES ASSUME NEW d \in D PROVE 0 .. d \in FiniteSubsetsOf(Nat)
    OBVIOUS
  <2>1. IsFiniteSet(0 .. d)
    BY FS_Interval
  <2>2. 0 .. d \subseteq Nat
    OBVIOUS
  <2> QED
    BY <2>1, <2>2 DEF FiniteSubsetsOf
<1>3. T # {}
  OBVIOUS
<1>4. \E x \in T : \A y \in T : ~ (<<y, x>> \in R)
  <2> HIDE DEF T, R
  <2> QED
    BY <1>1, <1>2, <1>3, WFMin
<1>5. PICK x \in D : \A y \in D : ~ (<<0 .. y, 0 .. x>> \in R)
  BY <1>4
<1>6. ASSUME NEW y \in D PROVE x <= y
  <2>1. x \in Nat /\ y \in Nat
    OBVIOUS
  <2>2. SUFFICES ASSUME y < x PROVE FALSE
    BY <2>1
  <2>3. x \in 0 .. x /\ x \notin 0 .. y
    BY <2>1, <2>2
  <2>4. 0 .. y \subseteq 0 .. x /\ 0 .. y # 0 .. x
    BY <2>1, <2>2, <2>3
  <2>5. 0 .. y \in SUBSET Nat /\ 0 .. x \in SUBSET Nat
    BY <2>1
  <2> QED
    BY <2>4, <2>5, <1>5 DEF StrictSubsetOrdering
<1> QED
  BY <1>6

LEMMA EarliestLeast ==
    ASSUME NEW D, D \subseteq MaybeDate
    PROVE  /\ D = {} => Earliest(D) = None
           /\ D # {} => Earliest(D) \in D /\ \A y \in D : Earliest(D) <= y
           /\ Earliest(D) \in MaybeDate
<1>1. CASE D = {}
  BY <1>1, DateFacts DEF Earliest
<1>2. CASE D # {}
  <2>1. \E x \in D : \A y \in D : x <= y
    BY <1>2, LeastNumber, DateFacts
  <2> QED
    BY <1>2, <2>1 DEF Earliest
<1> QED
  BY <1>1, <1>2

LEMMA EarliestIs ==
    ASSUME NEW D, D \subseteq MaybeDate, NEW x \in D, \A y \in D : x <= y
    PROVE  Earliest(D) = x
<1>1. Earliest(D) \in D /\ Earliest(D) <= x /\ x <= Earliest(D)
  BY EarliestLeast
<1>2. Earliest(D) \in Nat /\ x \in Nat
  BY <1>1, DateFacts
<1> QED
  BY <1>1, <1>2

-----------------------------------------------------------------------------
(* Successors.                                                             *)

(* The rows of a table whose dates are typed.                              *)
Starts(r, S) == \A v \in S : r[v].from \in MaybeDate

LEMMA SuccessorChar ==
    ASSUME NEW r, NEW S, S \subseteq Versions, Starts(r, S), NEW v \in S, r[v].from # None
    PROVE  /\ SuccessorStart(r, S, v) \in MaybeDate
           /\ SuccessorStart(r, S, v) = None => \A w \in S : ~Precedes(r, v, w)
           /\ SuccessorStart(r, S, v) # None =>
                /\ \E w \in S : Precedes(r, v, w) /\ r[w].from = SuccessorStart(r, S, v)
                /\ \A w \in S : Precedes(r, v, w) => SuccessorStart(r, S, v) <= r[w].from
<1> DEFINE D == {r[w].from : w \in After(r, S, v)}
<1>1. D \subseteq MaybeDate
  BY DEF After, Starts
<1>2. ASSUME NEW w \in S, Precedes(r, v, w) PROVE r[w].from \in D /\ r[w].from # None
  <2>1. r[w].from \in D
    BY <1>2 DEF After
  <2>2. r[w].from \in MaybeDate /\ r[v].from \in MaybeDate
    BY DEF Starts
  <2>3. r[v].from > 0 /\ r[v].from \in Nat /\ r[w].from \in Nat
    BY <2>2, DateFacts
  <2>4. r[w].from > 0
    BY <2>3, <1>2 DEF Precedes
  <2> QED
    BY <2>1, <2>4 DEF None
<1>3. ASSUME NEW d \in D PROVE \E w \in S : Precedes(r, v, w) /\ r[w].from = d
  BY DEF After
<1>4. SuccessorStart(r, S, v) = Earliest(D)
  BY DEF SuccessorStart
<1> HIDE DEF D
<1> QED
  BY <1>1, <1>2, <1>3, <1>4, EarliestLeast

LEMMA SuccessorIs ==
    ASSUME NEW r, NEW S, S \subseteq Versions, Starts(r, S), NEW v \in S, r[v].from # None,
           NEW w \in S, Precedes(r, v, w),
           \A u \in S : Precedes(r, v, u) => r[w].from <= r[u].from
    PROVE  SuccessorStart(r, S, v) = r[w].from
<1> DEFINE D == {r[u].from : u \in After(r, S, v)}
<1>1. D \subseteq MaybeDate /\ r[w].from \in D
  BY DEF After, Starts
<1>2. \A d \in D : r[w].from <= d
  BY DEF After
<1> QED
  BY <1>1, <1>2, EarliestIs DEF SuccessorStart

LEMMA SuccessorNone ==
    ASSUME NEW r, NEW S, NEW v, \A u \in S : ~Precedes(r, v, u)
    PROVE  SuccessorStart(r, S, v) = None
<1>1. {r[w].from : w \in After(r, S, v)} = {}
  BY DEF After
<1> QED
  BY <1>1 DEF SuccessorStart, Earliest

(* Only the starts matter.                                                 *)
LEMMA SuccessorSame ==
    ASSUME NEW r, NEW q, NEW S, NEW v \in S, \A w \in S : r[w].from = q[w].from
    PROVE  SuccessorStart(r, S, v) = SuccessorStart(q, S, v)
<1>1. After(r, S, v) = After(q, S, v)
  BY DEF After, Precedes
<1>2. {r[w].from : w \in After(r, S, v)} = {q[w].from : w \in After(q, S, v)}
  BY <1>1 DEF After
<1> QED
  BY <1>2 DEF SuccessorStart

LEMMA SuccessorAdd ==
    ASSUME NEW r, NEW S, NEW u \in Versions \ S, S \subseteq Versions, NEW v \in S,
           Starts(r, S \cup {u}), r[v].from # None
    PROVE  /\ ~Precedes(r, v, u) => SuccessorStart(r, S \cup {u}, v) = SuccessorStart(r, S, v)
           /\ Precedes(r, v, u) /\ SuccessorStart(r, S, v) # None
                                /\ SuccessorStart(r, S, v) <= r[u].from =>
                SuccessorStart(r, S \cup {u}, v) = SuccessorStart(r, S, v)
           /\ Precedes(r, v, u) /\ (SuccessorStart(r, S, v) = None
                                    \/ r[u].from < SuccessorStart(r, S, v)) =>
                SuccessorStart(r, S \cup {u}, v) = r[u].from
<1> DEFINE s == SuccessorStart(r, S, v)
           U == S \cup {u}
<1>1. U \subseteq Versions /\ v \in U /\ Starts(r, S)
  BY DEF Starts
<1>2. /\ s \in MaybeDate
      /\ s = None => \A w \in S : ~Precedes(r, v, w)
      /\ s # None => /\ \E w \in S : Precedes(r, v, w) /\ r[w].from = s
                     /\ \A w \in S : Precedes(r, v, w) => s <= r[w].from
  BY <1>1, SuccessorChar
<1>3. r[u].from \in Nat /\ s \in Nat /\ \A w \in S : r[w].from \in Nat
  BY <1>2, DateFacts DEF Starts
<1> HIDE DEF s
<1>4. CASE ~Precedes(r, v, u)
  <2>1. CASE s = None
    <3>1. \A w \in U : ~Precedes(r, v, w)
      BY <1>2, <1>4, <2>1
    <3> QED
      BY <3>1, <2>1, <1>4, SuccessorNone DEF s
  <2>2. CASE s # None
    <3>1. PICK w \in S : Precedes(r, v, w) /\ r[w].from = s
      BY <1>2, <2>2
    <3>2. \A x \in U : Precedes(r, v, x) => r[w].from <= r[x].from
      BY <1>2, <1>4, <2>2, <3>1
    <3>3. SuccessorStart(r, U, v) = r[w].from
      BY <1>1, <3>1, <3>2, SuccessorIs
    <3> QED
      BY <3>1, <3>3, <1>4 DEF s
  <2> QED
    BY <2>1, <2>2
<1>5. CASE Precedes(r, v, u) /\ s # None /\ s <= r[u].from
  <2>1. PICK w \in S : Precedes(r, v, w) /\ r[w].from = s
    BY <1>2, <1>5
  <2>2. \A x \in U : Precedes(r, v, x) => r[w].from <= r[x].from
    BY <1>2, <1>5, <2>1
  <2>3. SuccessorStart(r, U, v) = r[w].from
    BY <1>1, <2>1, <2>2, SuccessorIs
  <2>4. ~(s = None) /\ ~(r[u].from < s)
    BY <1>5, <1>3
  <2> QED
    BY <2>1, <2>3, <2>4, <1>5 DEF s
<1>6. CASE Precedes(r, v, u) /\ (s = None \/ r[u].from < s)
  <2>1. \A x \in U : Precedes(r, v, x) => r[u].from <= r[x].from
    <3> SUFFICES ASSUME NEW x \in S, Precedes(r, v, x) PROVE r[u].from <= r[x].from
      BY <1>3
    <3> QED
      BY <1>2, <1>3, <1>6
  <2>2. SuccessorStart(r, U, v) = r[u].from
    BY <1>1, <1>6, <2>1, SuccessorIs
  <2>3. ~(s # None /\ s <= r[u].from)
    BY <1>3, <1>6
  <2> QED
    BY <2>2, <2>3, <1>6 DEF s
<1> QED
  BY <1>3, <1>4, <1>5, <1>6 DEF s

-----------------------------------------------------------------------------
(* Adjacency of one edition among S, where requests gave the ends of E and *)
(* X are excepted.                                                         *)

AdjacentIn(r, S, E, X, v) ==
    LET start == SuccessorStart(r, S, v)
    IN  r[v].to = start \/ (v \in E /\ (start = None \/ r[v].to < start)) \/ v \in X

Dated(r, v) == r[v].from # None

(* In r the editions of T are closed at d.                                 *)
Closed(r, T, d) ==
    \A w \in T :
        /\ r[w].from = row[w].from
        /\ r[w].to = IF d # None /\ row[w].from <= d /\ (row[w].to = None \/ d < row[w].to)
                     THEN d ELSE row[w].to

(* Only ends and flags differ, and no edition becomes current.             *)
Calmer(r) ==
    \A v \in Versions : r[v].act = row[v].act /\ r[v].from = row[v].from /\ (r[v].cur => row[v].cur)

(* The ends of E that r keeps are in F.                                    *)
OwnKept(r, T, E, F) ==
    \A w \in T : w \in E => row[w].to # None /\ (r[w].to = row[w].to => w \in F)

(* An edition u that begins at d is after those that already do, but for Y.*)
Newest(T, Y, u, d) == \A w \in T : row[w].from = d /\ d # None => w < u \/ w \in Y

(* Closing the editions that begin before a new one keeps the others       *)
(* adjacent, and the new one ends where the next begins.                   *)
LEMMA InsertAdjacent ==
    ASSUME NEW r, NEW T, T \subseteq Versions, NEW u \in Versions \ T, NEW d \in MaybeDate,
           NEW E, NEW F, NEW X, NEW Y, row \in [Versions -> Row],
           r[u].from = d,
           Closed(r, T, d), Newest(T, Y, u, d), OwnKept(r, T, E, F),
           \A w \in T : w \in X => w \in Y,
           \A w \in T : Dated(row, w) => AdjacentIn(row, T, E, X, w)
    PROVE  /\ \A w \in T : Dated(row, w) => AdjacentIn(r, T \cup {u}, F, Y, w)
           /\ d # None /\ Newest(T, {}, u, d) =>
                SuccessorStart(r, T \cup {u}, u) = SuccessorDate(T, d)
<1> DEFINE U == T \cup {u}
<1>0. /\ \A w \in T : r[w].from = row[w].from
      /\ \A w \in T : r[w].to = IF d # None /\ row[w].from <= d
                                    /\ (row[w].to = None \/ d < row[w].to)
                                 THEN d ELSE row[w].to
      /\ \A w \in T : row[w].from = d /\ d # None => w < u \/ w \in Y
      /\ \A w \in T : w \in E => row[w].to # None
      /\ \A w \in T : w \in E /\ r[w].to = row[w].to => w \in F
  BY DEF Closed, Newest, OwnKept
<1>1. Starts(row, T) /\ Starts(r, U)
  BY <1>0, RowFields DEF Starts
<1>2. \A w \in T : row[w].from \in Nat /\ row[w].to \in Nat
  BY RowFields, DateFacts
<1>3. d \in Nat /\ u \in Nat /\ \A w \in T : w \in Nat
  BY DateFacts
<1>4. ASSUME NEW w \in T, Dated(row, w), w \notin Y PROVE AdjacentIn(r, U, F, Y, w)
  <2> DEFINE s == SuccessorStart(row, T, w)
             t == SuccessorStart(r, U, w)
  <2>1. s = SuccessorStart(r, T, w)
    BY <1>0, SuccessorSame
  <2>2. s \in Nat
    BY <1>1, <1>4, SuccessorChar, DateFacts DEF Dated
  <2>3. row[w].to = s \/ (w \in E /\ (s = None \/ row[w].to < s))
    BY <1>4 DEF AdjacentIn
  <2>5. row[w].from > 0
    BY <1>4, <1>2 DEF Dated, None
  <2>4. Precedes(r, w, u) <=> row[w].from <= d
    BY <1>0, <1>2, <1>3, <1>4, <2>5 DEF Precedes, None
  <2>6. /\ ~Precedes(r, w, u) => t = s
        /\ Precedes(r, w, u) /\ s # None /\ s <= d => t = s
        /\ Precedes(r, w, u) /\ (s = None \/ d < s) => t = d
    BY <1>0, <2>1, <1>1, <1>4, SuccessorAdd DEF Dated
  <2>7. r[w].to = t \/ (w \in F /\ (t = None \/ r[w].to < t))
    <3> HIDE DEF s, t
    <3>1. CASE ~Precedes(r, w, u)
      <4>1. r[w].to = row[w].to
        BY <1>0, <3>1, <2>4
      <4> QED
        BY <1>0, <4>1, <3>1, <2>3, <2>6
    <3>2. CASE Precedes(r, w, u)
      <4>1. d > 0 /\ d # None
        BY <3>2, <2>4, <2>5, <1>2, <1>3 DEF None
      <4>2. r[w].to = IF row[w].to = None \/ d < row[w].to THEN d ELSE row[w].to
        BY <1>0, <3>2, <2>4, <4>1
      <4>3. row[w].to = None => s = None
        BY <1>0, <2>3
      <4> QED
        BY <1>0, <4>1, <4>2, <4>3, <3>2, <2>2, <2>3, <2>6, <1>2, <1>3 DEF None
    <3> QED
      BY <3>1, <3>2
  <2> QED
    BY <2>7 DEF AdjacentIn
<1>5. ASSUME d # None, Newest(T, {}, u, d) PROVE SuccessorStart(r, U, u) = SuccessorDate(T, d)
  <2>0. \A w \in T : row[w].from = d => w < u
    BY <1>5 DEF Newest
  <2>1. \A w \in T : Precedes(r, u, w) <=> d < row[w].from
    BY <1>0, <1>2, <1>3, <2>0 DEF Precedes
  <2>2. ~Precedes(r, u, u)
    BY <1>3 DEF Precedes
  <2>3. After(r, U, u) = {w \in T : d < row[w].from}
    BY <2>1, <2>2 DEF After
  <2>4. {r[w].from : w \in After(r, U, u)} = {x \in {row[w].from : w \in T} : d < x}
    BY <1>0, <2>3
  <2> QED
    BY <2>4, <1>5 DEF SuccessorStart, SuccessorDate
<1>6. \A w \in T : w \in Y => AdjacentIn(r, U, F, Y, w)
  BY DEF AdjacentIn
<1> QED
  BY <1>4, <1>5, <1>6

-----------------------------------------------------------------------------
(* Rebuilding.                                                             *)

LoneCurrent(r, S) == \A v, w \in S : r[v].cur /\ r[w].cur => v = w

Rebuilt(new, r, S, end) ==
    /\ \A v \in Versions \ S : new[v] = r[v]
    /\ \A v \in S : /\ new[v].act = r[v].act
                    /\ new[v].from = r[v].from
                    /\ new[v].to = Cap(end[v], SuccessorStart(r, S, v))
                    /\ SuccessorStart(new, S, v) = SuccessorStart(r, S, v)
    /\ LoneCurrent(new, S)

LEMMA RebuildFacts ==
    ASSUME NEW r \in [Versions -> RawRow], NEW S, S \subseteq Versions, NEW end
    PROVE  Rebuilt(Rebuild(r, S, end), r, S, end)
<1> DEFINE new == Rebuild(r, S, end)
           to == [v \in S |-> Cap(end[v], SuccessorStart(r, S, v))]
           eligible == {v \in S : r[v].from <= today /\ (to[v] = None \/ today < to[v])}
<1>1. new = [v \in Versions |->
                IF v \in S
                THEN [r[v] EXCEPT !.to = to[v],
                                  !.cur = v \in eligible /\ After(r, eligible, v) = {}]
                ELSE r[v]]
  BY DEF Rebuild
<1>2. ASSUME NEW v \in S
      PROVE  /\ new[v].act = r[v].act
             /\ new[v].from = r[v].from
             /\ new[v].to = to[v]
             /\ new[v].cur = (v \in eligible /\ After(r, eligible, v) = {})
  <2>1. new[v] = [r[v] EXCEPT !.to = to[v],
                              !.cur = v \in eligible /\ After(r, eligible, v) = {}]
    BY <1>1
  <2>2. r[v] \in RawRow
    OBVIOUS
  <2> HIDE DEF to, eligible, new
  <2> QED
    BY <2>1, <2>2 DEF RawRow
<1>3. ASSUME NEW v \in S, NEW w \in S, new[v].cur, new[w].cur PROVE v = w
  <2>1. v \in eligible /\ w \in eligible /\ After(r, eligible, v) = {} /\ After(r, eligible, w) = {}
    BY <1>2, <1>3
  <2>2. ~Precedes(r, v, w) /\ ~Precedes(r, w, v)
    BY <2>1 DEF After
  <2>3. r[v].from \in Nat /\ r[w].from \in Nat /\ v \in Nat /\ w \in Nat
    BY DateFacts DEF RawRow
  <2> QED
    BY <2>2, <2>3 DEF Precedes
<1>4. ASSUME NEW v \in S PROVE SuccessorStart(new, S, v) = SuccessorStart(r, S, v)
  <2> HIDE DEF new
  <2> QED
    BY <1>2, SuccessorSame
<1>5. ASSUME NEW v \in S PROVE to[v] = Cap(end[v], SuccessorStart(r, S, v))
  OBVIOUS
<1>6. \A v \in Versions \ S : new[v] = r[v]
  BY <1>1
<1>7. LoneCurrent(new, S)
  BY <1>3 DEF LoneCurrent
<1> HIDE DEF to, eligible
<1> QED
  BY <1>2, <1>4, <1>5, <1>6, <1>7 DEF Rebuilt

(* What is rebuilt is adjacent when the ends that it keeps were given by   *)
(* requests or are excepted.                                               *)
LEMMA RebuildAdjacent ==
    ASSUME NEW r \in [Versions -> RawRow], NEW S, S \subseteq Versions,
           NEW end, \A v \in S : end[v] \in MaybeDate,
           NEW F, NEW Y,
           \A v \in S : end[v] # None /\ Rebuild(r, S, end)[v].to = end[v] => v \in F \cup Y,
           NEW v \in S, Dated(r, v)
    PROVE  AdjacentIn(Rebuild(r, S, end), S, F, Y, v)
<1> DEFINE new == Rebuild(r, S, end)
           s == SuccessorStart(r, S, v)
<1>0. Rebuilt(new, r, S, end)
  BY RebuildFacts
<1>1. new[v].to = Cap(end[v], s) /\ SuccessorStart(new, S, v) = s
  BY <1>0 DEF Rebuilt
<1>2. Starts(r, S)
  BY DEF Starts, RawRow
<1>3. s \in Nat /\ end[v] \in Nat
  BY <1>2, SuccessorChar, DateFacts DEF Dated
<1>4. end[v] # None /\ new[v].to = end[v] => v \in F \cup Y
  OBVIOUS
<1> HIDE DEF s, new
<1>5. new[v].to = s \/ (v \in F /\ (s = None \/ new[v].to < s)) \/ v \in Y
  BY <1>1, <1>3, <1>4 DEF Cap, None
<1> QED
  BY <1>1, <1>5 DEF AdjacentIn, new, s

-----------------------------------------------------------------------------
(* Saving.                                                                 *)

(* A save that changes the flags of one act only is accepted when the act  *)
(* has one current edition before and after.                               *)
LEMMA SaveFine ==
    ASSUME NEW L, L \subseteq Versions, NEW r, NEW new,
           OneCurrent(L, r), OneCurrent(L, new),
           \A v \in L : new[v].act = r[v].act
    PROVE  SaveAccepted(L, r, new)
<1> DEFINE order == SaveOrder(r, new)
<1>1. \A v \in L : order[v] = IF new[v].cur THEN r[v] ELSE new[v]
  BY DEF SaveOrder
<1> HIDE DEF order
<1>2. \A v \in L : order[v].cur => r[v].cur
  BY <1>1
<1>3. \A v \in L : order[v].act = r[v].act
  BY <1>1
<1>4. OneCurrent(L, order)
  BY <1>2, <1>3 DEF OneCurrent
<1> QED
  BY <1>4 DEF SaveAccepted, order

LEMMA InsertFacts ==
    ASSUME row \in [Versions -> Row], NEW T, T \subseteq Versions, NEW d \in MaybeDate
    PROVE  /\ InsertBoundary(T, d) \in [Versions -> Row]
           /\ \A v \in Versions \ T : InsertBoundary(T, d)[v] = row[v]
           /\ Calmer(InsertBoundary(T, d))
           /\ Closed(InsertBoundary(T, d), T, d)
           /\ IsLatest(T, d) => \A v \in T : ~InsertBoundary(T, d)[v].cur
<1> DEFINE latest == IsLatest(T, d)
           end(v) == IF row[v].from <= d /\ (row[v].to = None \/ d < row[v].to) THEN d ELSE row[v].to
           closed == InsertBoundary(T, d)
<1>1. closed = [v \in Versions |->
                    IF v \in T /\ d # None
                    THEN [row[v] EXCEPT !.to = end(v), !.cur = @ /\ ~latest]
                    ELSE row[v]]
  BY DEF InsertBoundary
<1>2. latest \in BOOLEAN
  BY DEF IsLatest
<1>3. ASSUME NEW v \in Versions
      PROVE  /\ closed[v] \in Row
             /\ closed[v].act = row[v].act
             /\ closed[v].from = row[v].from
             /\ closed[v].cur => row[v].cur
             /\ v \notin T => closed[v] = row[v]
             /\ v \in T => closed[v].to = IF d # None THEN end(v) ELSE row[v].to
             /\ v \in T /\ latest => ~closed[v].cur
  <2> DEFINE x == row[v]
             y == [act |-> x.act, from |-> x.from, to |-> end(v), cur |-> x.cur /\ ~latest]
  <2>1. /\ x.act \in Acts \cup {NoAct} /\ x.from \in MaybeDate /\ x.to \in MaybeDate
        /\ x.cur \in BOOLEAN /\ ValidDates(x)
        /\ x = [act |-> x.act, from |-> x.from, to |-> x.to, cur |-> x.cur]
    BY RowFields
  <2>2. CASE v \in T /\ d # None
    <3>1. closed[v] = [x EXCEPT !.to = end(v), !.cur = x.cur /\ ~latest]
      BY <1>1, <2>2
    <3>2. closed[v] = y
      <4> HIDE DEF latest, end, closed
      <4> QED
        BY <3>1, <2>1
    <3>3. end(v) \in MaybeDate /\ (x.from = None \/ end(v) = None \/ x.from <= end(v))
      BY <2>1, DateFacts DEF ValidDates
    <3>4. (x.cur /\ ~latest) \in BOOLEAN
      OBVIOUS
    <3> HIDE DEF latest, end, closed
    <3>5. y \in Row
      BY <2>1, <3>3, <3>4, RowIntro
    <3>6. closed[v].act = x.act /\ closed[v].from = x.from /\ closed[v].to = end(v)
      BY <3>2
    <3>7. closed[v].cur = (x.cur /\ ~latest)
      BY <3>2
    <3>8. closed[v] \in Row
      BY <3>2, <3>5
    <3>9. closed[v].cur => x.cur /\ ~latest
      BY <3>7
    <3> QED
      BY <2>2, <3>6, <3>8, <3>9
  <2>3. CASE v \notin T
    BY <1>1, <2>1, <2>3
  <2>4. CASE v \in T /\ d = None
    <3>1. closed[v] = x
      BY <1>1, <2>4
    <3>2. latest => ~x.cur
      BY <2>4 DEF IsLatest
    <3> HIDE DEF latest, end, closed
    <3> QED
      BY <3>1, <3>2, <2>4, <2>1
  <2> QED
    BY <2>2, <2>3, <2>4
<1>4. DOMAIN closed = Versions /\ closed = [v \in Versions |-> closed[v]]
  BY <1>1
<1> HIDE DEF latest, closed
<1>5. closed \in [Versions -> Row]
  BY <1>3, <1>4
<1>6. Closed(closed, T, d)
  <2>1. \A v \in T : closed[v].from = row[v].from /\ closed[v].to = IF d # None THEN end(v) ELSE row[v].to
    BY <1>3
  <2> QED
    BY <2>1 DEF Closed
<1>7. Calmer(closed)
  BY <1>3 DEF Calmer
<1>8. latest => \A v \in T : ~closed[v].cur
  BY <1>3
<1>9. \A v \in Versions \ T : closed[v] = row[v]
  BY <1>3
<1> QED
  BY <1>5, <1>6, <1>7, <1>8, <1>9 DEF closed, latest

LEMMA InsertCurrent ==
    ASSUME row \in [Versions -> Row], NEW T, T \subseteq Versions, NEW d \in MaybeDate,
           NEW L, L \subseteq Versions, OneCurrent(L, row)
    PROVE  /\ OneCurrent(L, InsertBoundary(T, d))
           /\ SaveAccepted(L, row, InsertBoundary(T, d))
<1> DEFINE closed == InsertBoundary(T, d)
<1>0. Calmer(closed)
  BY InsertFacts
<1> HIDE DEF closed
<1>1. \A v \in Versions : closed[v].act = row[v].act /\ (closed[v].cur => row[v].cur)
  BY <1>0 DEF Calmer
<1>2. OneCurrent(L, closed)
  BY <1>1 DEF OneCurrent
<1>3. SaveAccepted(L, row, closed)
  BY <1>1, <1>2, SaveFine
<1> QED
  BY <1>2, <1>3 DEF closed

LEMMA SuccessorDateFacts ==
    ASSUME row \in [Versions -> RawRow], NEW S, S \subseteq Versions, NEW d \in MaybeDate
    PROVE  /\ SuccessorDate(S, d) \in MaybeDate
           /\ SuccessorDate(S, d) = None \/ d < SuccessorDate(S, d)
           /\ S = {} \/ d = None => SuccessorDate(S, d) = None
<1> DEFINE D == {x \in {row[w].from : w \in S} : d < x}
<1>1. D \subseteq MaybeDate
  BY RawFields
<1>2. \A x \in D : d < x
  OBVIOUS
<1>3. SuccessorDate(S, d) = IF d = None THEN None ELSE Earliest(D)
  BY DEF SuccessorDate
<1>4. S = {} => D = {}
  OBVIOUS
<1> HIDE DEF D
<1>5. CASE d = None
  BY <1>3, <1>5, DateFacts
<1>6. CASE D = {}
  BY <1>3, <1>6, EarliestLeast, DateFacts
<1>7. CASE d # None /\ D # {}
  <2>1. SuccessorDate(S, d) = Earliest(D) /\ S # {}
    BY <1>3, <1>4, <1>7
  <2>2. Earliest(D) \in D
    BY <1>1, <1>7, EarliestLeast
  <2> QED
    BY <1>1, <1>2, <1>7, <2>1, <2>2
<1> QED
  BY <1>5, <1>6, <1>7

-----------------------------------------------------------------------------
(* The inductive invariant.                                                *)

LEMMA AdjacentEditions ==
    ASSUME IInv, ~overwritten, NEW a \in Acts
    PROVE  /\ Editions(a) \subseteq live /\ live \subseteq Versions
           /\ \A w \in Editions(a) : row[w].act = a
           /\ \A w \in Editions(a) : Dated(row, w) => AdjacentIn(row, Editions(a), ended, stray, w)
<1>1. live \subseteq Versions
  BY DateFacts DEF IInv, TypeOK, Versions
<1>2. ASSUME NEW w \in Editions(a), Dated(row, w)
      PROVE  AdjacentIn(row, Editions(a), ended, stray, w)
  <2>1. w \in live /\ row[w].act = a /\ a # NoAct
    BY ActsAssumption DEF Editions
  <2> QED
    BY <1>2, <2>1 DEF IInv, Adjacent, AdjacentIn, Dated
<1> QED
  BY <1>1, <1>2 DEF Editions

(* An end that is kept when neighbours change was given by a request, or   *)
(* its edition is a stray.                                                 *)
LEMMA ExplicitEndFacts ==
    ASSUME IInv, ~overwritten, NEW a \in Acts, NEW w \in Editions(a)
    PROVE  LET end == ExplicitEnd(row, Editions(a), w)
           IN  end \in MaybeDate /\ (end # None => end = row[w].to /\ w \in ended \cup stray)
<1>1. w \in live /\ w \in Versions /\ row[w] \in Row
  BY AdjacentEditions DEF IInv, TypeOK
<1>2. row[w].to \in MaybeDate
  BY <1>1, RowFields
<1>3. ASSUME ExplicitEnd(row, Editions(a), w) # None PROVE w \in ended \cup stray
  <2>1. row[w].to # None /\ row[w].to # SuccessorStart(row, Editions(a), w)
    BY <1>3 DEF ExplicitEnd
  <2>2. CASE Dated(row, w)
    BY <2>1, <2>2, AdjacentEditions DEF AdjacentIn
  <2>3. CASE ~Dated(row, w)
    <3>1. ~Derived(live, row, w)
      BY <2>1, ActsAssumption DEF Derived, Editions
    <3> QED
      BY <1>1, <2>1, <2>3, <3>1 DEF Dated, IInv, EndFacts
  <2> QED
    BY <2>2, <2>3
<1> QED
  BY <1>2, <1>3, DateFacts DEF ExplicitEnd

(* Acts that a step leaves alone stay adjacent.                            *)
LEMMA Unaffected ==
    ASSUME IInv, ~overwritten, NEW b \in Acts, NEW new, NEW F, NEW Y,
           \A w \in Editions(b) : new[w] = row[w] /\ (w \in ended => w \in F) /\ (w \in stray => w \in Y),
           NEW v \in Editions(b), Dated(row, v)
    PROVE  AdjacentIn(new, Editions(b), F, Y, v)
<1>1. AdjacentIn(row, Editions(b), ended, stray, v)
  BY AdjacentEditions
<1>2. SuccessorStart(new, Editions(b), v) = SuccessorStart(row, Editions(b), v)
  BY SuccessorSame
<1> QED
  BY <1>1, <1>2 DEF AdjacentIn

LEMMA LatestType == \A S, d : IsLatest(S, d) \in BOOLEAN
BY DEF IsLatest

LEMMA WrittenAll ==
    ASSUME NEW x \in Row, NEW y \in RawRow
    PROVE  Written(x, x, y) = y
<1>1. x = [act |-> x.act, from |-> x.from, to |-> x.to, cur |-> x.cur]
  BY RowFields
<1>2. y = [act |-> y.act, from |-> y.from, to |-> y.to, cur |-> y.cur]
  BY DEF RawRow
<1>3. DOMAIN x = {"act", "from", "to", "cur"} /\ DOMAIN y = {"act", "from", "to", "cur"}
  BY <1>1, <1>2
<1>4. \A k \in DOMAIN x : (IF y[k] = x[k] THEN x[k] ELSE y[k]) = y[k]
  OBVIOUS
<1>5. Written(x, x, y) = [k \in DOMAIN x |-> y[k]]
  BY <1>4 DEF Written
<1>6. y = [k \in DOMAIN y |-> y[k]]
  BY <1>2
<1> QED
  BY <1>3, <1>5, <1>6

EditionsOf(L, r, a) == {v \in L : r[v].act = a}

(* The editions that a commit with these arguments excepts, unless they    *)
(* end where the next one starts.                                          *)
Excepted(end, odd) == odd \cup {v \in stray : end[v] = Keep}

(* What a transaction owes the invariant.                                  *)
SoundRows(L, new, end, odd) ==
    /\ \A v \in Versions : ValidDates(new[v])
    /\ OneCurrent(L, new)
    /\ \A b \in Acts : \A v \in EditionsOf(L, new, b) :
            Dated(new, v) =>
                AdjacentIn(new, EditionsOf(L, new, b), Given(L, new, end), Excepted(end, odd), v)
    /\ \A v \in L : new[v].to # None /\ new[v].act = NoAct =>
            v \in Given(L, new, end) \/ v \in Excepted(end, odd)

(* What the invariant says of the table.                                   *)
Table ==
    /\ row \in [Versions -> Row]
    /\ ~conflict
    /\ Adjacent /\ OneCurrent(live, row) /\ EndFacts

LEMMA CommitStep ==
    ASSUME IInv, ~overwritten, NEW L, L \subseteq Versions, NEW new, NEW end, NEW odd,
           NEW accepted, accepted, row' \in [Versions -> RawRow],
           Commit(L, accepted, new, end, odd), SoundRows(L, new, end, odd)
    PROVE  Table'
<1> DEFINE F == Given(L, new, end)
           W == Excepted(end, odd)
<1>1. live' = L /\ row' = new
  BY DEF Commit
<1>2. ended' = F /\ stray' = Strays(L, new, end, odd)
  BY DEF Commit
<1>3. ~conflict'
  BY DEF Commit, IInv, TypeOK, NoConflict
<1>4. row' \in [Versions -> Row]
  BY <1>1 DEF SoundRows, Row
<1>5. OneCurrent(live, row)'
  BY <1>1 DEF SoundRows, OneCurrent
<1>6. \A v \in L : v \in W /\ ~Derived(L, new, v) => v \in stray'
  BY <1>2 DEF Excepted, Strays
<1>7. Adjacent'
  <2> SUFFICES ASSUME NEW v \in live', row'[v].act # NoAct, row'[v].from # None
               PROVE  AdjacentIn(row', Editions(row[v].act)', ended', stray', v)
    BY DEF Adjacent, AdjacentIn
  <2>1. new[v] \in Row /\ new[v].act \in Acts
    BY <1>1, <1>4, RowFields
  <2>2. Editions(row[v].act)' = EditionsOf(L, new, new[v].act)
    BY <1>1 DEF Editions, EditionsOf
  <2>3. v \in EditionsOf(L, new, new[v].act) /\ Dated(new, v)
    BY <1>1 DEF EditionsOf, Dated
  <2>4. AdjacentIn(new, EditionsOf(L, new, new[v].act), F, W, v)
    BY <2>1, <2>3 DEF SoundRows
  <2>5. CASE Derived(L, new, v)
    <3>1. new[v].to = SuccessorStart(new, EditionsOf(L, new, new[v].act), v)
      BY <1>1, <2>5 DEF Derived, EditionsOf
    <3> QED
      BY <1>1, <2>2, <3>1 DEF AdjacentIn
  <2>6. CASE ~Derived(L, new, v)
    <3>1. v \in W => v \in stray'
      BY <1>1, <1>6, <2>6
    <3> QED
      BY <1>1, <1>2, <2>2, <2>4, <3>1 DEF AdjacentIn
  <2> QED
    BY <2>5, <2>6
<1>8. EndFacts'
  <2>1. \A v \in ended' : row'[v].to # None
    BY <1>1, <1>2 DEF Given
  <2>2. ASSUME NEW v \in L, new[v].to # None, new[v].act = NoAct \/ new[v].from = None,
               ~Derived(L, new, v), v \notin F
        PROVE  v \in stray'
    <3>1. CASE new[v].from = None
      BY <1>2, <2>2, <3>1 DEF Strays
    <3>2. CASE new[v].act = NoAct
      BY <1>6, <2>2, <3>2 DEF SoundRows
    <3> QED
      BY <2>2, <3>1, <3>2
  <2>3. \A v \in L : Derived(L, new, v) <=> Derived(live, row, v)'
    BY <1>1 DEF Derived
  <2> HIDE DEF F
  <2> QED
    BY <1>1, <1>2, <2>1, <2>2, <2>3 DEF EndFacts
<1> QED
  BY <1>3, <1>4, <1>5, <1>7, <1>8 DEF Table

(* An act whose rows are as before stays adjacent after a commit.          *)
LEMMA UnaffectedCommit ==
    ASSUME IInv, ~overwritten, NEW L, L \subseteq Versions, NEW new, NEW end, NEW odd,
           NEW b \in Acts, EditionsOf(L, new, b) = Editions(b),
           \A w \in Editions(b) : new[w] = row[w] /\ end[w] = Keep,
           NEW v \in Editions(b), Dated(new, v)
    PROVE  AdjacentIn(new, EditionsOf(L, new, b), Given(L, new, end), Excepted(end, odd), v)
<1>1. \A w \in Editions(b) : w \in L
  BY DEF EditionsOf
<1>2. \A w \in Editions(b) : w \in ended => w \in Given(L, new, end)
  BY <1>1 DEF Given, IInv, EndFacts
<1>3. \A w \in Editions(b) : w \in stray => w \in Excepted(end, odd)
  BY DEF Excepted
<1>4. Dated(row, v)
  BY DEF Dated
<1> QED
  BY <1>2, <1>3, <1>4, Unaffected

-----------------------------------------------------------------------------
(* The types of the table, of the reads and of the histories, which hold   *)
(* after an outdated read is written, too.                                 *)

Types ==
    /\ next \in 1 .. MaxVersions + 1
    /\ live \subseteq 1 .. next - 1
    /\ row \in [Versions -> RawRow]
    /\ cmd \in [Commands -> [v : 0 .. next - 1, seen : RawRow]]
    /\ today \in Dates
    /\ ended \subseteq live /\ stray \subseteq live
    /\ overwritten \in BOOLEAN
    /\ conflict \in BOOLEAN

LEMMA TypesOfTypeOK ==
    ASSUME TypeOK
    PROVE  Types
<1>1. Row \subseteq RawRow
  BY DEF Row
<1>2. row \in [Versions -> RawRow]
  BY <1>1 DEF TypeOK
<1> QED
  BY <1>2 DEF TypeOK, Types

LEMMA TypesFacts ==
    ASSUME Types
    PROVE  /\ live \subseteq Versions
           /\ row \in [Versions -> RawRow]
           /\ next \in Nat /\ next >= 1
           /\ \A b \in Acts \cup {NoAct} : Editions(b) \subseteq live
           /\ \A c \in Commands : /\ cmd[c].v \in 0 .. next - 1 /\ cmd[c].seen \in RawRow
                                  /\ cmd[c].seen.act \in Acts \cup {NoAct}
<1>1. \A c \in Commands : cmd[c].v \in 0 .. next - 1 /\ cmd[c].seen \in RawRow
  BY DEF Types
<1> QED
  BY <1>1, RawFields, BoundAssumption DEF Types, Versions, Editions

LEMMA RawInsert ==
    ASSUME row \in [Versions -> RawRow], NEW T, NEW d \in MaybeDate
    PROVE  InsertBoundary(T, d) \in [Versions -> RawRow]
<1> DEFINE latest == IsLatest(T, d)
           end(v) == IF row[v].from <= d /\ (row[v].to = None \/ d < row[v].to) THEN d ELSE row[v].to
<1>1. InsertBoundary(T, d) = [v \in Versions |->
                                 IF v \in T /\ d # None
                                 THEN [row[v] EXCEPT !.to = end(v), !.cur = @ /\ ~latest]
                                 ELSE row[v]]
  BY DEF InsertBoundary
<1>2. ASSUME NEW v \in Versions
      PROVE  [row[v] EXCEPT !.to = end(v), !.cur = @ /\ ~latest] \in RawRow
  <2>1. end(v) \in MaybeDate
    BY RawFields
  <2>2. (row[v].cur /\ ~latest) \in BOOLEAN
    OBVIOUS
  <2> HIDE DEF end, latest
  <2> QED
    BY <2>1, <2>2 DEF RawRow
<1> HIDE DEF end, latest
<1> QED
  BY <1>1, <1>2

LEMMA SuccessorType ==
    ASSUME NEW r \in [Versions -> RawRow], NEW S, S \subseteq Versions, NEW v
    PROVE  SuccessorStart(r, S, v) \in MaybeDate
<1>1. {r[w].from : w \in After(r, S, v)} \subseteq MaybeDate
  BY RawFields DEF After
<1> QED
  BY <1>1, EarliestLeast DEF SuccessorStart

LEMMA RawRebuild ==
    ASSUME NEW r \in [Versions -> RawRow], NEW S, S \subseteq Versions,
           NEW end, \A w \in S : end[w] \in MaybeDate
    PROVE  Rebuild(r, S, end) \in [Versions -> RawRow]
<1> DEFINE to == [v \in S |-> Cap(end[v], SuccessorStart(r, S, v))]
           eligible == {v \in S : r[v].from <= today /\ (to[v] = None \/ today < to[v])}
           flag(v) == v \in eligible /\ After(r, eligible, v) = {}
<1>1. Rebuild(r, S, end) = [v \in Versions |->
                               IF v \in S THEN [r[v] EXCEPT !.to = to[v], !.cur = flag(v)] ELSE r[v]]
  BY DEF Rebuild
<1>2. ASSUME NEW v \in S PROVE to[v] \in MaybeDate
  BY SuccessorType DEF Cap
<1>3. ASSUME NEW v \in S PROVE [r[v] EXCEPT !.to = to[v], !.cur = flag(v)] \in RawRow
  <2>1. to[v] \in MaybeDate /\ flag(v) \in BOOLEAN
    BY <1>2
  <2> HIDE DEF to, flag
  <2> QED
    BY <2>1 DEF RawRow
<1> HIDE DEF to, flag
<1> QED
  BY <1>1, <1>3

LEMMA ExplicitType ==
    ASSUME row \in [Versions -> RawRow], NEW S, S \subseteq Versions, NEW w \in S
    PROVE  ExplicitEnd(row, S, w) \in MaybeDate
BY RawFields, DateFacts DEF ExplicitEnd

LEMMA RawReconnected ==
    ASSUME Types, NEW a \in Acts \cup {NoAct}, NEW v, NEW r \in [Versions -> RawRow]
    PROVE  Reconnected(r, a, v) \in [Versions -> RawRow]
<1> DEFINE end == [w \in Editions(a) |-> ExplicitEnd(row, Editions(a), w)]
<1>1. CASE a = NoAct
  BY <1>1 DEF Reconnected
<1>2. CASE a # NoAct
  <2>1. Reconnected(r, a, v) = Rebuild(r, Editions(a) \ {v}, end)
    BY <1>2 DEF Reconnected
  <2>2. Editions(a) \subseteq Versions
    BY TypesFacts
  <2>3. \A w \in Editions(a) \ {v} : end[w] \in MaybeDate
    BY <2>2, ExplicitType, TypesFacts
  <2> HIDE DEF end
  <2> QED
    BY <2>1, <2>2, <2>3, RawRebuild
<1> QED
  BY <1>1, <1>2

LEMMA RawWritten ==
    ASSUME NEW x \in RawRow, NEW y \in RawRow, NEW z \in RawRow
    PROVE  Written(x, y, z) \in RawRow
<1> DEFINE w == [act |-> IF z.act = y.act THEN x.act ELSE z.act,
                 from |-> IF z.from = y.from THEN x.from ELSE z.from,
                 to |-> IF z.to = y.to THEN x.to ELSE z.to,
                 cur |-> IF z.cur = y.cur THEN x.cur ELSE z.cur]
<1>1. DOMAIN x = {"act", "from", "to", "cur"}
  BY DEF RawRow
<1>2. Written(x, y, z) = w
  BY <1>1 DEF Written
<1>3. w \in RawRow
  BY DEF RawRow
<1> QED
  BY <1>2, <1>3

LEMMA RawEdited ==
    ASSUME Types, NEW c \in Commands, NEW a \in Acts \cup {NoAct},
           cmd[c].v \in live, NEW f \in {Keep} \cup MaybeDate, NEW e \in {Keep} \cup MaybeDate
    PROVE  /\ Read(c) \in RawRow
           /\ Edited(c, f, e, a) \in RawRow /\ Edited(c, f, e, a).act = a
<1>1. Read(c) \in RawRow
  BY TypesFacts DEF Read
<1>2. Edited(c, f, e, a) = [Read(c) EXCEPT !.act = a,
                                           !.from = IF f = Keep THEN Read(c).from ELSE f,
                                           !.to = IF e = Keep THEN Read(c).to ELSE e]
  BY DEF Edited
<1>3. /\ (IF f = Keep THEN Read(c).from ELSE f) \in MaybeDate
      /\ (IF e = Keep THEN Read(c).to ELSE e) \in MaybeDate
  BY <1>1, RawFields
<1> QED
  BY <1>1, <1>2, <1>3 DEF RawRow

(* What a relinked edition becomes: its start is the one asked for, and    *)
(* among the editions of an act it is current when it is the latest.       *)
LEMMA JoinedFacts ==
    ASSUME NEW x \in RawRow, NEW T, T \subseteq Versions, row \in [Versions -> RawRow]
    PROVE  /\ Joined(x, T) \in RawRow
           /\ Joined(x, T).act = x.act /\ Joined(x, T).from = x.from
           /\ x.act # NoAct => Joined(x, T).cur = IsLatest(T, x.from)
<1> DEFINE t == IF x.to = None THEN SuccessorDate(T, x.from) ELSE x.to
           b == IF x.act = NoAct THEN x.from <= today /\ (x.to = None \/ today < x.to)
                                 ELSE IsLatest(T, x.from)
<1>1. Joined(x, T) = [x EXCEPT !.to = t, !.cur = b]
  BY DEF Joined
<1>2. t \in MaybeDate
  BY SuccessorDateFacts DEF RawRow
<1>3. b \in BOOLEAN /\ (x.act # NoAct => b = IsLatest(T, x.from))
  BY LatestType
<1> HIDE DEF t, b
<1> QED
  BY <1>1, <1>2, <1>3 DEF RawRow

LEMMA CommitTypes ==
    ASSUME Types, NEW L, NEW accepted, NEW new \in [Versions -> RawRow], NEW end, NEW odd,
           Commit(L, accepted, new, end, odd)
    PROVE  /\ row' \in [Versions -> RawRow]
           /\ live' \subseteq live \cup L
           /\ ended' \subseteq live' /\ stray' \subseteq live'
           /\ conflict' \in BOOLEAN
<1>1. conflict' = (conflict \/ ~accepted)
  BY DEF Commit
<1>2. CASE accepted
  <2>1. row' = new /\ live' = L /\ ended' = Given(L, new, end) /\ stray' = Strays(L, new, end, odd)
    BY <1>2 DEF Commit
  <2> QED
    BY <1>1, <2>1 DEF Given, Strays
<1>3. CASE ~accepted
  <2>1. row' = row /\ live' = live /\ ended' = ended /\ stray' = stray
    BY <1>3 DEF Commit
  <2> QED
    BY <1>1, <2>1 DEF Types
<1> QED
  BY <1>2, <1>3

Ends(c) == cmd' = [cmd EXCEPT ![c] = Idle] /\ UNCHANGED <<next, today>>

LEMMA EndTypes ==
    ASSUME Types, NEW c \in Commands, Ends(c)
    PROVE  /\ next' = next /\ today' = today
           /\ cmd' \in [Commands -> [v : 0 .. next - 1, seen : RawRow]]
<1>1. Idle \in [v : 0 .. next - 1, seen : RawRow]
  <2>1. 0 \in 0 .. next - 1 /\ Blank \in RawRow
    BY TypesFacts, BlankType DEF Row
  <2> QED
    BY <2>1 DEF Idle
<1> QED
  BY <1>1 DEF Types, Ends

LEMMA CommandTypes ==
    ASSUME Types, NEW c \in Commands, Ends(c),
           NEW L, L \subseteq live, NEW accepted, NEW new \in [Versions -> RawRow],
           NEW end, NEW odd,
           Commit(L, accepted, new, end, odd), overwritten' \in BOOLEAN
    PROVE  Types'
<1>1. /\ row' \in [Versions -> RawRow]
      /\ live' \subseteq live \cup L
      /\ ended' \subseteq live' /\ stray' \subseteq live'
      /\ conflict' \in BOOLEAN
  BY CommitTypes
<1>2. /\ next' = next /\ today' = today
      /\ cmd' \in [Commands -> [v : 0 .. next - 1, seen : RawRow]]
  BY EndTypes
<1> QED
  BY <1>1, <1>2 DEF Types

LEMMA RequestFacts ==
    ASSUME NEW q \in Requests
    PROVE  q[1] \in {Keep} \cup MaybeDate /\ q[2] \in {Keep} \cup MaybeDate
BY RequestsAssumption

LEMMA UploadTypes ==
    ASSUME Types, NEW a \in Acts \cup {NoAct}, NEW d \in MaybeDate, Upload(a, d)
    PROVE  Types'
<1> DEFINE S == IF a = NoAct THEN {} ELSE Editions(a)
           L == live \cup {next}
           closed == InsertBoundary(S, d)
           x == [act |-> a, from |-> d, to |-> SuccessorDate(S, d), cur |-> IsLatest(S, d)]
           new == [closed EXCEPT ![next] = x]
           accepted == SaveAccepted(live, row, closed) /\ OneCurrent(L, new)
<1>1. /\ next \in Versions /\ next' = next + 1
      /\ cmd' = cmd /\ today' = today /\ overwritten' = overwritten
      /\ Commit(L, accepted, new, NoEnd, {})
  BY DEF Upload
<1>2. S \subseteq Versions /\ row \in [Versions -> RawRow]
  BY TypesFacts
<1>3. x \in RawRow
  BY <1>2, SuccessorDateFacts, LatestType, RawIntro
<1>4. closed \in [Versions -> RawRow]
  BY <1>2, RawInsert
<1> HIDE DEF x, closed, accepted
<1>5. new \in [Versions -> RawRow]
  BY <1>1, <1>3, <1>4
<1> HIDE DEF new
<1>6. /\ row' \in [Versions -> RawRow]
      /\ live' \subseteq live \cup L
      /\ ended' \subseteq live' /\ stray' \subseteq live'
      /\ conflict' \in BOOLEAN
  BY <1>1, <1>5, CommitTypes
<1>7. next \in Nat /\ next >= 1 /\ next <= MaxVersions /\ live \subseteq 1 .. next - 1
  BY <1>1, DateFacts DEF Types, Versions
<1>8. next' \in 1 .. MaxVersions + 1 /\ live' \subseteq 1 .. next' - 1
  BY <1>1, <1>6, <1>7, DateFacts
<1>9. cmd' \in [Commands -> [v : 0 .. next' - 1, seen : RawRow]]
  <2>1. 0 .. next - 1 \subseteq 0 .. next' - 1
    BY <1>1, <1>7
  <2> QED
    BY <1>1, <2>1 DEF Types
<1> QED
  BY <1>1, <1>6, <1>8, <1>9 DEF Types

LEMMA LoadTypes ==
    ASSUME Types, NEW c \in Commands, NEW v \in Versions, Load(c, v)
    PROVE  Types'
<1> DEFINE seen == IF row[v].act = NoAct THEN row[v] ELSE [Blank EXCEPT !.act = row[v].act]
<1>1. /\ v \in live
      /\ cmd' = [cmd EXCEPT ![c] = [v |-> v, seen |-> seen]]
      /\ UNCHANGED <<next, live, row, today, history>>
  BY DEF Load
<1>2. seen \in RawRow
  <2>1. row[v] \in RawRow /\ row[v].act \in Acts \cup {NoAct}
    BY TypesFacts, RawFields
  <2>2. CASE row[v].act = NoAct
    BY <2>1, <2>2
  <2>3. CASE row[v].act # NoAct
    <3>1. seen = [act |-> row[v].act, from |-> None, to |-> None, cur |-> FALSE]
      BY <2>3 DEF Blank
    <3>2. None \in MaybeDate
      BY DateFacts
    <3> HIDE DEF seen
    <3> QED
      BY <2>1, <3>1, <3>2, RawIntro
  <2> QED
    BY <2>2, <2>3
<1> HIDE DEF seen
<1>3. v \in 0 .. next - 1
  BY <1>1 DEF Types
<1>4. cmd' \in [Commands -> [v : 0 .. next - 1, seen : RawRow]]
  BY <1>1, <1>2, <1>3 DEF Types
<1> QED
  BY <1>1, <1>4 DEF Types, history

LEMMA CorrectTypes ==
    ASSUME Types, NEW c \in Commands, NEW q \in Requests, Correct(c, q[1], q[2])
    PROVE  Types'
<1> DEFINE f == q[1]
           e == q[2]
           v == cmd[c].v
           a == cmd[c].seen.act
           S == Editions(a)
           edited == Edited(c, f, e, a)
           own == [w \in S |-> IF w = v /\ e # Keep THEN e ELSE ExplicitEnd(row, S, w)]
           r == [row EXCEPT ![v] = edited]
           new == Rebuild(r, S, own)
           end == [NoEnd EXCEPT ![v] = e]
           accepted == SaveAccepted(live, row, new)
<1>1. /\ a # NoAct /\ Found(c)
      /\ Commit(live, accepted, new, end, {})
      /\ Ends(c) /\ overwritten' = overwritten
  BY DEF Correct, Ends
<1>2. /\ a \in Acts \cup {NoAct} /\ S \subseteq Versions /\ row \in [Versions -> RawRow]
  BY TypesFacts
<1>3. v \in live /\ v \in S
  BY <1>1 DEF Found, Editions
<1>4. edited \in RawRow
  BY <1>2, <1>3, RequestFacts, RawEdited
<1>5. ASSUME NEW w \in S PROVE own[w] \in MaybeDate
  <2>1. ExplicitEnd(row, S, w) \in MaybeDate
    BY <1>2, ExplicitType
  <2>2. e \in {Keep} \cup MaybeDate
    BY RequestFacts
  <2> QED
    BY <2>1, <2>2
<1> HIDE DEF edited, own, S
<1>6. r \in [Versions -> RawRow]
  BY <1>2, <1>4
<1>7. new \in [Versions -> RawRow]
  BY <1>2, <1>5, <1>6, RawRebuild
<1> HIDE DEF new, end, accepted
<1> QED
  BY <1>1, <1>7, CommandTypes DEF Types

LEMMA CorrectPendingTypes ==
    ASSUME Types, NEW c \in Commands, NEW q \in Requests, CorrectPending(c, q[1], q[2])
    PROVE  Types'
<1> DEFINE f == q[1]
           e == q[2]
           v == cmd[c].v
           edited == Edited(c, f, e, NoAct)
           new == [row EXCEPT ![v] = Written(@, cmd[c].seen, edited)]
           end == [NoEnd EXCEPT ![v] = e]
           accepted == OneCurrent(live, new)
<1>1. /\ v \in live
      /\ Commit(live, accepted, new, end, {})
      /\ Ends(c) /\ overwritten' \in BOOLEAN
  BY DEF CorrectPending, Ends
<1>2. row \in [Versions -> RawRow] /\ v \in Versions /\ cmd[c].seen \in RawRow
  BY <1>1, TypesFacts
<1>3. edited \in RawRow
  BY <1>1, RequestFacts, RawEdited
<1> HIDE DEF edited
<1>4. Written(row[v], cmd[c].seen, edited) \in RawRow
  BY <1>2, <1>3, RawWritten
<1>5. new \in [Versions -> RawRow]
  BY <1>2, <1>4
<1> HIDE DEF new, end, accepted
<1> QED
  BY <1>1, <1>5, CommandTypes

LEMMA RelinkTypes ==
    ASSUME Types, NEW c \in Commands, NEW q \in Requests, NEW a \in Acts \cup {NoAct},
           Relink(c, q[1], q[2], a)
    PROVE  Types'
<1> DEFINE f == q[1]
           e == q[2]
           v == cmd[c].v
           source == cmd[c].seen.act
           asked == Edited(c, f, e, a)
           leaving == IF e = Keep /\ source # NoAct
                      THEN [asked EXCEPT !.to = ExplicitEnd(row, Editions(source), v)] ELSE asked
           T == IF a = NoAct THEN {} ELSE Editions(a) \ {v}
           closed == InsertBoundary(T, leaving.from)
           edited == Joined(leaving, T)
           moved == [closed EXCEPT ![v] = Written(@, Read(c), edited)]
           new == Reconnected(moved, source, v)
           end == [NoEnd EXCEPT ![v] = e]
           accepted == /\ SaveAccepted(live, row, closed)
                       /\ OneCurrent(live, moved)
                       /\ SaveAccepted(live, moved, new)
<1>1. /\ Found(c) /\ v \in live
      /\ \E odd : Commit(live, accepted, new, end, odd)
      /\ Ends(c) /\ overwritten' \in BOOLEAN
  BY DEF Relink, Ends
<1>2. /\ row \in [Versions -> RawRow] /\ v \in Versions /\ T \subseteq Versions
      /\ source \in Acts \cup {NoAct} /\ Editions(source) \subseteq Versions
  BY <1>1, TypesFacts
<1>3. asked \in RawRow /\ Read(c) \in RawRow
  BY <1>1, RequestFacts, RawEdited
<1>4. leaving \in RawRow
  <2>1. CASE e = Keep /\ source # NoAct
    <3> DEFINE t == ExplicitEnd(row, Editions(source), v)
    <3>1. v \in Editions(source)
      BY <1>1, <2>1 DEF Found
    <3>2. t \in MaybeDate
      BY <1>2, <3>1, ExplicitType
    <3>3. leaving = [asked EXCEPT !.to = t]
      BY <2>1
    <3> HIDE DEF t, asked, leaving
    <3> QED
      BY <1>3, <3>2, <3>3 DEF RawRow
  <2>2. CASE ~(e = Keep /\ source # NoAct)
    BY <1>3, <2>2
  <2> QED
    BY <2>1, <2>2
<1> HIDE DEF leaving, T
<1>5. leaving.from \in MaybeDate
  BY <1>4, RawFields
<1>6. closed \in [Versions -> RawRow]
  BY <1>2, <1>5, RawInsert
<1>7. edited \in RawRow
  BY <1>2, <1>4, JoinedFacts
<1> HIDE DEF closed, edited
<1>8. Written(closed[v], Read(c), edited) \in RawRow
  BY <1>2, <1>3, <1>6, <1>7, RawWritten
<1>9. moved \in [Versions -> RawRow]
  BY <1>2, <1>6, <1>8
<1> HIDE DEF moved
<1>10. new \in [Versions -> RawRow]
  <2> HIDE DEF v, source
  <2> QED
    BY <1>2, <1>9, RawReconnected
<1>11. PICK odd : Commit(live, accepted, new, end, odd)
  BY <1>1
<1> HIDE DEF new, end, accepted
<1> QED
  BY <1>1, <1>10, <1>11, CommandTypes

LEMMA DeleteTypes ==
    ASSUME Types, NEW c \in Commands, Delete(c)
    PROVE  Types'
<1> DEFINE v == cmd[c].v
           a == cmd[c].seen.act
           L == live \ {v}
           rest == [row EXCEPT ![v] = Blank]
           new == Reconnected(rest, a, v)
           accepted == SaveAccepted(L, rest, new)
<1>1. /\ Commit(L, accepted, new, NoEnd, {})
      /\ Ends(c) /\ overwritten' \in BOOLEAN
  BY DEF Delete, Ends
<1>2. a \in Acts \cup {NoAct} /\ row \in [Versions -> RawRow] /\ Blank \in RawRow
  BY TypesFacts, BlankType DEF Row
<1>3. rest \in [Versions -> RawRow]
  BY <1>2
<1> HIDE DEF rest
<1>4. new \in [Versions -> RawRow]
  <2> HIDE DEF v, a
  <2> QED
    BY <1>2, <1>3, RawReconnected
<1>5. L \subseteq live
  OBVIOUS
<1> HIDE DEF new, accepted, L
<1> QED
  BY <1>1, <1>4, <1>5, CommandTypes

LEMMA TypesNext ==
    ASSUME Types, [Next]_vars
    PROVE  Types'
<1>1. ASSUME NEW a \in Acts \cup {NoAct}, NEW d \in MaybeDate, Upload(a, d) PROVE Types'
  BY <1>1, UploadTypes
<1>2. ASSUME NEW c \in Commands, NEW v \in Versions, Load(c, v) PROVE Types'
  BY <1>2, LoadTypes
<1>3. ASSUME NEW c \in Commands, NEW q \in Requests, Correct(c, q[1], q[2]) PROVE Types'
  BY <1>3, CorrectTypes
<1>4. ASSUME NEW c \in Commands, NEW q \in Requests, CorrectPending(c, q[1], q[2]) PROVE Types'
  BY <1>4, CorrectPendingTypes
<1>5. ASSUME NEW c \in Commands, NEW q \in Requests, NEW a \in Acts \cup {NoAct},
             Relink(c, q[1], q[2], a)
      PROVE  Types'
  BY <1>5, RelinkTypes
<1>6. ASSUME NEW c \in Commands, Delete(c) PROVE Types'
  BY <1>6, DeleteTypes
<1>7. ASSUME NEW c \in Commands, Abort(c) PROVE Types'
  <2>1. Ends(c) /\ UNCHANGED <<live, row, history>>
    BY <1>7 DEF Abort, Ends
  <2> QED
    BY <2>1, EndTypes DEF Types, history
<1>8. CASE Midnight
  <2>1. today' \in Dates
    BY <1>8, BoundAssumption DEF Midnight, Types, Dates
  <2> QED
    BY <1>8, <2>1 DEF Midnight, Types, history
<1>9. CASE UNCHANGED vars
  BY <1>9 DEF vars, history, Types
<1> QED
  BY <1>1, <1>2, <1>3, <1>4, <1>5, <1>6, <1>7, <1>8, <1>9 DEF Next

-----------------------------------------------------------------------------
(* One lemma for each action.                                              *)

LEMMA TableFacts ==
    ASSUME IInv, ~overwritten
    PROVE  /\ live \subseteq Versions
           /\ row \in [Versions -> Row] /\ row \in [Versions -> RawRow]
           /\ next \in Nat /\ next >= 1
           /\ OneCurrent(live, row)
           /\ today \in Dates
           /\ \A b \in Acts \cup {NoAct} : Editions(b) \subseteq live
           /\ \A c \in Commands : cmd[c].seen.act \in Acts \cup {NoAct}
<1>1. Types
  BY TypesOfTypeOK DEF IInv
<1>2. row \in [Versions -> Row] /\ OneCurrent(live, row) /\ today \in Dates
  BY DEF IInv, TypeOK
<1> QED
  BY <1>1, <1>2, TypesFacts

(* The ends that a transaction leaves alone.                               *)
LEMMA KeptEnds ==
    ASSUME IInv, ~overwritten, NEW L, NEW new, NEW end, NEW odd,
           NEW S, S \subseteq L, \A w \in S : end[w] = Keep
    PROVE  /\ OwnKept(new, S, ended, Given(L, new, end))
           /\ \A w \in S : w \in stray => w \in Excepted(end, odd)
<1>1. \A w \in ended : row[w].to # None
  BY DEF IInv, EndFacts
<1> QED
  BY <1>1 DEF OwnKept, Given, Excepted

(* A pending edition with an end has it from a request, or is a stray.     *)
LEMMA PendingEnd ==
    ASSUME IInv, ~overwritten, NEW L, NEW new, NEW end, NEW odd,
           NEW w \in live, w \in L, row[w].act = NoAct, row[w].to # None,
           end[w] = Keep, new[w].to = row[w].to
    PROVE  w \in Given(L, new, end) \/ w \in Excepted(end, odd)
<1>1. ~Derived(live, row, w)
  BY DEF Derived
<1>2. w \in ended \cup stray
  BY <1>1 DEF IInv, EndFacts
<1> QED
  BY <1>2 DEF Given, Excepted

(* The rows that an upload proposes.                                       *)
Uploaded(a, S, d) ==
    [InsertBoundary(S, d) EXCEPT ![next] =
        [act |-> a, from |-> d, to |-> SuccessorDate(S, d), cur |-> IsLatest(S, d)]]

LEMMA UploadRows ==
    ASSUME IInv, ~overwritten, NEW a \in Acts \cup {NoAct}, NEW d \in MaybeDate, next \in Versions,
           NEW S, S = IF a = NoAct THEN {} ELSE Editions(a)
    PROVE  LET new == Uploaded(a, S, d)
           IN  /\ SaveAccepted(live, row, InsertBoundary(S, d))
               /\ OneCurrent(live \cup {next}, new)
               /\ SoundRows(live \cup {next}, new, NoEnd, {})
<1> DEFINE L == live \cup {next}
           x == [act |-> a, from |-> d, to |-> SuccessorDate(S, d), cur |-> IsLatest(S, d)]
           closed == InsertBoundary(S, d)
           new == Uploaded(a, S, d)
           F == Given(L, new, NoEnd)
           W == Excepted(NoEnd, {})
<1>0. new = [closed EXCEPT ![next] = x]
  BY DEF Uploaded
<1>1. /\ live \subseteq Versions /\ row \in [Versions -> Row] /\ OneCurrent(live, row)
      /\ row \in [Versions -> RawRow]
      /\ S \subseteq live /\ S \subseteq Versions /\ L \subseteq Versions
  BY TableFacts
<1>2. next \notin live /\ \A v \in live : v < next
  BY BoundAssumption DEF IInv, TypeOK
<1>3. /\ closed \in [Versions -> Row]
      /\ \A v \in Versions \ S : closed[v] = row[v]
      /\ \A v \in Versions : /\ closed[v].act = row[v].act
                             /\ closed[v].from = row[v].from
                             /\ closed[v].cur => row[v].cur
      /\ Closed(closed, S, d)
      /\ IsLatest(S, d) => \A v \in S : ~closed[v].cur
  <2>1. /\ closed \in [Versions -> Row]
        /\ \A v \in Versions \ S : closed[v] = row[v]
        /\ Calmer(closed)
        /\ Closed(closed, S, d)
        /\ IsLatest(S, d) => \A v \in S : ~closed[v].cur
    BY <1>1, InsertFacts
  <2> HIDE DEF L, x, new, F, W, closed
  <2> QED
    BY <2>1 DEF Calmer
<1>4. SaveAccepted(live, row, closed) /\ OneCurrent(live, closed)
  BY <1>1, InsertCurrent
<1>5. /\ SuccessorDate(S, d) \in MaybeDate
      /\ SuccessorDate(S, d) = None \/ d < SuccessorDate(S, d)
      /\ S = {} \/ d = None => SuccessorDate(S, d) = None
  BY <1>1, SuccessorDateFacts
<1>6. x \in Row
  <2>1. IsLatest(S, d) \in BOOLEAN
    BY LatestType
  <2>2. d = None \/ SuccessorDate(S, d) = None \/ d <= SuccessorDate(S, d)
    <3>1. d \in Nat /\ SuccessorDate(S, d) \in Nat
      BY <1>5, DateFacts
    <3> QED
      BY <3>1, <1>5
  <2> QED
    BY <1>5, <2>1, <2>2, RowIntro
<1>7. /\ x.act = a /\ x.from = d /\ x.to = SuccessorDate(S, d)
      /\ x.cur => IsLatest(S, d)
  OBVIOUS
<1>8. new[next] = x /\ \A v \in Versions \ {next} : new[v] = closed[v]
  BY <1>0, <1>3
<1>9. new \in [Versions -> Row]
  BY <1>0, <1>3, <1>6
<1>10. \A v \in S : row[v].act = a /\ a \in Acts
  BY DEF Editions
<1> HIDE DEF x, closed, new
<1>11. OneCurrent(L, new)
  <2> SUFFICES ASSUME NEW v \in L, NEW w \in L, new[v].cur, new[w].cur,
                      new[v].act = new[w].act, new[v].act # NoAct
               PROVE  v = w
    BY DEF OneCurrent
  <2>1. CASE v # next /\ w # next
    BY <1>1, <1>4, <1>8, <2>1 DEF OneCurrent
  <2>2. ASSUME NEW u \in live, new[u].cur, new[u].act = new[next].act, new[next].act # NoAct,
               new[next].cur
        PROVE  FALSE
    <3>1. u # next /\ u \in Versions /\ new[u] = closed[u]
      BY <1>1, <1>2, <1>8
    <3>2. row[u].act = a /\ a # NoAct
      BY <1>3, <1>7, <1>8, <2>2, <3>1
    <3>3. u \in S
      BY <3>2 DEF Editions
    <3>4. IsLatest(S, d)
      BY <1>7, <1>8, <2>2
    <3> QED
      BY <1>3, <2>2, <3>1, <3>3, <3>4
  <2> QED
    BY <1>1, <2>1, <2>2
<1>12. \A v \in live : v \notin S => new[v] = row[v]
  BY <1>1, <1>2, <1>3, <1>8
<1>13. \A v \in live : row[v].act = NoAct => new[v] = row[v]
  BY <1>10, <1>12, ActsAssumption
<1>14. ASSUME NEW b \in Acts, NEW v \in EditionsOf(L, new, b), Dated(new, v)
       PROVE  AdjacentIn(new, EditionsOf(L, new, b), F, W, v)
  <2>0. \A u \in live : new[u].act = row[u].act
    BY <1>1, <1>2, <1>3, <1>8
  <2>1. CASE a # b
    <3>1. EditionsOf(L, new, b) = Editions(b)
      BY <1>2, <1>7, <1>8, <2>0, <2>1 DEF EditionsOf, Editions
    <3>2. \A w \in Editions(b) : new[w] = row[w] /\ NoEnd[w] = Keep
      BY <1>1, <1>10, <1>12, <2>1 DEF Editions, NoEnd
    <3> QED
      BY <1>1, <1>14, <3>1, <3>2, UnaffectedCommit
  <2>2. CASE a = b
    <3>0. S = Editions(a)
      BY <2>2, ActsAssumption
    <3>1. S = Editions(a) /\ EditionsOf(L, new, b) = S \cup {next}
      <4>1. \A u \in live : u \in S <=> new[u].act = a
        BY <2>0, <3>0 DEF Editions
      <4>2. new[next].act = a
        BY <1>7, <1>8
      <4> QED
        BY <1>1, <2>2, <3>0, <4>1, <4>2 DEF EditionsOf
    <3>2. \A w \in S : Dated(row, w) => AdjacentIn(row, S, ended, stray, w)
      BY <2>2, <3>1, AdjacentEditions
    <3>3. \A w \in S : new[w] = closed[w] /\ w \in Versions /\ w \in live /\ w # next
      BY <1>1, <1>2, <1>8
    <3>4. OwnKept(new, S, ended, F) /\ \A w \in S : w \in stray => w \in W
      <4>1. S \subseteq L /\ \A w \in S : NoEnd[w] = Keep
        BY <1>1 DEF NoEnd
      <4> HIDE DEF L
      <4> QED
        BY <4>1, KeptEnds
    <3>6. new[next].from = d /\ new[next].to = SuccessorDate(S, d)
      BY <1>7, <1>8
    <3>7. Closed(new, S, d)
      BY <1>3, <3>3 DEF Closed
    <3>9. Newest(S, W, next, d) /\ Newest(S, {}, next, d)
      BY <1>2, <3>3 DEF Newest
    <3>10. next \in Versions \ S
      BY <3>3
    <3>14. /\ row \in [Versions -> Row] /\ S \subseteq Versions
           /\ new[next].from = d
      BY <1>1, <3>6
    <3>15. OwnKept(new, S, ended, F)
      BY <3>4
    <3>16. \A w \in S : w \in stray => w \in W
      BY <3>4
    <3> HIDE DEF F, W, L
    <3>11. /\ \A w \in S : Dated(row, w) => AdjacentIn(new, S \cup {next}, F, W, w)
           /\ d # None => SuccessorStart(new, S \cup {next}, next) = SuccessorDate(S, d)
      BY ONLY <3>2, <3>7, <3>9, <3>10, <3>14, <3>15, <3>16, d \in MaybeDate, InsertAdjacent
    <3>12. CASE v = next
      BY <1>14, <3>1, <3>6, <3>11, <3>12 DEF AdjacentIn, Dated
    <3>13. CASE v \in S
      BY <1>14, <3>1, <3>7, <3>11, <3>13 DEF Dated, Closed
    <3> QED
      BY <3>1, <3>12, <3>13
  <2> QED
    BY <2>1, <2>2
<1>15. ASSUME NEW v \in L, new[v].to # None, new[v].act = NoAct PROVE v \in F \/ v \in W
  <2>1. CASE v = next
    BY <1>5, <1>7, <1>8, <1>15, <2>1
  <2>2. CASE v \in live
    <3>1. row[v].act = NoAct
      BY <1>1, <1>2, <1>3, <1>8, <1>15, <2>2
    <3>2. new[v] = row[v] /\ NoEnd[v] = Keep
      BY <1>1, <1>13, <2>2, <3>1 DEF NoEnd
    <3> QED
      BY <1>15, <2>2, <3>1, <3>2, PendingEnd
  <2> QED
    BY <2>1, <2>2
<1> QED
  <2>1. \A v \in Versions : ValidDates(new[v])
    BY <1>9 DEF Row
  <2>2. SoundRows(L, new, NoEnd, {})
    BY <1>11, <1>14, <1>15, <2>1 DEF SoundRows
  <2> QED
    BY <1>4, <1>11, <2>2 DEF new, closed

LEMMA UploadStep ==
    ASSUME IInv, ~overwritten, NEW a \in Acts \cup {NoAct}, NEW d \in MaybeDate, Upload(a, d),
           row' \in [Versions -> RawRow]
    PROVE  Table'
<1> DEFINE S == IF a = NoAct THEN {} ELSE Editions(a)
           L == live \cup {next}
           closed == InsertBoundary(S, d)
           new == Uploaded(a, S, d)
           accepted == SaveAccepted(live, row, closed) /\ OneCurrent(L, new)
<1>1. next \in Versions /\ Commit(L, accepted, new, NoEnd, {})
  BY DEF Upload, Uploaded
<1>2. accepted /\ SoundRows(L, new, NoEnd, {})
  <2>1. S = IF a = NoAct THEN {} ELSE Editions(a)
    OBVIOUS
  <2> HIDE DEF S
  <2> QED
    BY <1>1, <2>1, UploadRows
<1>3. L \subseteq Versions
  BY <1>1, TableFacts
<1> HIDE DEF L, new, accepted
<1> QED
  BY <1>1, <1>2, <1>3, CommitStep

LEMMA SameTable ==
    ASSUME IInv, ~overwritten, UNCHANGED <<live, row, ended, stray, conflict>>
    PROVE  Table'
<1>1. row \in [Versions -> Row] /\ ~conflict /\ Adjacent /\ OneCurrent(live, row) /\ EndFacts
  BY DEF IInv, TypeOK, NoConflict
<1>2. Adjacent'
  BY <1>1 DEF Adjacent, Editions
<1>3. OneCurrent(live, row)'
  BY <1>1 DEF OneCurrent
<1>4. EndFacts'
  BY <1>1 DEF EndFacts, Derived
<1> QED
  BY <1>1, <1>2, <1>3, <1>4 DEF Table

(* What a command has read of its edition is what the edition still is,    *)
(* unless the read is outdated.                                            *)
LEMMA Held ==
    ASSUME NEW c \in Commands, ~Stale(c), Found(c), cmd[c].v \in live
    PROVE  row[cmd[c].v].act = cmd[c].seen.act /\ Read(c) = row[cmd[c].v]
<1>1. CASE cmd[c].seen.act = NoAct
  BY <1>1 DEF Stale, Read
<1>2. CASE cmd[c].seen.act # NoAct
  BY <1>2 DEF Found, Read, Editions
<1> QED
  BY <1>1, <1>2

(* The editions S of an act are rebuilt, the other rows are those of r.    *)
Remade(new, r, S, F, Y) ==
    /\ \A w \in Versions \ S : new[w] = r[w]
    /\ \A w \in S : new[w].act = r[w].act /\ new[w].from = r[w].from
    /\ LoneCurrent(new, S)
    /\ \A w \in S : Dated(new, w) => AdjacentIn(new, S, F, Y, w)

Untouched(r, S) == \A w \in S : r[w] = row[w]

(* The rows after edition v has left act a, from rows r in which the other *)
(* editions of a are as before.                                            *)
LEMMA ReconnectFacts ==
    ASSUME IInv, ~overwritten, NEW a \in Acts, NEW v \in Editions(a), NEW r \in [Versions -> Row],
           NEW S, S = Editions(a) \ {v}, Untouched(r, S),
           NEW F, OwnKept(Reconnected(r, a, v), S, ended, F),
           NEW Y, \A w \in S : w \in stray => w \in Y
    PROVE  Remade(Reconnected(r, a, v), r, S, F, Y)
<1> DEFINE end == [w \in Editions(a) |-> ExplicitEnd(row, Editions(a), w)]
           new == Rebuild(r, S, end)
<1>1. Reconnected(r, a, v) = new
  BY ActsAssumption DEF Reconnected
<1>2. S \subseteq Versions
  BY AdjacentEditions
<1>3. r \in [Versions -> RawRow]
  BY RowFields DEF Row, RawRow
<1>4. \A w \in S : /\ end[w] \in MaybeDate
                   /\ end[w] # None => end[w] = row[w].to /\ w \in ended \cup stray
  BY ExplicitEndFacts
<1>5. \A w \in S : end[w] # None /\ new[w].to = end[w] => w \in F \cup Y
  BY <1>1, <1>4 DEF OwnKept
<1> HIDE DEF end
<1>6. /\ \A w \in Versions \ S : new[w] = r[w]
      /\ \A w \in S : new[w].act = r[w].act /\ new[w].from = r[w].from
      /\ LoneCurrent(new, S)
  <2>1. Rebuilt(new, r, S, end)
    BY <1>2, <1>3, RebuildFacts
  <2> QED
    BY <2>1 DEF Rebuilt
<1>7. ASSUME NEW w \in S, Dated(new, w) PROVE AdjacentIn(new, S, F, Y, w)
  <2>1. Dated(r, w)
    BY <1>6, <1>7 DEF Dated
  <2> QED
    BY <1>2, <1>3, <1>4, <1>5, <2>1, RebuildAdjacent
<1> HIDE DEF new
<1> QED
  BY <1>1, <1>6, <1>7 DEF Remade

(* An edition x of act a whose end was to, when the request gives end e.   *)
Asked(x, a, to, e) == x \in RawRow /\ x.act = a /\ x.to = IF e = Keep THEN to ELSE e

LEMMA EditedFacts ==
    ASSUME IInv, ~overwritten, NEW c \in Commands, ~Stale(c), Found(c), cmd[c].v \in live,
           NEW f \in {Keep} \cup MaybeDate, NEW e \in {Keep} \cup MaybeDate,
           NEW a \in Acts \cup {NoAct}
    PROVE  Asked(Edited(c, f, e, a), a, row[cmd[c].v].to, e)
<1> DEFINE y == row[cmd[c].v]
<1>1. Read(c) = y
  BY Held
<1>2. /\ y.act \in Acts \cup {NoAct} /\ y.from \in MaybeDate /\ y.to \in MaybeDate
      /\ y.cur \in BOOLEAN
      /\ y = [act |-> y.act, from |-> y.from, to |-> y.to, cur |-> y.cur]
  BY RowFields, TableFacts
<1> HIDE DEF y
<1>3. Edited(c, f, e, a) = [act |-> a, from |-> IF f = Keep THEN y.from ELSE f,
                            to |-> IF e = Keep THEN y.to ELSE e, cur |-> y.cur]
  <2>1. Edited(c, f, e, a) = [y EXCEPT !.act = a, !.from = IF f = Keep THEN y.from ELSE f,
                                       !.to = IF e = Keep THEN y.to ELSE e]
    BY <1>1 DEF Edited
  <2> QED
    BY <2>1, <1>2
<1>5. (IF f = Keep THEN y.from ELSE f) \in MaybeDate /\ (IF e = Keep THEN y.to ELSE e) \in MaybeDate
  BY <1>2
<1> QED
  BY <1>2, <1>3, <1>5 DEF RawRow, y, Asked

RowsOf(L, r, S, a) == (\A w \in L : r[w].act = a => w \in S) /\ \A w \in S : r[w].act = a

(* One current edition in the rebuilt act and in the others.               *)
LEMMA RemadeCurrent ==
    ASSUME NEW L, L \subseteq Versions, NEW r, NEW new, NEW S, NEW F, NEW Y, NEW a,
           OneCurrent(L, r), Remade(new, r, S, F, Y), RowsOf(L, r, S, a)
    PROVE  OneCurrent(L, new)
<1>0. (\A w \in L : r[w].act = a => w \in S) /\ \A w \in S : r[w].act = a
  BY DEF RowsOf
<1> SUFFICES ASSUME NEW v \in L, NEW w \in L, new[v].cur, new[w].cur,
                    new[v].act = new[w].act, new[v].act # NoAct
             PROVE  v = w
  BY DEF OneCurrent
<1>1. /\ \A u \in L \ S : new[u] = r[u]
      /\ \A u \in S : new[u].act = r[u].act
      /\ LoneCurrent(new, S)
  BY DEF Remade
<1>2. \A u \in L : new[u].act = r[u].act
  BY <1>1
<1>3. CASE v \in S
  <2>1. w \in S
    BY <1>0, <1>2, <1>3
  <2> QED
    BY <1>1, <1>3, <2>1 DEF LoneCurrent
<1>4. CASE v \notin S
  <2>1. w \notin S
    BY <1>0, <1>2, <1>4
  <2> QED
    BY <1>1, <1>4, <2>1 DEF OneCurrent
<1> QED
  BY <1>3, <1>4

LEMMA CorrectStep ==
    ASSUME IInv, ~overwritten, NEW c \in Commands, NEW q \in Requests, Correct(c, q[1], q[2]),
           row' \in [Versions -> RawRow]
    PROVE  Table'
<1> DEFINE f == q[1]
           e == q[2]
           v == cmd[c].v
           a == cmd[c].seen.act
           S == Editions(a)
           edited == Edited(c, f, e, a)
           own == [w \in S |-> IF w = v /\ e # Keep THEN e ELSE ExplicitEnd(row, S, w)]
           r == [row EXCEPT ![v] = edited]
           new == Rebuild(r, S, own)
           end == [NoEnd EXCEPT ![v] = e]
           accepted == SaveAccepted(live, row, new)
           F == Given(live, new, end)
           W == Excepted(end, {})
<1>1. /\ a # NoAct /\ Found(c) /\ ~Stale(c)
      /\ Validated(new, S)
      /\ Commit(live, accepted, new, end, {})
  BY DEF Correct, Stale
<1>2. a \in Acts /\ v \in S /\ v \in live /\ v \in Versions /\ S \subseteq live /\ S \subseteq Versions
  BY <1>1, TableFacts DEF Found, Editions
<1>3. f \in {Keep} \cup MaybeDate /\ e \in {Keep} \cup MaybeDate
  BY RequestFacts
<1>4. edited \in RawRow /\ edited.act = a /\ edited.to = IF e = Keep THEN row[v].to ELSE e
  <2>1. Asked(edited, a, row[v].to, e)
    BY <1>1, <1>2, <1>3, EditedFacts
  <2> QED
    BY <2>1 DEF Asked
<1> HIDE DEF f, e, edited
<1>5. row \in [Versions -> Row] /\ OneCurrent(live, row) /\ live \subseteq Versions
  BY TableFacts
<1>6. /\ r \in [Versions -> RawRow] /\ r[v] = edited
      /\ \A w \in Versions \ {v} : r[w] = row[w]
  <2>1. \A w \in Versions : row[w] \in RawRow
    BY <1>5, RowFields DEF Row, RawRow
  <2> QED
    BY <1>2, <1>4, <1>5, <2>1
<1>7. \A w \in S : own[w] = IF w = v /\ e # Keep THEN e ELSE ExplicitEnd(row, S, w)
  OBVIOUS
<1>8. \A w \in Versions : end[w] = IF w = v THEN e ELSE Keep
  BY <1>2 DEF NoEnd
<1> HIDE DEF r, own, end
<1>9. Rebuilt(new, r, S, own)
  BY <1>2, <1>6, RebuildFacts
<1>10. \A w \in S : own[w] \in MaybeDate
  BY <1>2, <1>3, <1>7, ExplicitEndFacts
<1>11. ASSUME NEW w \in S, own[w] # None, new[w].to = own[w] PROVE w \in F \cup W
  <2>1. CASE w = v /\ e # Keep
    BY <1>2, <1>7, <1>8, <1>11, <2>1 DEF Given
  <2>2. CASE ~(w = v /\ e # Keep)
    <3>1. own[w] = row[w].to /\ w \in ended \cup stray
      BY <1>2, <1>7, <1>11, <2>2, ExplicitEndFacts
    <3>2. end[w] = Keep
      BY <1>2, <1>8, <2>2
    <3> QED
      BY <1>2, <1>11, <3>1, <3>2 DEF Given, Excepted
  <2> QED
    BY <2>1, <2>2
<1>12. ASSUME NEW w \in S, Dated(new, w) PROVE AdjacentIn(new, S, F, W, w)
  <2>1. Dated(r, w)
    BY <1>9, <1>12 DEF Dated, Rebuilt
  <2> HIDE DEF F, W, S, a
  <2> QED
    BY <1>2, <1>6, <1>10, <1>11, <2>1, RebuildAdjacent
<1> HIDE DEF new, F, W
<1>13. \A w \in Versions : new[w].act = row[w].act
  <2>1. row[v].act = a
    BY <1>2 DEF Editions
  <2> QED
    BY <1>4, <1>6, <1>9, <2>1 DEF Rebuilt
<1>14. \A w \in live : w \notin S => new[w] = row[w]
  BY <1>2, <1>5, <1>6, <1>9 DEF Rebuilt
<1>16. OneCurrent(live, new)
  <2> SUFFICES ASSUME NEW u \in live, NEW w \in live, new[u].cur, new[w].cur,
                      new[u].act = new[w].act, new[u].act # NoAct
               PROVE  u = w
    BY DEF OneCurrent
  <2>1. row[u].act = row[w].act /\ row[u].act # NoAct
    BY <1>5, <1>13
  <2>2. CASE row[u].act = a
    <3>1. u \in S /\ w \in S
      BY <2>1, <2>2 DEF Editions
    <3> QED
      BY <1>9, <3>1 DEF Rebuilt, LoneCurrent
  <2>3. CASE row[u].act # a
    <3>1. u \notin S /\ w \notin S
      BY <2>1, <2>3 DEF Editions
    <3> QED
      BY <1>5, <1>14, <2>1, <3>1 DEF OneCurrent
  <2> QED
    BY <2>2, <2>3
<1>17. accepted
  BY <1>5, <1>13, <1>16, SaveFine
<1>18. ASSUME NEW b \in Acts, NEW u \in EditionsOf(live, new, b), Dated(new, u)
       PROVE  AdjacentIn(new, EditionsOf(live, new, b), F, W, u)
  <2>1. EditionsOf(live, new, b) = Editions(b)
    BY <1>5, <1>13 DEF EditionsOf, Editions
  <2>2. CASE a = b
    BY <1>12, <1>18, <2>1, <2>2
  <2>3. CASE a # b
    <3>1. \A w \in Editions(b) : new[w] = row[w] /\ end[w] = Keep
      BY <1>2, <1>5, <1>8, <1>14, <2>3 DEF Editions
    <3> HIDE DEF S, a
    <3> QED
      BY <1>5, <1>18, <2>1, <3>1, UnaffectedCommit DEF F, W
  <2> QED
    BY <2>2, <2>3
<1>19. ASSUME NEW w \in live, row[w].act = NoAct PROVE new[w] = row[w]
  <2>1. w \notin S
    BY <1>1, <1>19 DEF Editions
  <2> QED
    BY <1>14, <2>1
<1>20. ASSUME NEW w \in live, new[w].to # None, new[w].act = NoAct PROVE w \in F \/ w \in W
  <2>1. row[w].act = NoAct /\ new[w] = row[w]
    BY <1>5, <1>13, <1>19, <1>20
  <2>2. end[w] = Keep
    BY <1>1, <1>2, <1>5, <1>8, <2>1 DEF Editions
  <2> QED
    BY <1>20, <2>1, <2>2, PendingEnd DEF F, W
<1>21. \A w \in Versions : ValidDates(new[w])
  <2>1. ASSUME NEW w \in Versions \ S PROVE new[w] = row[w]
    BY <1>2, <1>6, <1>9 DEF Rebuilt
  <2> HIDE DEF S
  <2> QED
    BY <1>1, <1>5, <2>1 DEF Validated, Row
<1>22. SoundRows(live, new, end, {})
  BY <1>16, <1>18, <1>20, <1>21 DEF SoundRows, F, W
<1> HIDE DEF accepted
<1> QED
  BY <1>1, <1>5, <1>17, <1>22, CommitStep

LEMMA CorrectPendingStep ==
    ASSUME IInv, ~overwritten, NEW c \in Commands, NEW q \in Requests,
           CorrectPending(c, q[1], q[2]),
           ~Stale(c), row' \in [Versions -> RawRow]
    PROVE  Table'
<1> DEFINE f == q[1]
           e == q[2]
           v == cmd[c].v
           edited == Edited(c, f, e, NoAct)
           new == [row EXCEPT ![v] = Written(@, cmd[c].seen, edited)]
           end == [NoEnd EXCEPT ![v] = e]
           accepted == OneCurrent(live, new)
           F == Given(live, new, end)
           W == Excepted(end, {})
<1>1. /\ cmd[c].seen.act = NoAct /\ v \in live
      /\ ValidDates(edited)
      /\ Commit(live, accepted, new, end, {})
  BY DEF CorrectPending
<1>2. Found(c)
  BY <1>1 DEF Found
<1>3. /\ row \in [Versions -> Row] /\ OneCurrent(live, row) /\ live \subseteq Versions
      /\ v \in Versions /\ row[v] \in Row
  BY <1>1, TableFacts
<1>4. row[v].act = NoAct /\ row[v] = cmd[c].seen
  BY <1>1, <1>2, Held DEF Read
<1>5. edited \in RawRow /\ edited.act = NoAct /\ edited.to = IF e = Keep THEN row[v].to ELSE e
  <2>1. Asked(edited, NoAct, row[v].to, e)
    BY <1>1, <1>2, RequestFacts, EditedFacts
  <2> QED
    BY <2>1 DEF Asked
<1> HIDE DEF f, e, edited
<1>6. edited \in Row
  BY <1>1, <1>5 DEF RawRow, Row
<1>7. new = [row EXCEPT ![v] = edited]
  <2>1. Written(row[v], cmd[c].seen, edited) = edited
    BY <1>3, <1>4, <1>5, WrittenAll
  <2> QED
    BY <2>1
<1>8. /\ new \in [Versions -> Row] /\ new[v] = edited
      /\ \A w \in Versions \ {v} : new[w] = row[w]
  BY <1>3, <1>6, <1>7
<1>9. \A w \in Versions : end[w] = IF w = v THEN e ELSE Keep
  BY <1>3 DEF NoEnd
<1> HIDE DEF new, end
<1>10. OneCurrent(live, new)
  BY <1>3, <1>5, <1>8 DEF OneCurrent
<1>11. \A w \in Versions : new[w].act = row[w].act
  BY <1>4, <1>5, <1>8
<1>12. ASSUME NEW b \in Acts, NEW u \in EditionsOf(live, new, b), Dated(new, u)
       PROVE  AdjacentIn(new, EditionsOf(live, new, b), F, W, u)
  <2>1. EditionsOf(live, new, b) = Editions(b)
    BY <1>3, <1>11 DEF EditionsOf, Editions
  <2>2. \A w \in Editions(b) : new[w] = row[w] /\ end[w] = Keep
    BY <1>3, <1>4, <1>8, <1>9, ActsAssumption DEF Editions
  <2> QED
    BY <1>3, <1>12, <2>1, <2>2, UnaffectedCommit
<1>13. ASSUME NEW w \in live, new[w].to # None, new[w].act = NoAct PROVE w \in F \/ w \in W
  <2>1. w \in Versions
    BY <1>3
  <2>2. CASE w = v /\ e # Keep
    BY <1>5, <1>8, <1>9, <1>13, <2>1, <2>2 DEF Given
  <2>3. CASE ~(w = v /\ e # Keep)
    <3>1. new[w].to = row[w].to /\ end[w] = Keep
      BY <1>5, <1>8, <1>9, <2>1, <2>3
    <3>2. row[w].act = NoAct
      BY <1>11, <1>13, <2>1
    <3> QED
      BY <1>13, <3>1, <3>2, PendingEnd
  <2> QED
    BY <2>2, <2>3
<1>14. \A w \in Versions : ValidDates(new[w])
  BY <1>8 DEF Row
<1>15. SoundRows(live, new, end, {})
  BY <1>10, <1>12, <1>13, <1>14 DEF SoundRows
<1> HIDE DEF accepted
<1> QED
  BY <1>1, <1>3, <1>10, <1>15, CommitStep DEF accepted

LEMMA DeleteStep ==
    ASSUME IInv, ~overwritten, NEW c \in Commands, Delete(c), ~Stale(c),
           row' \in [Versions -> RawRow]
    PROVE  Table'
<1> DEFINE v == cmd[c].v
           a == cmd[c].seen.act
           L == live \ {v}
           rest == [row EXCEPT ![v] = Blank]
           S == IF a = NoAct THEN {} ELSE Editions(a) \ {v}
           new == Reconnected(rest, a, v)
           accepted == SaveAccepted(L, rest, new)
           F == Given(L, new, NoEnd)
           W == Excepted(NoEnd, {})
<1>1. /\ Found(c)
      /\ a # NoAct => Validated(new, Editions(a) \ {v})
      /\ Commit(L, accepted, new, NoEnd, {})
  BY DEF Delete
<1>2. /\ row \in [Versions -> Row] /\ OneCurrent(live, row) /\ live \subseteq Versions
      /\ L \subseteq live /\ L \subseteq Versions /\ a \in Acts \cup {NoAct}
  BY TableFacts
<1>3. rest \in [Versions -> Row] /\ \A w \in Versions \ {v} : rest[w] = row[w]
  BY <1>2, BlankType
<1>4. OneCurrent(L, rest)
  BY <1>2, <1>3 DEF OneCurrent
<1>5. /\ \A w \in S : w \in L /\ rest[w] = row[w] /\ row[w].act = a /\ a # NoAct
      /\ \A w \in L : row[w].act = a /\ a # NoAct => w \in S
  BY <1>2, <1>3, TableFacts DEF Editions
<1> HIDE DEF rest
<1>6. Remade(new, rest, S, F, W)
  <2>1. CASE a = NoAct
    <3>1. new = rest /\ S = {}
      BY <2>1 DEF Reconnected
    <3> QED
      BY <3>1 DEF Remade, LoneCurrent
  <2>2. CASE a # NoAct
    <3>1. a \in Acts /\ v \in Editions(a) /\ S = Editions(a) \ {v}
      BY <1>1, <1>2, <2>2 DEF Found
    <3>2. OwnKept(new, S, ended, F) /\ \A w \in S : w \in stray => w \in W
      <4>1. S \subseteq L /\ \A w \in S : NoEnd[w] = Keep
        BY <1>2, <1>5 DEF NoEnd
      <4> HIDE DEF S, L, new
      <4> QED
        BY <4>1, KeptEnds
    <3>3. Untouched(rest, S)
      BY <1>5 DEF Untouched
    <3> HIDE DEF v, a, S, F, W
    <3> QED
      BY <1>3, <3>1, <3>2, <3>3, ReconnectFacts
  <2> QED
    BY <2>1, <2>2
<1>6a. \A w \in S : ValidDates(new[w])
  BY <1>1 DEF Validated
<1> HIDE DEF new, S
<1>7. /\ \A w \in Versions \ S : new[w] = rest[w]
      /\ \A w \in Versions : new[w].act = rest[w].act
      /\ \A w \in S : Dated(new, w) => AdjacentIn(new, S, F, W, w)
  BY <1>6 DEF Remade
<1>8. OneCurrent(L, new)
  <2>1. CASE a = NoAct
    <3>1. \A w \in L : new[w] = rest[w]
      BY <1>2, <1>5, <1>7, <2>1
    <3> QED
      BY <1>4, <3>1 DEF OneCurrent
  <2>2. CASE a # NoAct
    <3>1. RowsOf(L, rest, S, a)
      BY <1>2, <1>3, <1>5, <2>2 DEF RowsOf
    <3> HIDE DEF L, a, F, W
    <3> QED
      BY <1>2, <1>4, <1>6, <3>1, RemadeCurrent
  <2> QED
    BY <2>1, <2>2
<1>9. \A w \in L : new[w].act = rest[w].act /\ rest[w] = row[w]
  BY <1>2, <1>3, <1>7
<1>10. SaveAccepted(L, rest, new)
  BY <1>2, <1>4, <1>8, <1>9, SaveFine
<1>11. \A w \in L : w \notin S => new[w] = row[w]
  BY <1>2, <1>3, <1>7
<1>12. ASSUME NEW b \in Acts, NEW u \in EditionsOf(L, new, b), Dated(new, u)
       PROVE  AdjacentIn(new, EditionsOf(L, new, b), F, W, u)
  <2>1. CASE a = b
    <3>1. EditionsOf(L, new, b) = S
      BY <1>5, <1>9, <2>1, ActsAssumption DEF EditionsOf
    <3> QED
      BY <1>7, <1>12, <3>1
  <2>2. CASE a # b
    <3>1. EditionsOf(L, new, b) = Editions(b)
      <4>1. \A w \in Editions(b) : w \in L
        <5> SUFFICES ASSUME NEW w \in Editions(b), w = v PROVE FALSE
          BY DEF Editions
        <5>1. row[v].act = a
          BY <1>1, Held DEF Editions
        <5> QED
          BY <2>2, <5>1 DEF Editions
      <4> QED
        BY <1>2, <1>9, <4>1 DEF EditionsOf, Editions
    <3>2. \A w \in Editions(b) : w \in L /\ w \notin S
      BY <1>5, <2>2, <3>1 DEF EditionsOf, Editions
    <3>3. \A w \in Editions(b) : new[w] = row[w] /\ NoEnd[w] = Keep
      BY <1>2, <1>11, <3>2 DEF NoEnd
    <3> HIDE DEF a, L
    <3> QED
      BY <1>2, <1>12, <3>1, <3>3, UnaffectedCommit DEF F, W
  <2> QED
    BY <2>1, <2>2
<1>13. ASSUME NEW w \in L, row[w].act = NoAct PROVE new[w] = row[w]
  BY <1>5, <1>11, <1>13
<1>14. ASSUME NEW w \in L, new[w].to # None, new[w].act = NoAct PROVE w \in F \/ w \in W
  <2>1. row[w].act = NoAct /\ new[w] = row[w]
    BY <1>9, <1>13, <1>14
  <2>2. NoEnd[w] = Keep
    BY <1>2 DEF NoEnd
  <2> QED
    BY <1>2, <1>14, <2>1, <2>2, PendingEnd
<1>15. \A w \in Versions : ValidDates(new[w])
  BY <1>3, <1>7, <1>6a DEF Row
<1>16. SoundRows(L, new, NoEnd, {})
  BY <1>8, <1>12, <1>14, <1>15 DEF SoundRows
<1> HIDE DEF accepted, L
<1> QED
  BY <1>1, <1>2, <1>10, <1>16, CommitStep DEF accepted

LEMMA RelinkStep ==
    ASSUME IInv, ~overwritten, NEW c \in Commands, NEW q \in Requests,
           NEW a \in Acts \cup {NoAct}, Relink(c, q[1], q[2], a),
           ~Stale(c), row' \in [Versions -> RawRow]
    PROVE  Table'
<1> DEFINE f == q[1]
           e == q[2]
           v == cmd[c].v
           source == cmd[c].seen.act
           asked == Edited(c, f, e, a)
           leaving == IF e = Keep /\ source # NoAct
                      THEN [asked EXCEPT !.to = ExplicitEnd(row, Editions(source), v)] ELSE asked
           T == IF a = NoAct THEN {} ELSE Editions(a) \ {v}
           d == leaving.from
           closed == InsertBoundary(T, d)
           edited == Joined(leaving, T)
           moved == [closed EXCEPT ![v] = Written(@, Read(c), edited)]
           new == Reconnected(moved, source, v)
           boundary == SuccessorDate(T, d)
           end == [NoEnd EXCEPT ![v] = e]
           S == IF source = NoAct THEN {} ELSE Editions(source) \ {v}
           equal == {w \in T : v < w /\ row[w].from = d /\ d # None}
           late == boundary # None /\ boundary < leaving.to
           odd == IF equal # {} \/ late THEN equal \cup {v} ELSE {}
           F == Given(live, new, end)
           W == Excepted(end, odd)
           accepted == /\ SaveAccepted(live, row, closed)
                       /\ OneCurrent(live, moved)
                       /\ SaveAccepted(live, moved, new)
<1>1. /\ a # source /\ Found(c) /\ v \in live
      /\ ValidDates(edited)
      /\ source # NoAct => Validated(new, Editions(source) \ {v})
      /\ Commit(live, accepted, new, end, odd)
  BY DEF Relink
<1>2. /\ row \in [Versions -> Row] /\ OneCurrent(live, row) /\ live \subseteq Versions
      /\ row \in [Versions -> RawRow] /\ v \in Versions /\ row[v] \in Row /\ source \in Acts \cup {NoAct}
  BY <1>1, TableFacts
<1>3. row[v].act = source /\ Read(c) = row[v]
  BY <1>1, Held
<1>4. /\ T \subseteq live /\ T \subseteq Versions /\ v \notin T
      /\ \A w \in T : row[w].act = a /\ a # NoAct
      /\ \A w \in live : row[w].act = a /\ a # NoAct => w \in T
  BY <1>1, <1>2, <1>3, TableFacts DEF Editions
<1>5. /\ S \subseteq live /\ S \subseteq Versions /\ v \notin S
      /\ \A w \in S : row[w].act = source /\ source # NoAct /\ w \notin T
      /\ \A w \in live : row[w].act = source /\ source # NoAct /\ w # v => w \in S
  <2>1. CASE source = NoAct
    <3>1. S = {}
      BY <2>1
    <3> QED
      BY <2>1, <3>1
  <2>2. CASE source # NoAct
    <3>1. S = {w \in live : row[w].act = source /\ w # v}
      BY <2>2 DEF Editions
    <3>2. \A w \in S : w \notin T
      BY <1>1, <1>4, <3>1
    <3> HIDE DEF S, T
    <3> QED
      BY <1>2, <2>2, <3>1, <3>2
  <2> QED
    BY <2>1, <2>2
<1>6. asked \in RawRow /\ asked.act = a /\ asked.to = IF e = Keep THEN row[v].to ELSE e
  <2>1. Asked(asked, a, row[v].to, e)
    BY <1>1, RequestFacts, EditedFacts
  <2> QED
    BY <2>1 DEF Asked
<1>6a. source # NoAct => S = Editions(source) \ {v}
  OBVIOUS
<1> HIDE DEF asked, T, S
<1>7. /\ leaving \in RawRow /\ leaving.act = a
      /\ leaving.to # None => \/ e # Keep /\ leaving.to = e
                              \/ e = Keep /\ v \in ended \cup stray /\ leaving.to = row[v].to
  <2>1. CASE e = Keep /\ source # NoAct
    <3> DEFINE t == ExplicitEnd(row, Editions(source), v)
    <3>1. source \in Acts /\ v \in Editions(source)
      BY <1>1, <1>2, <1>3, <2>1 DEF Editions
    <3>2. t \in MaybeDate /\ (t # None => t = row[v].to /\ v \in ended \cup stray)
      BY <3>1, ExplicitEndFacts
    <3>3. leaving = [asked EXCEPT !.to = t]
      BY <2>1
    <3> HIDE DEF t, leaving, f, e, v, source
    <3>4. leaving \in RawRow /\ leaving.act = a /\ leaving.to = t
      BY <1>6, <3>2, <3>3 DEF RawRow
    <3> QED
      BY <2>1, <3>2, <3>4
  <2>2. CASE e = Keep /\ source = NoAct
    <3>1. row[v].to # None => v \in ended \cup stray
      BY <1>1, <1>3, <2>2 DEF IInv, EndFacts, Derived
    <3> QED
      BY <1>6, <2>2, <3>1
  <2>3. CASE e # Keep
    BY <1>6, <2>3
  <2> QED
    BY <2>1, <2>2, <2>3
<1> HIDE DEF leaving
<1>8. d \in MaybeDate /\ leaving.to \in MaybeDate
  BY <1>7 DEF RawRow
<1>9. /\ boundary \in MaybeDate
      /\ T = {} \/ d = None => boundary = None
  BY <1>2, <1>4, <1>8, SuccessorDateFacts
<1>10. /\ edited \in RawRow /\ edited.act = a /\ edited.from = d
       /\ edited.to = IF leaving.to = None THEN boundary ELSE leaving.to
       /\ edited.cur /\ a # NoAct => IsLatest(T, d)
  <2> DEFINE flag == IF leaving.act = NoAct
                     THEN leaving.from <= today /\ (edited.to = None \/ today < edited.to)
                     ELSE IsLatest(T, leaving.from)
             t == IF leaving.to = None THEN boundary ELSE leaving.to
  <2>1. t \in MaybeDate
    BY <1>8, <1>9
  <2>2. \E b \in BOOLEAN :
           /\ leaving.act # NoAct => b = IsLatest(T, d)
           /\ edited = [leaving EXCEPT !.to = t, !.cur = b]
    <3> DEFINE b == IF leaving.act = NoAct
                    THEN leaving.from <= today /\ (leaving.to = None \/ today < leaving.to)
                    ELSE IsLatest(T, leaving.from)
    <3>1. b \in BOOLEAN
      BY LatestType
    <3>2. edited = [leaving EXCEPT !.to = t, !.cur = b]
      BY DEF Joined
    <3> QED
      BY <3>1, <3>2
  <2> HIDE DEF t, boundary, edited
  <2>3. PICK b \in BOOLEAN : /\ leaving.act # NoAct => b = IsLatest(T, d)
                             /\ edited = [leaving EXCEPT !.to = t, !.cur = b]
    BY <2>2
  <2>4. /\ edited.act = leaving.act /\ edited.from = leaving.from
        /\ edited.to = t /\ edited.cur = b /\ edited \in RawRow
    BY <1>7, <2>1, <2>3 DEF RawRow
  <2>5. edited.cur /\ a # NoAct => IsLatest(T, d)
    BY <1>7, <2>3, <2>4
  <2> QED
    BY <1>7, <2>4, <2>5 DEF t
<1> HIDE DEF edited
<1>11. edited \in Row
  BY <1>1, <1>10 DEF RawRow, Row
<1>12. /\ closed \in [Versions -> Row]
       /\ \A w \in Versions \ T : closed[w] = row[w]
       /\ Calmer(closed)
       /\ Closed(closed, T, d)
       /\ IsLatest(T, d) => \A w \in T : ~closed[w].cur
  BY <1>2, <1>4, <1>8, InsertFacts
<1>13. OneCurrent(live, closed) /\ SaveAccepted(live, row, closed)
  BY <1>2, <1>4, <1>8, InsertCurrent
<1> HIDE DEF closed
<1>14. moved = [closed EXCEPT ![v] = edited]
  <2>1. closed[v] = row[v]
    BY <1>2, <1>4, <1>12
  <2>2. Written(closed[v], Read(c), edited) = edited
    BY <1>2, <1>3, <1>10, <2>1, WrittenAll
  <2> QED
    BY <2>2
<1>15. /\ moved \in [Versions -> Row] /\ moved[v] = edited
       /\ \A w \in Versions \ {v} : moved[w] = closed[w]
  BY <1>2, <1>11, <1>12, <1>14
<1> HIDE DEF moved
<1>16. /\ \A w \in Versions \ {v} : moved[w].act = row[w].act
       /\ \A w \in Versions \ {v} : w \notin T => moved[w] = row[w]
  BY <1>12, <1>15 DEF Calmer
<1>17. OneCurrent(live, moved)
  <2> SUFFICES ASSUME NEW u \in live, NEW w \in live, moved[u].cur, moved[w].cur,
                      moved[u].act = moved[w].act, moved[u].act # NoAct
               PROVE  u = w
    BY DEF OneCurrent
  <2>1. CASE u # v /\ w # v
    BY <1>2, <1>13, <1>15, <2>1 DEF OneCurrent
  <2>2. ASSUME NEW x \in live, x # v, moved[x].cur, moved[x].act = moved[v].act,
               moved[v].act # NoAct, moved[v].cur
        PROVE  FALSE
    <3>1. row[x].act = a /\ a # NoAct /\ x \in Versions /\ moved[x] = closed[x]
      BY <1>2, <1>10, <1>15, <1>16, <2>2
    <3>2. x \in T
      BY <1>4, <3>1
    <3>3. IsLatest(T, d)
      BY <1>10, <1>15, <2>2, <3>1
    <3> QED
      BY <1>12, <2>2, <3>1, <3>2, <3>3
  <2> QED
    BY <2>1, <2>2
<1>18. \A w \in Versions : end[w] = IF w = v THEN e ELSE Keep
  BY <1>2 DEF NoEnd
<1> HIDE DEF end
<1>18a. \A w \in S : w \in stray => w \in W
  BY <1>5, <1>18 DEF Excepted
<1>18b. \A w \in T : w \in stray => w \in W
  BY <1>4, <1>18 DEF Excepted
<1>18c. (equal # {} \/ late) => v \in W /\ equal \subseteq W
  BY DEF Excepted
<1>18d. v \in stray /\ e = Keep => v \in W
  BY <1>2, <1>18 DEF Excepted
<1> HIDE DEF W, odd
<1>19. Remade(new, moved, S, F, W)
  <2>1. CASE source = NoAct
    <3>1. new = moved /\ S = {}
      BY <2>1 DEF Reconnected, S
    <3> QED
      BY <3>1 DEF Remade, LoneCurrent
  <2>2. CASE source # NoAct
    <3>1. source \in Acts /\ v \in Editions(source) /\ S = Editions(source) \ {v}
      BY <1>1, <1>2, <1>3, <2>2 DEF Editions, S
    <3>2. OwnKept(new, S, ended, F)
      <4>1. S \subseteq live /\ \A w \in S : end[w] = Keep
        BY <1>5, <1>18
      <4> HIDE DEF new
      <4> QED
        BY <4>1, KeptEnds
    <3>3. Untouched(moved, S)
      BY <1>5, <1>16 DEF Untouched
    <3> HIDE DEF v, source, F
    <3> QED
      BY <1>15, <1>18a, <3>1, <3>2, <3>3, ReconnectFacts
  <2> QED
    BY <2>1, <2>2
<1>19a. \A w \in S : ValidDates(new[w])
  <2> HIDE DEF new
  <2> QED
    BY <1>1, <1>5, <1>6a DEF Validated
<1> HIDE DEF new
<1>20. /\ \A w \in Versions \ S : new[w] = moved[w]
       /\ \A w \in Versions : new[w].act = moved[w].act
       /\ \A w \in S : Dated(new, w) => AdjacentIn(new, S, F, W, w)
  BY <1>19 DEF Remade
<1>21. OneCurrent(live, new)
  <2>1. CASE source = NoAct
    <3>1. \A w \in live : new[w] = moved[w]
      BY <1>2, <1>5, <1>20, <2>1
    <3> QED
      BY <1>17, <3>1 DEF OneCurrent
  <2>2. CASE source # NoAct
    <3>1. RowsOf(live, moved, S, source)
      BY <1>1, <1>2, <1>5, <1>10, <1>15, <1>16, <2>2 DEF RowsOf
    <3> HIDE DEF source, F, v
    <3> QED
      BY <1>2, <1>17, <1>19, <3>1, RemadeCurrent
  <2> QED
    BY <2>1, <2>2
<1>22. SaveAccepted(live, moved, new)
  BY <1>2, <1>17, <1>20, <1>21, SaveFine
<1>23. /\ new[v] = edited
       /\ \A w \in live : w # v => new[w].act = row[w].act
       /\ \A w \in live : w # v /\ w \notin T /\ w \notin S => new[w] = row[w]
       /\ \A w \in T : new[w] = closed[w]
  BY <1>2, <1>4, <1>5, <1>15, <1>16, <1>20
<1>24. leaving.to # None => v \in F \/ v \in W
  <2> SUFFICES ASSUME leaving.to # None PROVE v \in F \/ v \in W
    OBVIOUS
  <2>1. new[v].to = leaving.to
    BY <1>10, <1>23
  <2>2. end[v] = e
    BY <1>2, <1>18
  <2> QED
    BY <1>1, <1>7, <1>18d, <2>1, <2>2 DEF Given
<1>25. ASSUME NEW b \in Acts, NEW u \in EditionsOf(live, new, b), Dated(new, u)
       PROVE  AdjacentIn(new, EditionsOf(live, new, b), F, W, u)
  <2>1. CASE b = source
    <3>1. EditionsOf(live, new, b) = S
      BY <1>1, <1>5, <1>10, <1>23, <2>1, ActsAssumption DEF EditionsOf
    <3> QED
      BY <1>20, <1>25, <3>1
  <2>2. CASE b = a
    <3>1. EditionsOf(live, new, b) = T \cup {v} /\ T = Editions(a)
      <4>1. T = Editions(a)
        BY <1>1, <1>3, <2>2, ActsAssumption DEF T, Editions
      <4> QED
        BY <1>1, <1>4, <1>10, <1>23, <2>2, <4>1, ActsAssumption DEF EditionsOf
    <3>2. \A w \in T : Dated(row, w) => AdjacentIn(row, T, ended, stray, w)
      BY <2>2, <3>1, AdjacentEditions
    <3>3. OwnKept(new, T, ended, F)
      <4>1. T \subseteq live /\ \A w \in T : end[w] = Keep
        BY <1>4, <1>18
      <4> QED
        BY <4>1, KeptEnds
    <3>4. Closed(new, T, d)
      BY <1>12, <1>23 DEF Closed
    <3>5. Newest(T, W, v, d)
      <4> SUFFICES ASSUME NEW w \in T, row[w].from = d, d # None, ~(w < v) PROVE w \in W
        BY DEF Newest
      <4>1. w \in Nat /\ v \in Nat /\ w # v
        BY <1>2, <1>4, DateFacts
      <4>2. w \in equal
        BY <4>1
      <4> QED
        BY <1>18c, <4>2
    <3>5a. equal = {} => Newest(T, {}, v, d)
      <4> SUFFICES ASSUME equal = {}, NEW w \in T, row[w].from = d, d # None PROVE w < v
        BY DEF Newest
      <4>1. w \in Nat /\ v \in Nat /\ w # v
        BY <1>2, <1>4, DateFacts
      <4> QED
        BY <4>1
    <3>6. v \in Versions \ T /\ new[v].from = d
      BY <1>2, <1>4, <1>10, <1>23
    <3>7. /\ \A w \in T : Dated(row, w) => AdjacentIn(new, T \cup {v}, F, W, w)
          /\ d # None /\ equal = {} => SuccessorStart(new, T \cup {v}, v) = boundary
      <4> HIDE DEF F, v, d, equal
      <4>1. /\ \A w \in T : Dated(row, w) => AdjacentIn(new, T \cup {v}, F, W, w)
            /\ d # None /\ Newest(T, {}, v, d) =>
                 SuccessorStart(new, T \cup {v}, v) = SuccessorDate(T, d)
        <5>1. row \in [Versions -> Row] /\ T \subseteq Versions /\ d \in MaybeDate
          BY <1>2, <1>4, <1>8
        <5>2. new[v].from = d /\ v \in Versions \ T
          BY <3>6
        <5> QED
          BY <1>18b, <3>2, <3>3, <3>4, <3>5, <5>1, <5>2, InsertAdjacent
      <4> QED
        BY <3>5a, <4>1
    <3>8. CASE u = v
      <4>1. CASE v \in W
        BY <3>1, <3>8, <4>1 DEF AdjacentIn
      <4>2. CASE v \notin W
        <5>1. SuccessorStart(new, T \cup {v}, v) = boundary /\ ~late
          BY <1>18c, <1>25, <3>6, <3>7, <3>8, <4>2 DEF Dated
        <5>2. new[v].to = IF leaving.to = None THEN boundary ELSE leaving.to
          BY <1>10, <1>23
        <5>3. leaving.to # None => leaving.to = boundary \/ boundary = None \/ leaving.to < boundary
          <6>1. leaving.to \in Nat /\ boundary \in Nat
            BY <1>8, <1>9, DateFacts
          <6>2. ~(boundary # None /\ boundary < leaving.to)
            BY <5>1
          <6> HIDE DEF boundary
          <6> QED
            BY <6>1, <6>2
        <5> HIDE DEF boundary, F
        <5> QED
          BY <1>24, <3>1, <3>8, <4>2, <5>1, <5>2, <5>3 DEF AdjacentIn
      <4> QED
        BY <4>1, <4>2
    <3>9. CASE u \in T
      <4>1. Dated(row, u)
        BY <1>25, <3>4, <3>9 DEF Closed, Dated
      <4> QED
        BY <3>1, <3>7, <3>9, <4>1
    <3> QED
      BY <3>1, <3>8, <3>9
  <2>3. CASE b # a /\ b # source
    <3>1. EditionsOf(live, new, b) = Editions(b)
      BY <1>1, <1>3, <1>10, <1>23, <2>3 DEF EditionsOf, Editions
    <3>2. \A w \in Editions(b) : new[w] = row[w] /\ end[w] = Keep
      BY <1>2, <1>3, <1>4, <1>5, <1>18, <1>23, <2>3 DEF Editions
    <3> QED
      BY <1>2, <1>25, <3>1, <3>2, UnaffectedCommit DEF W
  <2> QED
    BY <2>1, <2>2, <2>3
<1>26. ASSUME NEW w \in live, w # v, row[w].act = NoAct PROVE new[w] = row[w]
  BY <1>4, <1>5, <1>23, <1>26
<1>27. ASSUME NEW w \in live, new[w].to # None, new[w].act = NoAct PROVE w \in F \/ w \in W
  <2>1. CASE w = v
    <3>1. a = NoAct /\ T = {}
      BY <1>4, <1>10, <1>23, <1>27, <2>1
    <3>2. leaving.to # None
      BY <1>9, <1>10, <1>23, <1>27, <2>1, <3>1
    <3> QED
      BY <1>24, <2>1, <3>2
  <2>2. CASE w # v
    <3>1. row[w].act = NoAct /\ new[w] = row[w]
      BY <1>23, <1>26, <1>27, <2>2
    <3>2. end[w] = Keep
      BY <1>2, <1>18, <2>2
    <3> QED
      BY <1>27, <3>1, <3>2, PendingEnd DEF W
  <2> QED
    BY <2>1, <2>2
<1>28. \A w \in Versions : ValidDates(new[w])
  BY <1>15, <1>19a, <1>20 DEF Row
<1>29. SoundRows(live, new, end, odd)
  BY <1>21, <1>25, <1>27, <1>28 DEF SoundRows, W
<1>30. accepted
  BY <1>13, <1>17, <1>22
<1> HIDE DEF accepted
<1> QED
  BY <1>1, <1>2, <1>29, <1>30, CommitStep

LEMMA Initially == Init => IInv
<1> SUFFICES ASSUME Init PROVE IInv
  OBVIOUS
<1>1. /\ next = 1 /\ live = {} /\ row = [v \in Versions |-> Blank]
      /\ cmd = [c \in Commands |-> Idle] /\ today = 1 /\ ended = {} /\ stray = {}
      /\ overwritten = FALSE /\ conflict = FALSE
  BY DEF Init
<1>2. next \in 1 .. MaxVersions + 1 /\ today \in Dates
  BY <1>1, BoundAssumption DEF Dates
<1>3. row \in [Versions -> Row]
  BY <1>1, BlankType
<1>4. cmd \in [Commands -> [v : 0 .. next - 1, seen : RawRow]]
  BY <1>1, BlankType DEF Idle, Row
<1> QED
  BY <1>1, <1>2, <1>3, <1>4 DEF IInv, TypeOK, NoConflict, Adjacent, OneCurrent, EndFacts

(* An outdated read that has been written is never forgotten.              *)
LEMMA Remembered ==
    ASSUME [Next]_vars, ~overwritten'
    PROVE  /\ ~overwritten
           /\ \A c \in Commands :
                \/ \E q \in Requests : CorrectPending(c, q[1], q[2])
                \/ \E q \in Requests, a \in Acts \cup {NoAct} : Relink(c, q[1], q[2], a)
                \/ Delete(c)
                => ~Stale(c)
<1>1. ASSUME NEW c \in Commands, NEW q \in Requests, CorrectPending(c, q[1], q[2])
      PROVE  ~overwritten /\ ~Stale(c)
  BY <1>1 DEF CorrectPending
<1>2. ASSUME NEW c \in Commands, NEW q \in Requests, NEW a \in Acts \cup {NoAct},
             Relink(c, q[1], q[2], a)
      PROVE  ~overwritten /\ ~Stale(c)
  <2>1. overwritten' = (overwritten \/ Stale(c))
    BY <1>2 DEF Relink
  <2> QED
    BY <2>1
<1>3. ASSUME NEW c \in Commands, Delete(c) PROVE ~overwritten /\ ~Stale(c)
  BY <1>3 DEF Delete
<1>4. ~overwritten
  <2>1. ASSUME NEW a, NEW d, Upload(a, d) PROVE overwritten' = overwritten
    BY <2>1 DEF Upload
  <2>2. ASSUME NEW c, NEW v, Load(c, v) PROVE overwritten' = overwritten
    BY <2>2 DEF Load, history
  <2>3. ASSUME NEW c, NEW f, NEW e, Correct(c, f, e) PROVE overwritten' = overwritten
    BY <2>3 DEF Correct
  <2>4. ASSUME NEW c, Abort(c) PROVE overwritten' = overwritten
    BY <2>4 DEF Abort, history
  <2>5. Midnight \/ UNCHANGED vars => overwritten' = overwritten
    BY DEF Midnight, vars, history
  <2> QED
    BY <1>1, <1>2, <1>3, <2>1, <2>2, <2>3, <2>4, <2>5 DEF Next
<1> QED
  BY <1>1, <1>2, <1>3, <1>4

LEMMA TableNext ==
    ASSUME IInv, [Next]_vars, ~overwritten', row' \in [Versions -> RawRow]
    PROVE  Table'
<1>0. ~overwritten
  BY Remembered
<1>1. ASSUME NEW a \in Acts \cup {NoAct}, NEW d \in MaybeDate, Upload(a, d) PROVE Table'
  BY <1>0, <1>1, UploadStep
<1>2. ASSUME NEW c \in Commands, NEW v \in Versions, Load(c, v) PROVE Table'
  BY <1>0, <1>2, SameTable DEF Load, history
<1>3. ASSUME NEW c \in Commands, NEW q \in Requests, Correct(c, q[1], q[2]) PROVE Table'
  BY <1>0, <1>3, CorrectStep
<1>4. ASSUME NEW c \in Commands, NEW q \in Requests, CorrectPending(c, q[1], q[2]) PROVE Table'
  BY <1>0, <1>4, Remembered, CorrectPendingStep
<1>5. ASSUME NEW c \in Commands, NEW q \in Requests, NEW a \in Acts \cup {NoAct},
             Relink(c, q[1], q[2], a)
      PROVE  Table'
  BY <1>0, <1>5, Remembered, RelinkStep
<1>6. ASSUME NEW c \in Commands, Delete(c) PROVE Table'
  BY <1>0, <1>6, Remembered, DeleteStep
<1>7. ASSUME NEW c \in Commands, Abort(c) PROVE Table'
  BY <1>0, <1>7, SameTable DEF Abort, history
<1>8. CASE Midnight
  BY <1>0, <1>8, SameTable DEF Midnight, history
<1>9. CASE UNCHANGED vars
  BY <1>0, <1>9, SameTable DEF vars, history
<1> QED
  BY <1>1, <1>2, <1>3, <1>4, <1>5, <1>6, <1>7, <1>8, <1>9 DEF Next

LEMMA Inductive ==
    ASSUME IInv, [Next]_vars
    PROVE  IInv'
<1>1. Types'
  BY TypesOfTypeOK, TypesNext DEF IInv
<1>2. row' \in [Versions -> RawRow]
  BY <1>1 DEF Types
<1>3. CASE overwritten'
  BY <1>1, <1>3 DEF IInv, Types, TypeOK
<1>4. CASE ~overwritten'
  <2>1. Table'
    BY <1>2, <1>4, TableNext
  <2>2. TypeOK'
    BY <1>1, <1>4, <2>1 DEF Types, TypeOK, Table
  <2> QED
    BY <2>1, <2>2 DEF Table, IInv, NoConflict
<1> QED
  BY <1>3, <1>4

-----------------------------------------------------------------------------
(* What is said of every act, edition, day and number of commands.         *)

(* The timeline keeps its inductive invariant through every upload,        *)
(* correction, relinking and deletion until a command writes a pending     *)
(* edition, which no act's lock covers, from a read that another one has   *)
(* outdated (load of application/act_versioning); the types stay anyway.   *)
THEOREM TimelineInvariant == Spec => []IInv
<1>1. Init => IInv
  BY Initially
<1>2. IInv /\ [Next]_vars => IInv'
  BY Inductive
<1> QED
  BY <1>1, <1>2, PTL DEF Spec

(* Rows keep known acts and dates, and ids are given out once; until a     *)
(* pending edition is written from an outdated read, no row has an end     *)
(* before its start, as validate_dates of models.py asks.                  *)
THEOREM ActsTypeCorrect == Spec => []TypeOK
<1>1. IInv => TypeOK
  BY DEF IInv
<1> QED
  BY <1>1, TimelineInvariant, PTL

(* The order of the writes of save_changes and of relink_version never     *)
(* meets the unique index ux_act_versions_one_current, whatever the number *)
(* of editions that are demoted, promoted, moved or removed in the         *)
(* transaction, unless a pending edition has been written from an outdated *)
(* read.                                                                   *)
THEOREM IndexNeverRefuses == Spec => []NoConflict
<1>1. IInv => NoConflict
  BY DEF IInv, NoConflict
<1> QED
  BY <1>1, TimelineInvariant, PTL

(* Each dated edition of an act ends where the next one starts, or earlier *)
(* when a request gave it an end of its own: no commands of timeline.py,   *)
(* in any order, leave it a gap or an overlap that nobody asked for.  Two  *)
(* histories are excepted: the strays that Strays names, and a pending     *)
(* edition written from an outdated read.                                  *)
THEOREM EditionsAdjacent == Spec => []Adjacent
<1>1. IInv => Adjacent
  BY DEF IInv, Adjacent
<1> QED
  BY <1>1, TimelineInvariant, PTL

-----------------------------------------------------------------------------
(* What a search finds of an act.  A dated edition serves the days up to   *)
(* the start of the next one by Adjacent; an act with undated editions     *)
(* only is served by the current one, which the flags must keep.           *)

(* Among editions S of an act the current one has begun, and there is one  *)
(* when an undated edition without an end is not yet followed by another.  *)
Flagged(S, r, t) ==
    /\ \A v \in S : r[v].cur => r[v].from <= t
    /\ (/\ \E v \in S : r[v].from = None /\ r[v].to = None
        /\ \A v \in S : r[v].from <= t => r[v].from = None)
       => \E v \in S : r[v].cur

Flags == \A b \in Acts : Flagged(EditionsOf(live, row, b), row, today)

(* A finite set of editions has a last one.                                *)
LEMMA LastExists ==
    ASSUME NEW r, NEW S, S \subseteq Versions, S # {}, Starts(r, S)
    PROVE  \E v \in S : \A w \in S : ~Precedes(r, v, w)
<1>0. /\ \A v \in S : r[v].from \in Nat /\ r[v].from <= MaxDate
      /\ \A v \in S : v \in Nat /\ v <= MaxVersions
      /\ MaxDate \in Nat /\ MaxVersions \in Nat
  BY BoundAssumption DEF Starts, MaybeDate, Versions
<1> DEFINE D == {MaxDate - r[v].from : v \in S}
<1>1. D \subseteq Nat /\ D # {}
  BY <1>0
<1>2. PICK x \in D : \A y \in D : x <= y
  BY <1>1, LeastNumber
<1>3. PICK v \in S : x = MaxDate - r[v].from
  BY <1>2
<1>4. \A w \in S : r[w].from <= r[v].from
  <2> SUFFICES ASSUME NEW w \in S PROVE r[w].from <= r[v].from
    OBVIOUS
  <2>1. x <= MaxDate - r[w].from
    BY <1>2
  <2> QED
    BY <1>0, <1>3, <2>1
<1> DEFINE U == {w \in S : r[w].from = r[v].from}
           C == {MaxVersions - w : w \in U}
<1>5. C \subseteq Nat /\ C # {}
  BY <1>0
<1>6. PICK y \in C : \A z \in C : y <= z
  BY <1>5, LeastNumber
<1>7. PICK m \in U : y = MaxVersions - m
  BY <1>6
<1>8. \A w \in U : w <= m
  <2> SUFFICES ASSUME NEW w \in U PROVE w <= m
    OBVIOUS
  <2>1. y <= MaxVersions - w
    BY <1>6
  <2> QED
    BY <1>0, <1>7, <2>1
<1>9. m \in S /\ r[m].from = r[v].from
  BY <1>7
<1>10. ASSUME NEW w \in S PROVE ~Precedes(r, m, w)
  <2>1. CASE r[w].from = r[v].from
    <3>1. w <= m
      BY <1>8, <2>1
    <3> QED
      BY <1>0, <1>9, <2>1, <3>1 DEF Precedes
  <2>2. CASE r[w].from # r[v].from
    BY <1>0, <1>4, <1>9, <2>2 DEF Precedes
  <2> QED
    BY <2>1, <2>2
<1> QED
  BY <1>9, <1>10

(* Editions that a step leaves alone keep their flags.                     *)
LEMMA FlaggedSame ==
    ASSUME NEW S, NEW r, NEW q, NEW t, \A v \in S : q[v] = r[v], Flagged(S, r, t)
    PROVE  Flagged(S, q, t)
BY DEF Flagged

(* A rebuilding makes the last edition in force current.                   *)
LEMMA FlaggedRebuild ==
    ASSUME NEW r \in [Versions -> RawRow], NEW S, S \subseteq Versions, NEW end,
           today \in Dates
    PROVE  Flagged(S, Rebuild(r, S, end), today)
<1> DEFINE new == Rebuild(r, S, end)
           to == [v \in S |-> Cap(end[v], SuccessorStart(r, S, v))]
           eligible == {v \in S : r[v].from <= today /\ (to[v] = None \/ today < to[v])}
<1>1. ASSUME NEW v \in S
      PROVE  /\ new[v].from = r[v].from
             /\ new[v].to = to[v]
             /\ new[v].cur = (v \in eligible /\ After(r, eligible, v) = {})
  <2>1. new[v] = [r[v] EXCEPT !.to = to[v],
                              !.cur = v \in eligible /\ After(r, eligible, v) = {}]
    BY DEF Rebuild
  <2>2. r[v] \in RawRow
    OBVIOUS
  <2> HIDE DEF to, eligible, new
  <2> QED
    BY <2>1, <2>2 DEF RawRow
<1> HIDE DEF new, to
<1>2. \A v \in S : new[v].cur => new[v].from <= today
  BY <1>1
<1>3. ASSUME NEW u \in S, new[u].from = None, new[u].to = None PROVE \E v \in S : new[v].cur
  <2>1. None <= today
    BY BoundAssumption DEF None, Dates
  <2>2. u \in eligible
    BY <1>1, <1>3, <2>1
  <2>3. Starts(r, eligible)
    BY DEF Starts, RawRow
  <2>4. PICK v \in eligible : \A w \in eligible : ~Precedes(r, v, w)
    BY <2>2, <2>3, LastExists
  <2>5. After(r, eligible, v) = {}
    BY <2>4 DEF After
  <2> QED
    BY <1>1, <2>5
<1> QED
  BY <1>2, <1>3 DEF Flagged, new

(* An edition u that joins the editions T from day d takes over the flag   *)
(* when it is the latest to have begun, and leaves it alone otherwise.     *)
LEMMA FlaggedJoin ==
    ASSUME row \in [Versions -> Row], today \in Dates,
           NEW T, T \subseteq Versions, NEW d \in MaybeDate, NEW u \in Versions \ T,
           NEW r, r[u].from = d, r[u].cur = IsLatest(T, d),
           \A w \in T : r[w] = InsertBoundary(T, d)[w],
           Flagged(T, row, today)
    PROVE  Flagged(T \cup {u}, r, today)
<1> DEFINE latest == IsLatest(T, d)
<1>1. ASSUME NEW w \in T
      PROVE  /\ r[w].from = row[w].from
             /\ r[w].cur <=> row[w].cur /\ (d = None \/ ~latest)
             /\ r[w].to = None => row[w].to = None
  <2>1. row[w] \in Row /\ row[w].cur \in BOOLEAN /\ latest \in BOOLEAN
    BY RowFields, LatestType
  <2>2. CASE d = None
    <3>1. r[w] = row[w]
      BY <2>2 DEF InsertBoundary
    <3> QED
      BY <2>2, <3>1
  <2>3. CASE d # None
    <3> DEFINE t == IF row[w].from <= d /\ (row[w].to = None \/ d < row[w].to) THEN d ELSE row[w].to
    <3>1. r[w] = [row[w] EXCEPT !.to = t, !.cur = row[w].cur /\ ~latest]
      BY <2>3 DEF InsertBoundary
    <3>2. t = None => row[w].to = None
      BY <2>3
    <3> HIDE DEF t, latest
    <3>3. r[w].from = row[w].from /\ r[w].to = t /\ r[w].cur = (row[w].cur /\ ~latest)
      BY <2>1, <3>1 DEF Row
    <3> QED
      BY <2>3, <3>2, <3>3
  <2> QED
    BY <2>2, <2>3
<1>2. latest => d = None \/ d <= today
  BY DEF IsLatest
<1>3. /\ today \in Nat /\ d \in Nat /\ None <= today
      /\ \A w \in T : row[w].from \in Nat
  BY DateFacts, RowFields DEF None
<1>4. \A w \in T \cup {u} : r[w].cur => r[w].from <= today
  BY <1>1, <1>2, <1>3 DEF Flagged
<1>5. ASSUME NEW x \in T \cup {u}, r[x].from = None, r[x].to = None,
             \A w \in T \cup {u} : r[w].from <= today => r[w].from = None
      PROVE  \E w \in T \cup {u} : r[w].cur
  <2>1. CASE d = None
    <3>1. latest <=> \A w \in T : ~row[w].cur
      BY <2>1 DEF IsLatest
    <3> QED
      BY <1>1, <2>1, <3>1
  <2>2. CASE d # None
    <3>1. ~(d <= today)
      BY <1>5, <2>2
    <3>2. ~latest
      BY <1>2, <2>2, <3>1
    <3>3. x \in T /\ row[x].from = None /\ row[x].to = None
      BY <1>1, <1>5, <2>2
    <3>4. \A w \in T : row[w].from <= today => row[w].from = None
      BY <1>1, <1>5
    <3>5. PICK w \in T : row[w].cur
      BY <3>3, <3>4 DEF Flagged
    <3> QED
      BY <1>1, <3>2, <3>5
  <2> QED
    BY <2>1, <2>2
<1> QED
  BY <1>4, <1>5 DEF Flagged

(* A transaction of a step that keeps the invariant has been accepted.     *)
LEMMA Accepted ==
    ASSUME IInv', ~overwritten', NEW L, NEW accepted, NEW new, NEW end, NEW odd,
           Commit(L, accepted, new, end, odd)
    PROVE  accepted /\ live' = L /\ row' = new
<1>1. accepted
  BY DEF Commit, IInv, NoConflict
<1> QED
  BY <1>1 DEF Commit

LEMMA UploadFlags ==
    ASSUME IInv, IInv', ~overwritten, ~overwritten', Flags,
           NEW a \in Acts \cup {NoAct}, NEW d \in MaybeDate, Upload(a, d)
    PROVE  Flags'
<1> DEFINE S == IF a = NoAct THEN {} ELSE Editions(a)
           L == live \cup {next}
           x == [act |-> a, from |-> d, to |-> SuccessorDate(S, d), cur |-> IsLatest(S, d)]
           closed == InsertBoundary(S, d)
           new == [closed EXCEPT ![next] = x]
<1>1. /\ next \in Versions /\ today' = today /\ live' = L /\ row' = new
  <2>1. /\ next \in Versions /\ today' = today
        /\ Commit(L, SaveAccepted(live, row, closed) /\ OneCurrent(L, new), new, NoEnd, {})
    BY DEF Upload
  <2> QED
    BY <2>1, Accepted
<1>2. /\ row \in [Versions -> Row] /\ live \subseteq Versions /\ next \notin live
      /\ S \subseteq live /\ today \in Dates
      /\ \A w \in S : row[w].act = a
      /\ \A w \in live : row[w].act = a /\ a # NoAct => w \in S
  BY TableFacts DEF IInv, TypeOK, Editions
<1>3. /\ closed \in [Versions -> Row]
      /\ \A w \in Versions \ S : closed[w] = row[w]
      /\ Calmer(closed)
  BY <1>2, InsertFacts
<1> HIDE DEF closed, S
<1>4. new[next] = x /\ \A w \in live : new[w] = closed[w]
  BY <1>1, <1>2, <1>3
<1> HIDE DEF new
<1>5. ASSUME NEW b \in Acts PROVE Flagged(EditionsOf(L, new, b), new, today)
  <2>0. Flagged(EditionsOf(live, row, b), row, today) /\ b # NoAct
    BY ActsAssumption DEF Flags
  <2>1. CASE b = a
    <3>1. EditionsOf(live, row, b) = S
      BY <1>2, <2>0, <2>1 DEF EditionsOf
    <3>2. EditionsOf(L, new, b) = S \cup {next}
      BY <1>2, <1>3, <1>4, <2>0, <2>1 DEF EditionsOf, Calmer
    <3>3. new[next].from = d /\ new[next].cur = IsLatest(S, d)
      BY <1>4
    <3>4. \A w \in S : new[w] = InsertBoundary(S, d)[w]
      BY <1>2, <1>4 DEF closed
    <3>5. next \in Versions \ S /\ S \subseteq Versions
      BY <1>1, <1>2
    <3>6. row \in [Versions -> Row] /\ today \in Dates /\ Flagged(S, row, today)
      BY <1>2, <2>0, <3>1
    <3>7. Flagged(S \cup {next}, new, today)
      BY <3>3, <3>4, <3>5, <3>6, FlaggedJoin
    <3> QED
      BY <3>2, <3>7
  <2>2. CASE b # a
    <3>1. \A w \in EditionsOf(live, row, b) : new[w] = row[w]
      BY <1>2, <1>3, <1>4, <2>2 DEF EditionsOf
    <3>2. EditionsOf(L, new, b) = EditionsOf(live, row, b)
      BY <1>2, <1>3, <1>4, <2>2 DEF EditionsOf, Calmer
    <3> QED
      BY <2>0, <3>1, <3>2, FlaggedSame
  <2> QED
    BY <2>1, <2>2
<1> QED
  BY <1>1, <1>5 DEF Flags

LEMMA CorrectFlags ==
    ASSUME IInv, IInv', ~overwritten, ~overwritten', Flags, NEW c \in Commands,
           NEW q \in Requests, Correct(c, q[1], q[2])
    PROVE  Flags'
<1> DEFINE f == q[1]
           e == q[2]
           v == cmd[c].v
           a == cmd[c].seen.act
           S == Editions(a)
           edited == Edited(c, f, e, a)
           own == [w \in S |-> IF w = v /\ e # Keep THEN e ELSE ExplicitEnd(row, S, w)]
           r == [row EXCEPT ![v] = edited]
           new == Rebuild(r, S, own)
           end == [NoEnd EXCEPT ![v] = e]
<1>0. ~Stale(c)
  BY DEF Correct, Stale
<1>1. /\ a # NoAct /\ Found(c) /\ today' = today
      /\ live' = live /\ row' = new
  <2>1. /\ a # NoAct /\ Found(c) /\ today' = today
        /\ Commit(live, SaveAccepted(live, row, new), new, end, {})
    BY DEF Correct
  <2> QED
    BY <2>1, Accepted
<1>2. a \in Acts /\ v \in S /\ v \in live /\ v \in Versions /\ S \subseteq live /\ S \subseteq Versions
  BY <1>1, TableFacts DEF Found, Editions
<1>3. edited \in RawRow /\ edited.act = a
  <2>1. f \in {Keep} \cup MaybeDate /\ e \in {Keep} \cup MaybeDate
    BY RequestFacts
  <2>2. Asked(edited, a, row[v].to, e)
    BY <1>0, <1>1, <1>2, <2>1, EditedFacts
  <2> QED
    BY <2>2 DEF Asked
<1> HIDE DEF f, e, edited
<1>4. row \in [Versions -> Row] /\ live \subseteq Versions /\ today \in Dates
  BY TableFacts DEF IInv, TypeOK
<1>5. /\ r \in [Versions -> RawRow] /\ r[v] = edited
      /\ \A w \in Versions \ {v} : r[w] = row[w]
  <2>1. \A w \in Versions : row[w] \in RawRow
    BY <1>4, RowFields DEF Row, RawRow
  <2> QED
    BY <1>2, <1>3, <1>4, <2>1
<1> HIDE DEF r, own
<1>6. Rebuilt(new, r, S, own) /\ Flagged(S, new, today)
  BY <1>2, <1>4, <1>5, RebuildFacts, FlaggedRebuild
<1> HIDE DEF new
<1>7. /\ \A w \in Versions : new[w].act = row[w].act
      /\ \A w \in Versions : w \notin S => new[w] = row[w]
  <2>1. row[v].act = a
    BY <1>2 DEF Editions
  <2> QED
    BY <1>2, <1>3, <1>5, <1>6, <2>1 DEF Rebuilt
<1>8. ASSUME NEW b \in Acts PROVE Flagged(EditionsOf(live, new, b), new, today)
  <2>1. EditionsOf(live, new, b) = EditionsOf(live, row, b)
    BY <1>4, <1>7 DEF EditionsOf
  <2>2. CASE b = a
    <3>1. EditionsOf(live, row, b) = S
      BY <2>2 DEF EditionsOf, Editions
    <3> QED
      BY <1>6, <2>1, <3>1
  <2>3. CASE b # a
    <3>1. \A w \in EditionsOf(live, row, b) : new[w] = row[w]
      BY <1>4, <1>7, <2>3 DEF EditionsOf, Editions
    <3> QED
      BY <2>1, <3>1, FlaggedSame DEF Flags
  <2> QED
    BY <2>2, <2>3
<1> QED
  BY <1>1, <1>8 DEF Flags

LEMMA CorrectPendingFlags ==
    ASSUME IInv, IInv', ~overwritten, ~overwritten', Flags, NEW c \in Commands, ~Stale(c),
           NEW q \in Requests, CorrectPending(c, q[1], q[2])
    PROVE  Flags'
<1> DEFINE f == q[1]
           e == q[2]
           v == cmd[c].v
           edited == Edited(c, f, e, NoAct)
           new == [row EXCEPT ![v] = Written(@, cmd[c].seen, edited)]
           end == [NoEnd EXCEPT ![v] = e]
<1>1. /\ cmd[c].seen.act = NoAct /\ v \in live /\ today' = today
      /\ live' = live /\ row' = new
  <2>1. /\ cmd[c].seen.act = NoAct /\ v \in live /\ today' = today
        /\ Commit(live, OneCurrent(live, new), new, end, {})
    BY DEF CorrectPending
  <2> QED
    BY <2>1, Accepted
<1>2. /\ row \in [Versions -> Row] /\ live \subseteq Versions /\ v \in Versions
      /\ row[v] \in Row
  BY <1>1, TableFacts
<1>3. Found(c)
  BY <1>1 DEF Found
<1>4. row[v].act = NoAct /\ row[v] = cmd[c].seen
  BY <1>1, <1>3, Held DEF Read
<1>5. edited \in RawRow /\ edited.act = NoAct
  <2>1. Asked(edited, NoAct, row[v].to, e)
    BY <1>1, <1>3, RequestFacts, EditedFacts
  <2> QED
    BY <2>1 DEF Asked
<1> HIDE DEF f, e, edited
<1>6. new[v] = edited /\ \A w \in Versions \ {v} : new[w] = row[w]
  <2>1. Written(row[v], cmd[c].seen, edited) = edited
    BY <1>2, <1>4, <1>5, WrittenAll
  <2> QED
    BY <1>2, <2>1
<1> HIDE DEF new
<1>7. ASSUME NEW b \in Acts PROVE Flagged(EditionsOf(live, new, b), new, today)
  <2>1. b # NoAct
    BY ActsAssumption
  <2>2. EditionsOf(live, new, b) = EditionsOf(live, row, b)
    BY <1>2, <1>4, <1>5, <1>6, <2>1 DEF EditionsOf
  <2>3. \A w \in EditionsOf(live, row, b) : new[w] = row[w]
    BY <1>2, <1>4, <1>6, <2>1 DEF EditionsOf
  <2> QED
    BY <2>2, <2>3, FlaggedSame DEF Flags
<1> QED
  BY <1>1, <1>7 DEF Flags

(* The act that an edition leaves is rebuilt from its other editions.      *)
LEMMA FlaggedReconnect ==
    ASSUME IInv, ~overwritten, NEW a \in Acts, NEW v \in Versions, NEW r \in [Versions -> Row]
    PROVE  Flagged(Editions(a) \ {v}, Reconnected(r, a, v), today)
<1> DEFINE end == [w \in Editions(a) |-> ExplicitEnd(row, Editions(a), w)]
<1>1. Reconnected(r, a, v) = Rebuild(r, Editions(a) \ {v}, end)
  BY ActsAssumption DEF Reconnected
<1>2. r \in [Versions -> RawRow]
  BY RowFields DEF Row, RawRow
<1>3. Editions(a) \ {v} \subseteq Versions /\ today \in Dates
  BY TableFacts DEF IInv, TypeOK
<1> HIDE DEF end
<1> QED
  BY <1>1, <1>2, <1>3, FlaggedRebuild

(* The other rows are left alone.                                          *)
LEMMA ReconnectedRest ==
    ASSUME IInv, ~overwritten, NEW a \in Acts \cup {NoAct}, NEW v \in Versions,
           NEW r \in [Versions -> Row]
    PROVE  LET new == Reconnected(r, a, v)
               S == IF a = NoAct THEN {} ELSE Editions(a) \ {v}
           IN  /\ \A w \in Versions : new[w].act = r[w].act
               /\ \A w \in Versions : w \notin S => new[w] = r[w]
<1> DEFINE S == Editions(a) \ {v}
           end == [w \in Editions(a) |-> ExplicitEnd(row, Editions(a), w)]
           new == Rebuild(r, S, end)
<1>1. CASE a = NoAct
  BY <1>1 DEF Reconnected
<1>2. CASE a # NoAct
  <2>1. Reconnected(r, a, v) = new
    BY <1>2 DEF Reconnected
  <2>2. r \in [Versions -> RawRow] /\ S \subseteq Versions
    BY RowFields, TableFacts DEF Row, RawRow
  <2> HIDE DEF end
  <2>3. Rebuilt(new, r, S, end)
    BY <2>2, RebuildFacts
  <2> HIDE DEF new, S
  <2>4. /\ \A w \in Versions : new[w].act = r[w].act
        /\ \A w \in Versions : w \notin S => new[w] = r[w]
    BY <2>3 DEF Rebuilt
  <2> QED
    BY <1>2, <2>1, <2>4 DEF S
<1> QED
  BY <1>1, <1>2

LEMMA DeleteFlags ==
    ASSUME IInv, IInv', ~overwritten, ~overwritten', Flags, NEW c \in Commands, ~Stale(c),
           Delete(c)
    PROVE  Flags'
<1> DEFINE v == cmd[c].v
           a == cmd[c].seen.act
           L == live \ {v}
           rest == [row EXCEPT ![v] = Blank]
           S == IF a = NoAct THEN {} ELSE Editions(a) \ {v}
           new == Reconnected(rest, a, v)
<1>1. /\ Found(c) /\ today' = today /\ live' = L /\ row' = new
  <2>1. /\ Found(c) /\ today' = today
        /\ Commit(L, SaveAccepted(L, rest, new), new, NoEnd, {})
    BY DEF Delete
  <2> QED
    BY <2>1, Accepted
<1>2. /\ row \in [Versions -> Row] /\ live \subseteq Versions /\ a \in Acts \cup {NoAct}
      /\ rest \in [Versions -> Row]
      /\ \A w \in Versions \ {v} : rest[w] = row[w]
  BY TableFacts, BlankType
<1>3. CASE v \notin live
  <2>1. a = NoAct
    BY <1>1, <1>3, TableFacts DEF Found
  <2>2. L = live /\ \A w \in live : new[w] = row[w]
    BY <1>2, <1>3, <2>1 DEF Reconnected
  <2>3. ASSUME NEW b \in Acts PROVE Flagged(EditionsOf(L, new, b), new, today)
    <3>1. EditionsOf(L, new, b) = EditionsOf(live, row, b)
      BY <2>2 DEF EditionsOf
    <3>2. \A w \in EditionsOf(live, row, b) : new[w] = row[w]
      BY <2>2 DEF EditionsOf
    <3> QED
      BY <3>1, <3>2, FlaggedSame DEF Flags
  <2> QED
    BY <1>1, <2>3 DEF Flags
<1>4. CASE v \in live
  <2>1. v \in Versions /\ row[v].act = a
    BY <1>1, <1>2, <1>4, Held
  <2>2. /\ \A w \in Versions : new[w].act = rest[w].act
        /\ \A w \in Versions : w \notin S => new[w] = rest[w]
    <3> HIDE DEF v, a, rest
    <3> QED
      BY <1>2, <2>1, ReconnectedRest
  <2>3. /\ \A w \in L : w \in Versions /\ w # v /\ new[w].act = row[w].act
        /\ \A w \in L : w \notin S => new[w] = row[w]
    BY <1>2, <2>2
  <2>4. ASSUME NEW b \in Acts PROVE Flagged(EditionsOf(L, new, b), new, today)
    <3>0. b # NoAct
      BY ActsAssumption
    <3>1. CASE b = a
      <4>1. EditionsOf(L, new, b) = Editions(b) \ {v}
        <5> HIDE DEF v, a, rest
        <5>1. \A w \in L : new[w].act = row[w].act
          BY <2>3
        <5> QED
          BY <5>1 DEF EditionsOf, Editions
      <4>2. Flagged(Editions(a) \ {v}, new, today)
        <5> HIDE DEF v, a, rest
        <5> QED
          BY <1>2, <2>1, <3>1, FlaggedReconnect
      <4> QED
        BY <3>1, <4>1, <4>2
    <3>2. CASE b # a
      <4>1. EditionsOf(L, new, b) = EditionsOf(live, row, b)
        BY <2>1, <2>3, <3>2 DEF EditionsOf
      <4>2. \A w \in EditionsOf(live, row, b) : w \in L /\ w \notin S
        BY <2>1, <3>2 DEF EditionsOf, Editions
      <4>3. \A w \in EditionsOf(live, row, b) : new[w] = row[w]
        BY <2>3, <4>2
      <4> QED
        BY <4>1, <4>3, FlaggedSame DEF Flags
    <3> QED
      BY <3>1, <3>2
  <2> QED
    BY <1>1, <2>4 DEF Flags
<1> QED
  BY <1>3, <1>4

LEMMA RelinkFlags ==
    ASSUME IInv, IInv', ~overwritten, ~overwritten', Flags, NEW c \in Commands, ~Stale(c),
           NEW q \in Requests, NEW a \in Acts \cup {NoAct}, Relink(c, q[1], q[2], a)
    PROVE  Flags'
<1> DEFINE f == q[1]
           e == q[2]
           v == cmd[c].v
           source == cmd[c].seen.act
           asked == Edited(c, f, e, a)
           leaving == IF e = Keep /\ source # NoAct
                      THEN [asked EXCEPT !.to = ExplicitEnd(row, Editions(source), v)] ELSE asked
           T == IF a = NoAct THEN {} ELSE Editions(a) \ {v}
           d == leaving.from
           closed == InsertBoundary(T, d)
           edited == Joined(leaving, T)
           moved == [closed EXCEPT ![v] = Written(@, Read(c), edited)]
           new == Reconnected(moved, source, v)
           end == [NoEnd EXCEPT ![v] = e]
           S == IF source = NoAct THEN {} ELSE Editions(source) \ {v}
           accepted == /\ SaveAccepted(live, row, closed)
                       /\ OneCurrent(live, moved)
                       /\ SaveAccepted(live, moved, new)
<1>1. /\ a # source /\ Found(c) /\ v \in live /\ today' = today
      /\ ValidDates(edited) /\ live' = live /\ row' = new
  <2>1. /\ a # source /\ Found(c) /\ v \in live /\ today' = today
        /\ ValidDates(edited) /\ \E odd : Commit(live, accepted, new, end, odd)
    BY DEF Relink
  <2> HIDE DEF accepted, new, end, edited
  <2> QED
    BY <2>1, Accepted
<1>2. /\ row \in [Versions -> Row] /\ live \subseteq Versions /\ today \in Dates
      /\ row \in [Versions -> RawRow] /\ v \in Versions /\ row[v] \in Row /\ source \in Acts \cup {NoAct}
  BY <1>1, TableFacts DEF IInv, TypeOK
<1>3. row[v].act = source /\ Read(c) = row[v]
  BY <1>1, Held
<1>4. /\ T \subseteq live /\ T \subseteq Versions /\ v \notin T
      /\ a # NoAct => T = EditionsOf(live, row, a)
      /\ a = NoAct => T = {}
  BY <1>1, <1>2, <1>3, TableFacts DEF Editions, EditionsOf
<1>5. asked \in RawRow /\ asked.act = a
  <2>1. Asked(asked, a, row[v].to, e)
    BY <1>1, RequestFacts, EditedFacts
  <2> QED
    BY <2>1 DEF Asked
<1> HIDE DEF asked, T
<1>6. leaving \in RawRow /\ leaving.act = a
  <2>1. CASE e = Keep /\ source # NoAct
    <3> DEFINE t == ExplicitEnd(row, Editions(source), v)
    <3>1. source \in Acts /\ v \in Editions(source)
      BY <1>1, <1>2, <1>3, <2>1 DEF Editions
    <3>2. t \in MaybeDate
      BY <3>1, ExplicitEndFacts
    <3>3. leaving = [asked EXCEPT !.to = t]
      BY <2>1
    <3> HIDE DEF t, leaving, f, e, v, source
    <3> QED
      BY <1>5, <3>2, <3>3 DEF RawRow
  <2>2. CASE ~(e = Keep /\ source # NoAct)
    BY <1>5, <2>2
  <2> QED
    BY <2>1, <2>2
<1> HIDE DEF leaving
<1>7. d \in MaybeDate
  BY <1>6 DEF RawRow
<1>8. /\ edited \in RawRow /\ edited.act = a /\ edited.from = d
      /\ a # NoAct => edited.cur = IsLatest(T, d)
  BY <1>2, <1>4, <1>6, JoinedFacts
<1> HIDE DEF edited
<1>9. edited \in Row
  BY <1>1, <1>8 DEF RawRow, Row
<1>10. /\ closed \in [Versions -> Row]
       /\ \A w \in Versions \ T : closed[w] = row[w]
       /\ Calmer(closed)
  BY <1>2, <1>4, <1>7, InsertFacts
<1> HIDE DEF closed
<1>11. moved = [closed EXCEPT ![v] = edited]
  <2>1. closed[v] = row[v]
    BY <1>2, <1>4, <1>10
  <2>2. Written(closed[v], Read(c), edited) = edited
    BY <1>2, <1>3, <1>8, <2>1, WrittenAll
  <2> QED
    BY <2>2
<1>12. /\ moved \in [Versions -> Row] /\ moved[v] = edited
       /\ \A w \in Versions \ {v} : moved[w] = closed[w]
  BY <1>2, <1>9, <1>10, <1>11
<1> HIDE DEF moved
<1>13. /\ \A w \in Versions : new[w].act = moved[w].act
       /\ \A w \in Versions : w \notin S => new[w] = moved[w]
  BY <1>2, <1>12, ReconnectedRest
<1>14. /\ source # NoAct => S = EditionsOf(live, row, source) \ {v}
       /\ source = NoAct => S = {}
  BY DEF Editions, EditionsOf
<1>15. source \in Acts => Flagged(S, new, today)
  <2> SUFFICES ASSUME source \in Acts PROVE Flagged(S, new, today)
    OBVIOUS
  <2>1. S = Editions(source) \ {v}
    BY ActsAssumption
  <2> HIDE DEF source, v, S
  <2> QED
    BY <1>2, <1>12, <2>1, FlaggedReconnect
<1> HIDE DEF new, S
<1>16. /\ new[v].act = a /\ \A w \in Versions \ {v} : new[w].act = row[w].act
  BY <1>2, <1>8, <1>10, <1>12, <1>13 DEF Calmer
<1>17. \A w \in Versions \ {v} : w \notin S => new[w] = closed[w]
  BY <1>12, <1>13
<1>18. ASSUME NEW b \in Acts PROVE Flagged(EditionsOf(live, new, b), new, today)
  <2>0. b # NoAct /\ Flagged(EditionsOf(live, row, b), row, today)
    BY ActsAssumption DEF Flags
  <2>1. CASE b = source
    <3>1. EditionsOf(live, new, b) = S
      BY <1>1, <1>2, <1>14, <1>16, <2>0, <2>1 DEF EditionsOf
    <3> QED
      BY <1>15, <2>1, <3>1
  <2>2. CASE b = a
    <3>1. EditionsOf(live, new, b) = T \cup {v}
      BY <1>1, <1>2, <1>4, <1>16, <2>0, <2>2 DEF EditionsOf
    <3>2. \A w \in T \cup {v} : w \notin S
      BY <1>1, <1>4, <1>14, <2>0, <2>2 DEF EditionsOf
    <3>3. new[v] = edited
      BY <1>2, <1>12, <1>13, <3>2
    <3>4. new[v].from = d /\ new[v].cur = IsLatest(T, d)
      BY <1>8, <2>0, <2>2, <3>3
    <3>5. \A w \in T : new[w] = InsertBoundary(T, d)[w]
      BY <1>4, <1>17, <3>2 DEF closed
    <3>6. Flagged(T, row, today) /\ v \in Versions \ T
      BY <1>2, <1>4, <2>0, <2>2
    <3>7. row \in [Versions -> Row] /\ today \in Dates /\ T \subseteq Versions
      BY <1>2, <1>4
    <3> HIDE DEF v, d
    <3>8. Flagged(T \cup {v}, new, today)
      BY <1>7, <3>4, <3>5, <3>6, <3>7, FlaggedJoin
    <3> QED
      BY <3>1, <3>8
  <2>3. CASE b # source /\ b # a
    <3>1. EditionsOf(live, new, b) = EditionsOf(live, row, b)
      BY <1>2, <1>3, <1>16, <2>3 DEF EditionsOf
    <3>2. \A w \in EditionsOf(live, row, b) : w \notin S /\ w \notin T /\ w # v
      BY <1>3, <1>4, <1>14, <2>3 DEF EditionsOf
    <3>3. \A w \in EditionsOf(live, row, b) : new[w] = row[w]
      BY <1>2, <1>10, <1>17, <3>2 DEF EditionsOf
    <3> QED
      BY <2>0, <3>1, <3>3, FlaggedSame
  <2> QED
    BY <2>1, <2>2, <2>3
<1> QED
  BY <1>1, <1>18 DEF Flags

(* A step that leaves the table alone, on the same day or a later one.     *)
LEMMA IdleFlags ==
    ASSUME IInv, ~overwritten, Flags, UNCHANGED <<live, row>>, today' = today \/ today' = today + 1
    PROVE  Flags'
<1> SUFFICES ASSUME NEW b \in Acts
             PROVE  Flagged(EditionsOf(live, row, b), row, today')
  BY DEF Flags
<1>1. Flagged(EditionsOf(live, row, b), row, today)
  BY DEF Flags
<1>2. /\ today \in Nat
      /\ \A w \in EditionsOf(live, row, b) : row[w].from \in Nat
  BY TableFacts, RowFields, DateFacts DEF IInv, TypeOK, EditionsOf
<1> QED
  BY <1>1, <1>2 DEF Flagged

LEMMA FlagsNext ==
    ASSUME IInv, IInv', ~overwritten', Flags, [Next]_vars
    PROVE  Flags'
<1>0. ~overwritten
  BY Remembered
<1>1. ASSUME NEW a \in Acts \cup {NoAct}, NEW d \in MaybeDate, Upload(a, d) PROVE Flags'
  BY <1>0, <1>1, UploadFlags
<1>2. ASSUME NEW c \in Commands, NEW v \in Versions, Load(c, v) PROVE Flags'
  BY <1>0, <1>2, IdleFlags DEF Load
<1>3. ASSUME NEW c \in Commands, NEW q \in Requests, Correct(c, q[1], q[2]) PROVE Flags'
  BY <1>0, <1>3, CorrectFlags
<1>4. ASSUME NEW c \in Commands, NEW q \in Requests, CorrectPending(c, q[1], q[2]) PROVE Flags'
  BY <1>0, <1>4, Remembered, CorrectPendingFlags
<1>5. ASSUME NEW c \in Commands, NEW q \in Requests, NEW a \in Acts \cup {NoAct},
             Relink(c, q[1], q[2], a)
      PROVE  Flags'
  BY <1>0, <1>5, Remembered, RelinkFlags
<1>6. ASSUME NEW c \in Commands, Delete(c) PROVE Flags'
  BY <1>0, <1>6, Remembered, DeleteFlags
<1>7. ASSUME NEW c \in Commands, Abort(c) PROVE Flags'
  BY <1>0, <1>7, IdleFlags DEF Abort
<1>8. CASE Midnight
  BY <1>0, <1>8, IdleFlags DEF Midnight
<1>9. CASE UNCHANGED vars
  BY <1>0, <1>9, IdleFlags DEF vars
<1> QED
  BY <1>1, <1>2, <1>3, <1>4, <1>5, <1>6, <1>7, <1>8, <1>9 DEF Next

(* The last edition that has begun by a day serves that day.               *)
LEMMA FlagsServe ==
    ASSUME IInv, ~overwritten, Flags
    PROVE  ActServed
<1> SUFFICES ASSUME NEW a \in Acts, NEW day \in Dates, today <= day, Begun(a, day) # {},
                    Latest(a, day) \cap (ended \cup stray) = {}
             PROVE  \E v \in Editions(a) : InForce(v, day)
  BY DEF ActServed
<1> DEFINE S == Editions(a)
           B == Begun(a, day)
<1>0. /\ \A w \in B : w \in S /\ row[w].from <= day
      /\ \A w \in S : row[w].from <= day => w \in B
      /\ B # {}
  BY DEF Begun
<1>1. /\ S \subseteq live /\ S \subseteq Versions /\ a # NoAct
      /\ \A w \in S : /\ row[w].from \in MaybeDate /\ row[w].to \in MaybeDate
                      /\ row[w].cur \in BOOLEAN /\ row[w].act = a
                      /\ row[w].from \in Nat /\ row[w].to \in Nat
      /\ day \in Nat /\ today \in Nat /\ None <= day /\ None \in Nat
  <2>1. S \subseteq live /\ S \subseteq Versions /\ a # NoAct /\ \A w \in S : row[w].act = a
    BY TableFacts, ActsAssumption DEF Editions
  <2>2. \A w \in S : row[w].from \in MaybeDate /\ row[w].to \in MaybeDate /\ row[w].cur \in BOOLEAN
    BY <2>1, TableFacts, RowFields
  <2>3. day \in Nat /\ today \in Nat /\ day >= 1
    BY BoundAssumption DEF IInv, TypeOK, Dates
  <2>4. None \in Nat /\ None <= day
    BY <2>3 DEF None
  <2> HIDE DEF S
  <2> QED
    BY <2>1, <2>2, <2>3, <2>4, DateFacts
<1>2. Starts(row, B) /\ Starts(row, S)
  BY <1>0, <1>1 DEF Starts
<1>3. PICK v \in B : \A w \in B : ~Precedes(row, v, w)
  <2> HIDE DEF S, B
  <2>1. B \subseteq Versions
    BY <1>0, <1>1
  <2> QED
    BY <1>0, <1>2, <2>1, LastExists
<1>4. \A w \in B : row[w].from <= row[v].from
  <2> HIDE DEF S, B
  <2> QED
    BY <1>0, <1>1, <1>3 DEF Precedes
<1>5. \A w \in B : row[w].from = row[v].from => w \notin ended \cup stray
  BY <1>4 DEF Latest
<1> HIDE DEF B
<1>6. CASE row[v].from # None
  <2>1. row[v].to = SuccessorStart(row, S, v)
    BY <1>0, <1>1, <1>3, <1>5, <1>6 DEF IInv, Adjacent
  <2>2. SuccessorStart(row, S, v) = None \/ day < SuccessorStart(row, S, v)
    <3> SUFFICES ASSUME SuccessorStart(row, S, v) # None
                 PROVE  day < SuccessorStart(row, S, v)
      OBVIOUS
    <3>0. v \in S
      BY <1>0, <1>3
    <3> HIDE DEF S
    <3>1. PICK w \in S : Precedes(row, v, w) /\ row[w].from = SuccessorStart(row, S, v)
      BY <1>1, <1>2, <1>6, <3>0, SuccessorChar
    <3>2. ~(row[w].from <= day)
      BY <1>0, <1>3, <3>1
    <3> QED
      BY <1>1, <3>1, <3>2
  <2>3. v \in S /\ row[v].from <= day
    BY <1>0, <1>3
  <2> QED
    BY <1>6, <2>1, <2>2, <2>3 DEF InForce
<1>7. CASE row[v].from = None
  <2>1. \A w \in B : w \in S /\ row[w].from = None /\ w \notin ended \cup stray
    <3>1. ASSUME NEW w \in B PROVE w \in S /\ row[w].from = None
      <4>1. row[w].from <= None /\ w \in S
        BY <1>0, <1>4, <1>7, <3>1
      <4> HIDE DEF S
      <4> QED
        BY <1>1, <4>1 DEF None
    <3> QED
      BY <1>5, <1>7, <3>1
  <2>2. ASSUME NEW w \in B, row[w].to # None PROVE InForce(w, day)
    <3>1. row[w].to = SuccessorStart(row, S, w)
      <4>1. Derived(live, row, w)
        BY <1>1, <2>1, <2>2 DEF IInv, EndFacts
      <4>2. row[w].act = a
        BY <1>1, <2>1
      <4>3. {u \in live : row[u].act = row[w].act} = S
        BY <4>2 DEF Editions
      <4> QED
        BY <1>1, <4>1, <4>2, <4>3 DEF Derived
    <3> DEFINE D == {row[u].from : u \in After(row, S, w)}
    <3>2. D \subseteq MaybeDate /\ row[w].to = Earliest(D)
      <4> HIDE DEF S
      <4>1. D \subseteq MaybeDate
        BY <1>1 DEF After
      <4> QED
        BY <3>1, <4>1 DEF SuccessorStart
    <3>3. row[w].to \in D
      <4> HIDE DEF D
      <4> QED
        BY <2>2, <3>2, EarliestLeast
    <3>4. PICK u \in S : row[u].from = row[w].to
      BY <3>3 DEF After
    <3>5. ~(row[u].from <= day)
      BY <1>0, <2>1, <2>2, <3>4
    <3>6. day < row[w].to
      <4> HIDE DEF S
      <4> QED
        BY <1>1, <3>4, <3>5
    <3>7. row[w].from <= day
      BY <1>0
    <3> QED
      BY <2>2, <3>6, <3>7 DEF InForce
  <2>3. CASE row[v].to # None
    BY <1>0, <1>3, <2>2, <2>3
  <2>4. CASE row[v].to = None
    <3>1. \A w \in S : row[w].from <= today => w \in B
      <4> HIDE DEF S
      <4> QED
        BY <1>0, <1>1
    <3>2. EditionsOf(live, row, a) = S
      BY DEF EditionsOf, Editions
    <3>3. PICK w \in S : row[w].cur
      <4>1. Flagged(S, row, today)
        BY <3>2 DEF Flags
      <4>2. \A x \in S : row[x].from <= today => row[x].from = None
        BY <2>1, <3>1
      <4>3. v \in S
        BY <1>0, <1>3
      <4> QED
        BY <1>7, <2>4, <4>1, <4>2, <4>3 DEF Flagged
    <3>4. row[w].from <= today
      BY <3>2, <3>3 DEF Flags, Flagged
    <3>5. w \in B
      BY <3>1, <3>4
    <3>6. CASE row[w].to = None
      <4>1. row[w].from <= day
        BY <1>0, <3>5
      <4> QED
        BY <3>3, <3>6, <4>1 DEF InForce
    <3>7. CASE row[w].to # None
      BY <2>2, <3>5, <3>7
    <3> QED
      BY <3>6, <3>7
  <2> QED
    BY <2>3, <2>4
<1> QED
  BY <1>6, <1>7

(* From today on a search on a day by which an act has begun finds an      *)
(* edition of it in force, unless a request ended one of the latest that   *)
(* have begun or one of them is a stray: whatever uploads, corrections,    *)
(* relinkings and deletions make of the ends and of the flags, no other    *)
(* act is hidden until a pending edition is written from an outdated read. *)
THEOREM ActsAreServed == Spec => []ActServed
<1> DEFINE Kept == overwritten \/ Flags
<1>1. Init => Kept
  BY DEF Init, Flags, Flagged, EditionsOf
<1>2. IInv /\ IInv' /\ Kept /\ [Next]_vars => Kept'
  <2> SUFFICES ASSUME IInv, IInv', Kept, [Next]_vars, ~overwritten' PROVE Flags'
    OBVIOUS
  <2>1. Flags
    BY Remembered
  <2> QED
    BY <2>1, FlagsNext
<1>3. IInv /\ Kept => ActServed
  <2>1. overwritten => ActServed
    BY DEF ActServed
  <2> QED
    BY <2>1, FlagsServe
<1> HIDE DEF Kept
<1> QED
  BY <1>1, <1>2, <1>3, TimelineInvariant, PTL DEF Spec
=============================================================================
