----------------------------- MODULE FiniteSums -----------------------------
(***************************************************************************)
(* Sums over finite sets.  MapThenSumSet is a fold, that is, a function       *)
(* defined by recursion over the subsets of its set; the lemmas below derive  *)
(* what the budget needs of it from the one fact that finite subsets are      *)
(* well founded under inclusion.                                              *)
(***************************************************************************)
EXTENDS FiniteSetTheorems, TLAPS

\* The element the fold takes next.
First(s) == CHOOSE x \in s : TRUE

\* g gives every subset of S its sum of f, as the fold computes it.
SumsOf(g, f, S) ==
    g = [s \in SUBSET S |-> IF s = {} THEN 0 ELSE f[First(s)] + g[s \ {First(s)}]]

Total(f, S) == (CHOOSE g : SumsOf(g, f, S))[S]

-----------------------------------------------------------------------------

\* A set of subsets of a finite set has a minimal member: induction over finite sets.
LEMMA MinimalSet ==
    ASSUME NEW S, IsFiniteSet(S), NEW B \in SUBSET (SUBSET S), B # {}
    PROVE  \E T \in B : \A U \in SUBSET T : U # T => U \notin B
<1>1. IsWellFoundedOn(StrictSubsetOrdering(S), SUBSET S)
  BY FS_StrictSubsetOrderingWellFounded, FS_FiniteSubsetsOfFinite
<1>2. PICK T \in B : \A U \in B : <<U, T>> \notin StrictSubsetOrdering(S)
  BY <1>1, WFMin
<1>3. ASSUME NEW U \in SUBSET T, U # T, U \in B PROVE FALSE
  <2>1. U \in SUBSET S /\ T \in SUBSET S
    BY <1>3
  <2>2. <<U, T>> \in StrictSubsetOrdering(S)
    BY <2>1, <1>3 DEF StrictSubsetOrdering
  <2> QED
    BY <2>2, <1>2, <1>3
<1> QED
  BY <1>3

\* Two tables of sums agree wherever both are defined.
LEMMA SumsUnique ==
    ASSUME NEW f, NEW S, NEW T, NEW g, NEW h, IsFiniteSet(S),
           SumsOf(g, f, S), SumsOf(h, f, T)
    PROVE  \A s \in SUBSET S : s \in SUBSET T => g[s] = h[s]
<1> DEFINE B == {s \in SUBSET S : s \in SUBSET T /\ g[s] # h[s]}
<1>1. SUFFICES ASSUME B # {} PROVE FALSE
  OBVIOUS
<1>2. PICK s \in B : \A u \in SUBSET s : u # s => u \notin B
  <2>1. B \in SUBSET (SUBSET S)
    OBVIOUS
  <2> HIDE DEF B
  <2> QED
    BY <1>1, <2>1, MinimalSet
<1>3. s \in SUBSET S /\ s \in SUBSET T /\ g[s] # h[s]
  BY <1>2
<1>4. /\ g[s] = IF s = {} THEN 0 ELSE f[First(s)] + g[s \ {First(s)}]
      /\ h[s] = IF s = {} THEN 0 ELSE f[First(s)] + h[s \ {First(s)}]
  BY <1>3 DEF SumsOf
<1>5. s # {} /\ First(s) \in s
  BY <1>3, <1>4 DEF First
<1>6. g[s \ {First(s)}] = h[s \ {First(s)}]
  BY <1>2, <1>3, <1>5
<1> QED
  BY <1>3, <1>4, <1>5, <1>6

\* Every finite set has a table of sums.
LEMMA SumsExist ==
    ASSUME NEW f, NEW S, IsFiniteSet(S)
    PROVE  \E g : SumsOf(g, f, S)
<1> DEFINE B == {T \in SUBSET S : ~ \E g : SumsOf(g, f, T)}
<1>1. SUFFICES ASSUME B # {} PROVE FALSE
  BY <1>1
<1>2. PICK T \in B : \A U \in SUBSET T : U # T => U \notin B
  <2>1. B \in SUBSET (SUBSET S)
    OBVIOUS
  <2> HIDE DEF B
  <2> QED
    BY <1>1, <2>1, MinimalSet
<1> DEFINE G(U) == CHOOSE g : SumsOf(g, f, U)
           H == [s \in SUBSET T |-> IF s = {} THEN 0
                                    ELSE f[First(s)] + G(s \ {First(s)})[s \ {First(s)}]]
<1>3. ASSUME NEW U \in SUBSET T, U # T PROVE SumsOf(G(U), f, U) /\ IsFiniteSet(U)
  <2>1. U \in SUBSET S
    BY <1>2, <1>3
  <2>2. \E g : SumsOf(g, f, U)
    BY <1>2, <1>3, <2>1
  <2>3. SumsOf(G(U), f, U)
    BY <2>2
  <2> QED
    BY <2>1, <2>3, FS_Subset
<1>4. ASSUME NEW U \in SUBSET T, U # T PROVE H[U] = G(U)[U]
  <2>1. SumsOf(G(U), f, U) /\ IsFiniteSet(U)
    BY <1>3, <1>4
  <2>2. G(U)[U] = IF U = {} THEN 0 ELSE f[First(U)] + G(U)[U \ {First(U)}]
    <3> HIDE DEF G
    <3> QED
      BY <2>1 DEF SumsOf
  <2>3. H[U] = IF U = {} THEN 0 ELSE f[First(U)] + G(U \ {First(U)})[U \ {First(U)}]
    BY <1>4
  <2>4. CASE U # {}
    <3> DEFINE V == U \ {First(U)}
    <3>1. First(U) \in U
      BY <2>4 DEF First
    <3>2. V \in SUBSET T /\ V # T /\ V \in SUBSET U
      BY <3>1, <1>4
    <3>3. SumsOf(G(V), f, V)
      BY <3>2, <1>3
    <3>4. G(U)[V] = G(V)[V]
      <4> HIDE DEF G, V
      <4>1. V \in SUBSET V
        OBVIOUS
      <4> QED
        BY <4>1, <2>1, <3>2, <3>3, SumsUnique
    <3> QED
      BY <2>2, <2>3, <2>4, <3>4
  <2> QED
    BY <2>2, <2>3, <2>4
<1>5. SumsOf(H, f, T)
  <2>1. ASSUME NEW s \in SUBSET T, s # {}
        PROVE  G(s \ {First(s)})[s \ {First(s)}] = H[s \ {First(s)}]
    <3>1. First(s) \in s
      BY <2>1 DEF First
    <3>2. s \ {First(s)} \in SUBSET T /\ s \ {First(s)} # T
      BY <3>1
    <3> HIDE DEF G, H
    <3> QED
      BY <3>2, <1>4
  <2>2. H = [s \in SUBSET T |-> IF s = {} THEN 0
                                ELSE f[First(s)] + G(s \ {First(s)})[s \ {First(s)}]]
    OBVIOUS
  <2> HIDE DEF G, H
  <2> QED
    BY <2>1, <2>2 DEF SumsOf
<1> QED
  BY <1>2, <1>5

\* Every table of sums has the total of its set.
LEMMA SumsTotal ==
    ASSUME NEW f, NEW S, IsFiniteSet(S), NEW g, SumsOf(g, f, S)
    PROVE  g[S] = Total(f, S)
<1> DEFINE h == CHOOSE k : SumsOf(k, f, S)
<1>1. SumsOf(h, f, S) /\ Total(f, S) = h[S]
  BY DEF Total
<1>2. S \in SUBSET S
  OBVIOUS
<1> HIDE DEF h
<1> QED
  BY <1>1, <1>2, SumsUnique

\* A finite set of naturals has a largest member.
LEMMA LargestExists ==
    ASSUME NEW S \in SUBSET Nat, IsFiniteSet(S), S # {}
    PROVE  \E m \in S : \A n \in S : m >= n
<1> DEFINE B == {T \in SUBSET S : T # {} /\ \A m \in T : \E n \in T : ~ (m >= n)}
<1>1. SUFFICES ASSUME B # {} PROVE FALSE
  BY <1>1
<1>2. PICK T \in B : \A U \in SUBSET T : U # T => U \notin B
  <2>1. B \in SUBSET (SUBSET S)
    OBVIOUS
  <2> HIDE DEF B
  <2> QED
    BY <1>1, <2>1, MinimalSet
<1>3. T \in SUBSET S /\ T # {} /\ \A m \in T : \E n \in T : ~ (m >= n)
  BY <1>2
<1>4. PICK e \in T : TRUE
  BY <1>3
<1> DEFINE U == T \ {e}
<1>5. U \in SUBSET T /\ U # T /\ U \in SUBSET S /\ e \in Nat
  BY <1>3, <1>4
<1>6. U # {}
  BY <1>3, <1>4, <1>5
<1>7. PICK m \in U : \A n \in U : m >= n
  BY <1>2, <1>5, <1>6
<1>8. m \in Nat /\ m \in T
  BY <1>5, <1>7
<1>9. \A n \in T : n \in U \/ n = e
  OBVIOUS
<1>10. CASE m >= e
  BY <1>3, <1>7, <1>8, <1>9, <1>10
<1>11. CASE ~ (m >= e)
  <2>1. \A n \in T : n \in Nat
    BY <1>3
  <2>2. \A n \in T : e >= n
    BY <2>1, <1>5, <1>7, <1>8, <1>9, <1>11
  <2> QED
    BY <2>2, <1>3, <1>4
<1> QED
  BY <1>10, <1>11

\* The recursion equation of a sum.
LEMMA TotalEquation ==
    ASSUME NEW f, NEW S, IsFiniteSet(S)
    PROVE  /\ Total(f, {}) = 0
           /\ S # {} => First(S) \in S /\ Total(f, S) = f[First(S)] + Total(f, S \ {First(S)})
<1> DEFINE G(U) == CHOOSE g : SumsOf(g, f, U)
<1>1. ASSUME NEW U, IsFiniteSet(U)
      PROVE  /\ SumsOf(G(U), f, U) /\ Total(f, U) = G(U)[U]
             /\ Total(f, U) = IF U = {} THEN 0 ELSE f[First(U)] + G(U)[U \ {First(U)}]
  <2>1. \E g : SumsOf(g, f, U)
    BY <1>1, SumsExist
  <2>2. SumsOf(G(U), f, U) /\ Total(f, U) = G(U)[U]
    BY <2>1 DEF Total
  <2> HIDE DEF G
  <2> QED
    BY <2>2 DEF SumsOf
<1>2. Total(f, {}) = 0
  BY <1>1, FS_EmptySet
<1>3. ASSUME S # {}
      PROVE  First(S) \in S /\ Total(f, S) = f[First(S)] + Total(f, S \ {First(S)})
  <2> DEFINE V == S \ {First(S)}
  <2>1. First(S) \in S
    BY <1>3 DEF First
  <2>2. IsFiniteSet(V) /\ V \in SUBSET S /\ V \in SUBSET V
    BY FS_RemoveElement
  <2>3. SumsOf(G(S), f, S) /\ SumsOf(G(V), f, V)
    BY <1>1, <2>2
  <2>4. G(S)[V] = G(V)[V]
    <3> HIDE DEF G, V
    <3> QED
      BY <2>2, <2>3, SumsUnique
  <2>5. Total(f, V) = G(V)[V]
    BY <1>1, <2>2
  <2>6. Total(f, S) = f[First(S)] + G(S)[V]
    BY <1>1, <1>3
  <2> QED
    BY <2>1, <2>4, <2>5, <2>6
<1> QED
  BY <1>2, <1>3

\* A sum of naturals is a natural.
LEMMA TotalType ==
    ASSUME NEW D, NEW f \in [D -> Nat], NEW S \in SUBSET D, IsFiniteSet(S)
    PROVE  Total(f, S) \in Nat
<1> DEFINE B == {T \in SUBSET S : Total(f, T) \notin Nat}
<1>1. SUFFICES ASSUME B # {} PROVE FALSE
  BY <1>1
<1>2. PICK T \in B : \A U \in SUBSET T : U # T => U \notin B
  <2>1. B \in SUBSET (SUBSET S)
    OBVIOUS
  <2> HIDE DEF B
  <2> QED
    BY <1>1, <2>1, MinimalSet
<1>3. T \in SUBSET S /\ IsFiniteSet(T) /\ Total(f, T) \notin Nat
  BY <1>2, FS_Subset
<1>4. T # {}
  BY <1>3, TotalEquation
<1>5. First(T) \in T /\ Total(f, T) = f[First(T)] + Total(f, T \ {First(T)})
  BY <1>3, <1>4, TotalEquation
<1>6. Total(f, T \ {First(T)}) \in Nat
  BY <1>2, <1>3, <1>5
<1>7. f[First(T)] \in Nat
  BY <1>3, <1>5
<1> QED
  BY <1>3, <1>5, <1>6, <1>7

\* Any element can be taken out of a sum.
LEMMA TotalRemove ==
    ASSUME NEW D, NEW f \in [D -> Nat], NEW S \in SUBSET D, IsFiniteSet(S), NEW e \in S
    PROVE  Total(f, S) = f[e] + Total(f, S \ {e})
<1> DEFINE Removable(T, y) == Total(f, T) = f[y] + Total(f, T \ {y})
           B == {T \in SUBSET S : \E y \in T : ~Removable(T, y)}
<1>1. SUFFICES ASSUME B # {} PROVE FALSE
  BY <1>1
<1>2. PICK T \in B : \A U \in SUBSET T : U # T => U \notin B
  <2>1. B \in SUBSET (SUBSET S)
    OBVIOUS
  <2> HIDE DEF B
  <2> QED
    BY <1>1, <2>1, MinimalSet
<1>3. T \in SUBSET S /\ IsFiniteSet(T)
  BY <1>2, FS_Subset
<1>4. PICK y \in T : ~Removable(T, y)
  BY <1>2
<1> DEFINE x == First(T)
<1>5. x \in T /\ Removable(T, x)
  BY <1>3, <1>4, TotalEquation
<1>6. ASSUME NEW U \in SUBSET T, U # T, NEW z \in U PROVE Removable(U, z)
  <2>1. U \in SUBSET S /\ U \notin B
    BY <1>2, <1>3, <1>6
  <2> QED
    BY <2>1, <1>6
<1>7. y # x
  BY <1>4, <1>5
<1>8. Removable(T \ {x}, y) /\ Removable(T \ {y}, x)
  <2> HIDE DEF Removable, x
  <2> QED
    BY <1>4, <1>5, <1>6, <1>7
<1>9. (T \ {x}) \ {y} = (T \ {y}) \ {x}
  OBVIOUS
<1>10. Total(f, (T \ {x}) \ {y}) \in Nat /\ f[x] \in Nat /\ f[y] \in Nat
  <2>1. (T \ {x}) \ {y} \in SUBSET D /\ x \in D /\ y \in D
    BY <1>3, <1>4, <1>5
  <2>2. IsFiniteSet((T \ {x}) \ {y})
    BY <1>3, FS_RemoveElement
  <2> HIDE DEF x
  <2> QED
    BY <2>1, <2>2, TotalType
<1>11. f[x] + (f[y] + Total(f, (T \ {x}) \ {y})) = f[y] + (f[x] + Total(f, (T \ {y}) \ {x}))
  <2> HIDE DEF x
  <2>1. \A k, m, n \in Nat : k + (m + n) = m + (k + n)
    OBVIOUS
  <2>2. Total(f, (T \ {x}) \ {y}) = Total(f, (T \ {y}) \ {x})
    BY <1>9
  <2> QED
    BY <2>1, <2>2, <1>10
<1> QED
  BY <1>4, <1>5, <1>8, <1>11

\* A smaller summand over a smaller set has a smaller sum.
LEMMA TotalMonotone ==
    ASSUME NEW D, NEW f \in [D -> Nat], NEW g \in [D -> Nat], NEW T \in SUBSET D,
           IsFiniteSet(T), NEW S \in SUBSET T, \A x \in S : f[x] <= g[x]
    PROVE  Total(f, S) <= Total(g, T)
<1> DEFINE B == {U \in SUBSET T : ~ (Total(f, U \cap S) <= Total(g, U))}
<1>1. SUFFICES ASSUME B # {} PROVE FALSE
  <2>1. T \cap S = S
    OBVIOUS
  <2> QED
    BY <1>1, <2>1
<1>2. PICK U \in B : \A V \in SUBSET U : V # U => V \notin B
  <2>1. B \in SUBSET (SUBSET T)
    OBVIOUS
  <2> HIDE DEF B
  <2> QED
    BY <1>1, <2>1, MinimalSet
<1>3. U \in SUBSET T /\ IsFiniteSet(U) /\ ~ (Total(f, U \cap S) <= Total(g, U))
  BY <1>2, FS_Subset
<1>4. U # {}
  <2>1. Total(f, {}) = 0 /\ Total(g, {}) = 0
    BY TotalEquation, FS_EmptySet
  <2> QED
    BY <2>1, <1>3
<1>5. PICK e \in U : TRUE
  BY <1>4
<1> DEFINE V == U \ {e}
<1>6. Total(f, V \cap S) <= Total(g, V)
  <2>1. V \in SUBSET U /\ V # U /\ V \in SUBSET T /\ V \notin B
    BY <1>2, <1>3, <1>5
  <2> QED
    BY <2>1
<1>7. /\ Total(g, U) = g[e] + Total(g, V)
      /\ Total(g, V) \in Nat /\ g[e] \in Nat /\ f[e] \in Nat
      /\ Total(f, V \cap S) \in Nat
  <2>1. U \in SUBSET D /\ V \in SUBSET D /\ V \cap S \in SUBSET D /\ e \in D
    BY <1>3, <1>5
  <2>2. IsFiniteSet(V) /\ IsFiniteSet(V \cap S)
    BY <1>3, FS_RemoveElement, FS_Intersection
  <2> HIDE DEF V
  <2>3. Total(g, V) \in Nat /\ Total(f, V \cap S) \in Nat
    BY <2>1, <2>2, TotalType
  <2>4. Total(g, U) = g[e] + Total(g, V)
    BY <2>1, <1>3, <1>5, TotalRemove DEF V
  <2> QED
    BY <2>1, <2>3, <2>4
<1>8. CASE e \in S
  <2>1. /\ U \cap S \in SUBSET D /\ e \in U \cap S /\ (U \cap S) \ {e} = V \cap S
        /\ IsFiniteSet(U \cap S)
    BY <1>3, <1>8, FS_Intersection
  <2>2. Total(f, U \cap S) = f[e] + Total(f, V \cap S)
    BY <2>1, TotalRemove
  <2>3. f[e] <= g[e]
    BY <1>8
  <2> HIDE DEF V
  <2> QED
    BY <1>3, <1>6, <1>7, <2>2, <2>3
<1>9. CASE e \notin S
  <2>1. U \cap S = V \cap S
    BY <1>9
  <2> HIDE DEF V
  <2>2. Total(f, V \cap S) <= Total(g, U)
    BY <1>6, <1>7
  <2> QED
    BY <1>3, <2>1, <2>2
<1> QED
  BY <1>8, <1>9

=============================================================================
