------------------------- MODULE BoundedSumsProofs -------------------------
(***************************************************************************)
(* Total(f, D) counts units, so facts about sums are facts about the       *)
(* cardinality of finite sets, and need no induction.                      *)
(***************************************************************************)
EXTENDS BoundedSums, FiniteSetTheorems, TLAPS

LEMMA UnitsFinite ==
    ASSUME NEW f, NEW D, IsFiniteSet(D)
    PROVE  IsFiniteSet(Units(f, D))
<1>1. IsFiniteSet(1..Capacity)
  BY CapacityIsNat, FS_Interval
<1>2. IsFiniteSet(D \X (1..Capacity))
  BY <1>1, FS_Product
<1>3. Units(f, D) \in SUBSET (D \X (1..Capacity))
  BY DEF Units
<1> QED
  BY <1>2, <1>3, FS_Subset

LEMMA TotalType ==
    ASSUME NEW f, NEW D, IsFiniteSet(D)
    PROVE  Total(f, D) \in Nat
BY UnitsFinite, FS_CardinalityType DEF Total

LEMMA TotalCongruence ==
    ASSUME NEW f, NEW g, NEW D, \A d \in D : f[d] = g[d]
    PROVE  Total(f, D) = Total(g, D)
<1>1. Units(f, D) = Units(g, D)
  BY DEF Units
<1> QED
  BY <1>1 DEF Total

LEMMA TotalOfZeros ==
    ASSUME NEW f, NEW D, \A d \in D : f[d] = 0
    PROVE  Total(f, D) = 0
<1>1. Units(f, D) = {}
  BY CapacityIsNat DEF Units
<1> QED
  BY <1>1, FS_EmptySet DEF Total

LEMMA TotalSplit ==
    ASSUME NEW f, NEW A, NEW B, IsFiniteSet(A), IsFiniteSet(B), A \cap B = {}
    PROVE  Total(f, A \cup B) = Total(f, A) + Total(f, B)
<1>1. Units(f, A \cup B) = Units(f, A) \cup Units(f, B)
  BY DEF Units
<1>2. Units(f, A) \cap Units(f, B) = {}
  BY DEF Units
<1>3. IsFiniteSet(Units(f, A)) /\ IsFiniteSet(Units(f, B))
  BY UnitsFinite
<1>4. Total(f, A) \in Nat /\ Total(f, B) \in Nat
  BY TotalType
<1>5. Cardinality(Units(f, A) \cup Units(f, B))
        = Cardinality(Units(f, A)) + Cardinality(Units(f, B))
            - Cardinality(Units(f, A) \cap Units(f, B))
  BY <1>3, FS_Union
<1>6. Cardinality(Units(f, A) \cap Units(f, B)) = 0
  BY <1>2, FS_EmptySet
<1>7. Total(f, A \cup B) = Cardinality(Units(f, A) \cup Units(f, B))
  BY <1>1 DEF Total
<1>8. /\ Total(f, A) = Cardinality(Units(f, A))
      /\ Total(f, B) = Cardinality(Units(f, B))
  BY DEF Total
<1> QED
  BY <1>4, <1>5, <1>6, <1>7, <1>8

LEMMA TotalReplace ==
    ASSUME NEW f, NEW g, NEW D, NEW A, IsFiniteSet(D), A \subseteq D,
           \A d \in D \ A : f[d] = g[d]
    PROVE  /\ Total(f, A) <= Total(f, D)
           /\ Total(g, D) = Total(f, D) - Total(f, A) + Total(g, A)
<1> DEFINE R == D \ A
<1>1. IsFiniteSet(A) /\ IsFiniteSet(R) /\ A \cap R = {} /\ D = A \cup R
  BY FS_Subset
<1>2. Total(f, D) = Total(f, A) + Total(f, R)
  BY <1>1, TotalSplit
<1>3. Total(g, D) = Total(g, A) + Total(g, R)
  BY <1>1, TotalSplit
<1>4. Total(f, R) = Total(g, R)
  BY TotalCongruence
<1>5. /\ Total(f, A) \in Nat /\ Total(f, R) \in Nat
      /\ Total(g, A) \in Nat /\ Total(g, R) \in Nat
  BY <1>1, TotalType
<1> HIDE DEF R
<1> QED
  BY <1>2, <1>3, <1>4, <1>5

LEMMA TotalMonotone ==
    ASSUME NEW f, NEW g, NEW D, IsFiniteSet(D),
           \A d \in D : f[d] \in Int /\ g[d] \in Int /\ f[d] <= g[d]
    PROVE  Total(f, D) <= Total(g, D)
<1>1. Units(f, D) \in SUBSET Units(g, D)
  <2> SUFFICES ASSUME NEW u \in Units(f, D) PROVE u \in Units(g, D)
    OBVIOUS
  <2>1. u \in D \X (1..Capacity) /\ u[2] <= f[u[1]]
    BY DEF Units
  <2>2. u[1] \in D /\ u[2] \in Int
    BY <2>1, CapacityIsNat
  <2>3. u[2] <= g[u[1]]
    BY <2>1, <2>2
  <2> QED
    BY <2>1, <2>3 DEF Units
<1> QED
  BY <1>1, UnitsFinite, FS_Subset DEF Total

LEMMA TotalOfOne ==
    ASSUME NEW f, NEW x, f[x] \in 0..Capacity
    PROVE  Total(f, {x}) = f[x]
<1>1. Units(f, {x}) = {x} \X (1..f[x])
  BY CapacityIsNat DEF Units
<1>2. IsFiniteSet({x}) /\ Cardinality({x}) = 1
  BY FS_Singleton
<1>3. f[x] \in Nat
  BY CapacityIsNat
<1>4. IsFiniteSet(1..f[x]) /\ Cardinality(1..f[x]) = f[x]
  <2>1. 1 \in Int /\ f[x] \in Int
    BY <1>3
  <2>2. IsFiniteSet(1..f[x]) /\ Cardinality(1..f[x]) = IF 1 > f[x] THEN 0 ELSE f[x] - 1 + 1
    BY ONLY <2>1, FS_Interval
  <2> QED
    BY <1>3, <2>2
<1>5. Cardinality({x} \X (1..f[x])) = Cardinality({x}) * Cardinality(1..f[x])
  BY <1>2, <1>4, FS_Product
<1>6. PICK n \in Nat : n = f[x]
  BY <1>3
<1>7. Cardinality({x}) * Cardinality(1..f[x]) = 1 * n
  BY <1>2, <1>4, <1>6
<1>8. 1 * n = n
  OBVIOUS
<1> QED
  BY <1>1, <1>5, <1>6, <1>7, <1>8 DEF Total

LEMMA TotalOfEmpty == ASSUME NEW f PROVE Total(f, {}) = 0
BY TotalOfZeros

-----------------------------------------------------------------------------
(* Induction on a finite set, with a set of good subsets in the place of a   *)
(* predicate: what is proved is the membership of S in it.                   *)

LEMMA SmallestBad ==
    ASSUME NEW S, IsFiniteSet(S), NEW Bad, Bad \subseteq SUBSET S, Bad # {}
    PROVE  \E T \in Bad : \A x \in T : T \ {x} \notin Bad
<1>1. IsWellFoundedOn(StrictSubsetOrdering(S), FiniteSubsetsOf(S))
  BY FS_StrictSubsetOrderingWellFounded
<1>2. FiniteSubsetsOf(S) = SUBSET S
  BY FS_FiniteSubsetsOfFinite
<1>3. \E T \in Bad : \A U \in Bad : ~(<<U, T>> \in StrictSubsetOrdering(S))
  BY <1>1, <1>2, WFMin
<1>4. PICK T \in Bad : \A U \in Bad : ~(<<U, T>> \in StrictSubsetOrdering(S))
  BY <1>3
<1>5. ASSUME NEW x \in T, T \ {x} \in Bad PROVE FALSE
  <2>1. T \in SUBSET S /\ T \ {x} \in SUBSET S
    OBVIOUS
  <2>2. T \ {x} \subseteq T /\ T \ {x} # T
    OBVIOUS
  <2>3. <<T \ {x}, T>> \in StrictSubsetOrdering(S)
    BY <2>1, <2>2 DEF StrictSubsetOrdering
  <2> QED
    BY <1>4, <1>5, <2>3
<1> QED
  BY <1>5

LEMMA FiniteInduction ==
    ASSUME NEW S, IsFiniteSet(S), NEW Good, {} \in Good,
           \A T \in SUBSET S : \A x \in S \ T : T \in Good => T \cup {x} \in Good
    PROVE  S \in Good
<1> DEFINE Bad == (SUBSET S) \ Good
<1>1. SUFFICES ASSUME S \notin Good PROVE FALSE
  OBVIOUS
<1>2. Bad \subseteq SUBSET S /\ Bad # {}
  BY <1>1
<1>3. PICK T \in Bad : \A x \in T : T \ {x} \notin Bad
  <2> HIDE DEF Bad
  <2> QED
    BY <1>2, SmallestBad
<1>4. T # {}
  BY <1>3
<1>5. PICK x \in T : TRUE
  BY <1>4
<1>6. T \ {x} \in Good /\ T \ {x} \in SUBSET S /\ x \in S \ (T \ {x})
  BY <1>3, <1>5
<1>7. (T \ {x}) \cup {x} \in Good
  BY <1>6
<1>8. (T \ {x}) \cup {x} = T
  BY <1>5
<1> QED
  BY <1>3, <1>7, <1>8

LEMMA LargestExists ==
    ASSUME NEW S, IsFiniteSet(S), S \subseteq Nat, S # {}
    PROVE  \E m \in S : \A s \in S : s <= m
<1> DEFINE Good == {T \in SUBSET S : T # {} => \E m \in T : \A s \in T : s <= m}
<1>1. {} \in Good
  OBVIOUS
<1>2. ASSUME NEW T \in SUBSET S, NEW x \in S \ T, T \in Good
      PROVE  T \cup {x} \in Good
  <2>1. CASE T = {}
    <3>1. \A s \in T \cup {x} : s <= x
      BY <2>1
    <3> QED
      BY <3>1
  <2>2. CASE T # {}
    <3>1. PICK m \in T : \A s \in T : s <= m
      BY <1>2, <2>2
    <3> DEFINE n == IF x <= m THEN m ELSE x
    <3>2. n \in T \cup {x} /\ \A s \in T \cup {x} : s <= n
      BY <3>1
    <3> QED
      BY <3>2
  <2> QED
    BY <2>1, <2>2
<1>3. S \in Good
  <2> HIDE DEF Good
  <2> QED
    BY <1>1, <1>2, FiniteInduction
<1> QED
  BY <1>3

-----------------------------------------------------------------------------
(* Sums of sums *)

LEMMA TotalAddOne ==
    ASSUME NEW f, NEW T, IsFiniteSet(T), NEW x, x \notin T, f[x] \in 0..Capacity
    PROVE  Total(f, T \cup {x}) = Total(f, T) + f[x]
<1>1. IsFiniteSet({x}) /\ T \cap {x} = {}
  BY FS_Singleton
<1> QED
  BY <1>1, TotalSplit, TotalOfOne

LEMMA TotalOfSums ==
    ASSUME NEW f, NEW g, NEW h, NEW D, IsFiniteSet(D),
           \A d \in D : /\ f[d] \in 0..Capacity
                        /\ g[d] \in 0..Capacity
                        /\ h[d] \in 0..Capacity
                        /\ h[d] = f[d] + g[d]
    PROVE  Total(h, D) = Total(f, D) + Total(g, D)
<1> DEFINE Good == {T \in SUBSET D : Total(h, T) = Total(f, T) + Total(g, T)}
<1>1. {} \in Good
  BY TotalOfEmpty
<1>2. ASSUME NEW T \in SUBSET D, NEW x \in D \ T, T \in Good
      PROVE  T \cup {x} \in Good
  <2>1. IsFiniteSet(T)
    BY FS_Subset
  <2>2. /\ Total(f, T \cup {x}) = Total(f, T) + f[x]
        /\ Total(g, T \cup {x}) = Total(g, T) + g[x]
        /\ Total(h, T \cup {x}) = Total(h, T) + h[x]
    BY <2>1, TotalAddOne
  <2>3. Total(f, T) \in Nat /\ Total(g, T) \in Nat
    BY <2>1, TotalType
  <2>4. Total(h, T) = Total(f, T) + Total(g, T)
    BY <1>2
  <2>5. h[x] = f[x] + g[x] /\ f[x] \in Nat /\ g[x] \in Nat
    BY CapacityIsNat
  <2>6. Total(h, T \cup {x}) = Total(f, T \cup {x}) + Total(g, T \cup {x})
    BY <2>2, <2>3, <2>4, <2>5
  <2> QED
    BY <2>6
<1>3. D \in Good
  <2> HIDE DEF Good
  <2> QED
    BY <1>1, <1>2, FiniteInduction
<1> QED
  BY <1>3

\* No single figure exceeds the sum it is part of.
LEMMA PartOfTotal ==
    ASSUME NEW f, NEW D, IsFiniteSet(D), NEW x \in D, f[x] \in 0..Capacity
    PROVE  f[x] <= Total(f, D)
<1>1. {x} \subseteq D /\ \A d \in D \ {x} : f[d] = f[d]
  OBVIOUS
<1>2. Total(f, {x}) <= Total(f, D)
  BY <1>1, TotalReplace
<1> QED
  BY <1>2, TotalOfOne

\* Items that count for nothing may be left out of a sum.
LEMMA TotalOfNonzero ==
    ASSUME NEW f, NEW D, IsFiniteSet(D), NEW A, A \subseteq D, \A d \in D \ A : f[d] = 0
    PROVE  Total(f, D) = Total(f, A)
<1> DEFINE R == D \ A
<1>1. IsFiniteSet(A) /\ IsFiniteSet(R) /\ A \cap R = {} /\ D = A \cup R
  BY FS_Subset
<1>2. Total(f, R) = 0
  BY TotalOfZeros
<1> HIDE DEF R
<1>3. Total(f, D) = Total(f, A) + Total(f, R)
  BY <1>1, TotalSplit
<1>4. Total(f, A) \in Nat
  BY <1>1, TotalType
<1> QED
  BY <1>2, <1>3, <1>4

\* Grouping: the figures of E sum up what D holds in their name.
LEMMA TotalByGroup ==
    ASSUME NEW f, NEW D, IsFiniteSet(D), NEW E, IsFiniteSet(E),
           NEW g, NEW h \in [D -> E],
           \A e \in E : g[e] \in 0..Capacity /\ g[e] = Total(f, {d \in D : h[d] = e})
    PROVE  Total(g, E) = Total(f, D)
<1> DEFINE In(T) == {d \in D : h[d] \in T}
           Good  == {T \in SUBSET E : Total(g, T) = Total(f, In(T))}
<1>1. {} \in Good
  <2>1. In({}) = {}
    OBVIOUS
  <2> QED
    BY <2>1, TotalOfEmpty
<1>2. ASSUME NEW T \in SUBSET E, NEW x \in E \ T, T \in Good
      PROVE  T \cup {x} \in Good
  <2> DEFINE One == {d \in D : h[d] = x}
  <2>1. IsFiniteSet(T) /\ IsFiniteSet(In(T)) /\ IsFiniteSet(One)
    BY FS_Subset
  <2>2. In(T \cup {x}) = In(T) \cup One /\ In(T) \cap One = {}
    OBVIOUS
  <2>3. Total(f, In(T \cup {x})) = Total(f, In(T)) + Total(f, One)
    BY <2>1, <2>2, TotalSplit
  <2>4. Total(g, T \cup {x}) = Total(g, T) + g[x]
    BY <2>1, TotalAddOne
  <2>5. Total(g, T \cup {x}) = Total(f, In(T \cup {x}))
    BY <1>2, <2>3, <2>4
  <2> QED
    BY <2>5
<1>3. E \in Good
  <2> HIDE DEF Good
  <2> QED
    BY <1>1, <1>2, FiniteInduction
<1>4. In(E) = D
  OBVIOUS
<1> QED
  BY <1>3, <1>4

\* Renaming: every item of E stands for one item of D.
LEMMA TotalRenamed ==
    ASSUME NEW f, NEW D, IsFiniteSet(D), NEW E, IsFiniteSet(E),
           NEW g, NEW h \in [D -> E],
           \A e \in E : \E d \in D : /\ \A c \in D : h[c] = e <=> c = d
                                     /\ f[d] \in 0..Capacity
                                     /\ g[e] = f[d]
    PROVE  Total(g, E) = Total(f, D)
<1>1. ASSUME NEW e \in E
      PROVE  g[e] \in 0..Capacity /\ g[e] = Total(f, {c \in D : h[c] = e})
  <2>1. PICK d \in D : /\ \A c \in D : h[c] = e <=> c = d
                       /\ f[d] \in 0..Capacity
                       /\ g[e] = f[d]
    OBVIOUS
  <2>2. {c \in D : h[c] = e} = {d}
    BY <2>1
  <2>3. Total(f, {d}) = f[d]
    BY <2>1, TotalOfOne
  <2> QED
    BY <2>1, <2>2, <2>3
<1> QED
  BY <1>1, TotalByGroup

=============================================================================
