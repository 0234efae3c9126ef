-------------------------------- MODULE Counting -------------------------------
(***************************************************************************)
(* Facts about numbers and finite sets that the proofs about several       *)
(* components rest on: the least-number principle, in a form that takes a  *)
(* set and no predicate, and the ranks of the elements of a finite set     *)
(* that has been put in an order.                                          *)
(***************************************************************************)
EXTENDS Integers, FiniteSetTheorems, WellFoundedInduction, TLAPS

\* A set of natural numbers that is not empty has a least element.  It is the
\* end of an interval 0 .. n that is minimal among finite sets.
LEMMA LeastNatural ==
  ASSUME NEW T \in SUBSET Nat, T # {}
  PROVE  \E n \in T : \A m \in T : n <= m
<1> DEFINE I == {0 .. n : n \in T}
<1>1. IsWellFoundedOn(StrictSubsetOrdering(Nat), FiniteSubsetsOf(Nat))
  BY FS_StrictSubsetOrderingWellFounded
<1>2. I \subseteq FiniteSubsetsOf(Nat) /\ I # {}
  <2>1. \A n \in T : IsFiniteSet(0 .. n) /\ 0 .. n \in SUBSET Nat
    BY FS_Interval
  <2> QED
    BY <2>1 DEF FiniteSubsetsOf
<1>3. \E x \in I : \A y \in I : ~(<<y, x>> \in StrictSubsetOrdering(Nat))
  <2> HIDE DEF I
  <2> QED
    BY <1>1, <1>2, WFMin
<1>4. PICK n \in T : \A m \in T : ~(<<0 .. m, 0 .. n>> \in StrictSubsetOrdering(Nat))
  BY <1>3
<1>5. ASSUME NEW m \in T, m < n PROVE FALSE
  <2>1. 0 .. m \subseteq 0 .. n /\ n \in 0 .. n /\ n \notin 0 .. m
    BY <1>5
  <2>2. 0 .. m # 0 .. n
    BY <2>1
  <2>3. 0 .. m \in SUBSET Nat /\ 0 .. n \in SUBSET Nat
    OBVIOUS
  <2> QED
    BY <1>4, <2>1, <2>2, <2>3 DEF StrictSubsetOrdering
<1> QED
  BY <1>5

\* Induction up to n: what holds of 0 and, below n, of the successor of what it
\* holds of, holds up to n.
LEMMA InductionUpTo ==
  ASSUME NEW n \in Nat, NEW H, 0 \in H,
         \A i \in 0 .. n - 1 : i \in H => i + 1 \in H
  PROVE  0 .. n \subseteq H
<1> DEFINE T == {i \in 0 .. n : i \notin H}
<1>1. SUFFICES ASSUME T # {} PROVE FALSE
  OBVIOUS
<1>2. PICK i \in T : \A j \in T : i <= j
  <2>1. T \in SUBSET Nat
    OBVIOUS
  <2> HIDE DEF T
  <2> QED
    BY <1>1, <2>1, LeastNatural
<1>3. i # 0 /\ i - 1 \in 0 .. n - 1 /\ i - 1 \notin T
  BY <1>2
<1>4. i - 1 \in H
  BY <1>3
<1> QED
  BY <1>3, <1>4

-----------------------------------------------------------------------------
(***************************************************************************)
(* Ranks.                                                                  *)
(***************************************************************************)

\* How many elements of E come before e.
Rank(E, key, e) == Cardinality({x \in E : key[x] < key[e]})

\* A finite set whose elements have numbers of their own.
Ranked(E, key) ==
  /\ IsFiniteSet(E)
  /\ \A e \in E : key[e] \in Nat
  /\ \A d, e \in E : key[d] = key[e] => d = e

\* A rank is a number below the number of elements, and follows the order.
LEMMA RankOrder ==
  ASSUME NEW E, NEW key, Ranked(E, key), NEW e \in E
  PROVE  /\ Rank(E, key, e) \in Nat /\ Rank(E, key, e) < Cardinality(E)
         /\ \A d \in E : Rank(E, key, d) < Rank(E, key, e) <=> key[d] < key[e]
<1> DEFINE Lower(x) == {y \in E : key[y] < key[x]}
<1>1. \A x \in E : /\ IsFiniteSet(Lower(x)) /\ Rank(E, key, x) = Cardinality(Lower(x))
                   /\ Rank(E, key, x) \in Nat
  BY FS_Subset, FS_CardinalityType DEF Ranked, Rank
<1>2. Rank(E, key, e) < Cardinality(E)
  <2>1. Cardinality(Lower(e)) <= Cardinality(E) /\ Cardinality(E) \in Nat
        /\ (Cardinality(E) = Cardinality(Lower(e)) => E = Lower(e))
    BY FS_Subset, FS_CardinalityType DEF Ranked
  <2>2. e \notin Lower(e)
    BY DEF Ranked
  <2> QED
    BY <1>1, <2>1, <2>2
<1>3. ASSUME NEW c \in E, NEW d \in E, key[c] < key[d]
      PROVE  Rank(E, key, c) < Rank(E, key, d)
  <2>1. Lower(c) \subseteq Lower(d) /\ c \in Lower(d) /\ c \notin Lower(c)
    BY <1>3 DEF Ranked
  <2>2. /\ Cardinality(Lower(c)) <= Cardinality(Lower(d))
        /\ Cardinality(Lower(d)) = Cardinality(Lower(c)) => Lower(d) = Lower(c)
    BY <1>1, <2>1, FS_Subset
  <2> HIDE DEF Lower
  <2>3. /\ Cardinality(Lower(c)) \in Nat /\ Cardinality(Lower(d)) \in Nat
        /\ Rank(E, key, c) = Cardinality(Lower(c))
        /\ Rank(E, key, d) = Cardinality(Lower(d))
    BY <1>1
  <2>4. Lower(c) # Lower(d)
    BY <2>1
  <2> QED
    BY <2>2, <2>3, <2>4
<1>4. ASSUME NEW d \in E PROVE Rank(E, key, d) < Rank(E, key, e) <=> key[d] < key[e]
  <2>1. Rank(E, key, d) \in Nat /\ Rank(E, key, e) \in Nat
    BY <1>1
  <2>2. CASE key[d] < key[e]
    BY <1>3, <2>2
  <2>3. CASE key[e] < key[d]
    <3>1. Rank(E, key, e) < Rank(E, key, d)
      BY <1>3, <2>3
    <3> QED
      BY <2>1, <2>3, <3>1 DEF Ranked
  <2>4. CASE d = e
    BY <2>1, <2>4 DEF Ranked
  <2> QED
    BY <2>2, <2>3, <2>4 DEF Ranked
<1> QED
  BY <1>1, <1>2, <1>4

\* As many elements at most have a rank in an interval as it has numbers.
LEMMA RankedBetween ==
  ASSUME NEW E, NEW key, Ranked(E, key), NEW a \in Nat, NEW b \in Nat, a <= b
  PROVE  LET S == {e \in E : a <= Rank(E, key, e) /\ Rank(E, key, e) < b}
         IN  IsFiniteSet(S) /\ Cardinality(S) \in Nat /\ Cardinality(S) <= b - a
<1> DEFINE S == {e \in E : a <= Rank(E, key, e) /\ Rank(E, key, e) < b}
           f == [e \in S |-> Rank(E, key, e)]
<1>1. IsFiniteSet(S) /\ Cardinality(S) \in Nat
  BY FS_Subset, FS_CardinalityType DEF Ranked
<1>2. IsFiniteSet(a .. (b - 1)) /\ Cardinality(a .. (b - 1)) = b - a
  <2>1. a \in Int /\ b - 1 \in Int
    OBVIOUS
  <2>2. /\ IsFiniteSet(a .. (b - 1))
        /\ Cardinality(a .. (b - 1)) = IF a > b - 1 THEN 0 ELSE b - 1 - a + 1
    BY <2>1, FS_Interval
  <2> QED
    BY <2>2
<1>3. f \in [S -> a .. (b - 1)]
  BY RankOrder
<1>4. ASSUME NEW d \in S, NEW e \in S, f[d] = f[e] PROVE d = e
  <2>1. ~(key[d] < key[e]) /\ ~(key[e] < key[d])
    BY <1>4, RankOrder
  <2> QED
    BY <2>1 DEF Ranked
<1>5. f \in Injection(S, a .. (b - 1))
  BY <1>3, <1>4 DEF Injection, IsInjective
<1> QED
  BY <1>1, <1>2, <1>5, FS_Injection

\* Every number below the number of elements is the rank of one.
LEMMA RankTaken ==
  ASSUME NEW E, NEW key, Ranked(E, key), NEW r \in Nat, r < Cardinality(E)
  PROVE  \E e \in E : Rank(E, key, e) = r
<1> DEFINE R(e) == Rank(E, key, e)
           Below == {e \in E : 0 <= R(e) /\ R(e) < r}
           Above == {e \in E : r < R(e)}
<1> SUFFICES ASSUME \A e \in E : R(e) # r PROVE FALSE
  OBVIOUS
<1>1. \A e \in E : R(e) \in Nat
  BY RankOrder
<1>2. IsFiniteSet(Below) /\ Cardinality(Below) \in Nat /\ Cardinality(Below) <= r
  <2> HIDE DEF R
  <2> QED
    BY RankedBetween DEF R
<1>3. Above # {}
  <2>1. SUFFICES ASSUME Above = {} PROVE FALSE
    OBVIOUS
  <2>2. E = Below
    BY <1>1, <2>1
  <2> QED
    BY <1>2, <2>2
<1>4. PICK e \in Above : \A d \in Above : key[e] <= key[d]
  <2> DEFINE K == {key[d] : d \in Above}
  <2>1. K \in SUBSET Nat /\ K # {}
    BY <1>3 DEF Ranked
  <2>2. PICK k \in K : \A m \in K : k <= m
    BY <2>1, LeastNatural
  <2> QED
    BY <2>2
<1>5. {x \in E : key[x] < key[e]} \subseteq Below
  <2>1. ASSUME NEW x \in E, key[x] < key[e] PROVE x \in Below
    <3>1. x \notin Above
      BY <1>4, <2>1 DEF Ranked
    <3> QED
      BY <1>1, <3>1
  <2> QED
    BY <2>1
<1>6. R(e) <= Cardinality(Below)
  BY <1>2, <1>5, FS_Subset DEF Rank
<1> QED
  BY <1>1, <1>2, <1>6
=============================================================================
