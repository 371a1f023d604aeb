------------------------------ MODULE Extremes ------------------------------
(***************************************************************************)
(* The smallest and the greatest element of a finite set of integers: what *)
(* Min and Max choose is there.                                            *)
(***************************************************************************)
EXTENDS Integers, FiniteSetsExt, FiniteSetTheorems, TLAPS

\* A finite set of integers has a smallest element: the segments up to its elements are
\* subsets of it.
LEMMA SmallestExists ==
  ASSUME NEW S, S \subseteq Int, IsFiniteSet(S), S # {}
  PROVE  \E x \in S : \A y \in S : x <= y
<1> DEFINE UpTo(x) == {r \in S : r <= x}
           T == {UpTo(x) : x \in S}
<1>1. PICK U \in T : \A V \in T : ~(<<V, U>> \in StrictSubsetOrdering(S))
  <2>1. T \subseteq SUBSET S /\ T # {}
    OBVIOUS
  <2>2. IsWellFoundedOn(StrictSubsetOrdering(S), SUBSET S)
    BY FS_StrictSubsetOrderingWellFounded, FS_FiniteSubsetsOfFinite
  <2> HIDE DEF T
  <2> QED
    BY <2>1, <2>2, WFMin
<1>2. PICK x \in S : U = UpTo(x)
  BY <1>1
<1>3. ASSUME NEW y \in S, ~(x <= y)
      PROVE  FALSE
  <2>1. x \in Int /\ y \in Int /\ y <= x
    BY <1>3
  <2>2. UpTo(y) \subseteq UpTo(x)
    <3> SUFFICES ASSUME NEW r \in S, r <= y PROVE r <= x
      OBVIOUS
    <3> QED
      BY <2>1
  <2>3. x \in UpTo(x) /\ x \notin UpTo(y)
    BY <1>3, <2>1
  <2>4. <<UpTo(y), UpTo(x)>> \in StrictSubsetOrdering(S)
    BY <2>2, <2>3 DEF StrictSubsetOrdering
  <2> QED
    BY <1>1, <1>2, <2>4
<1> QED
  BY <1>3

\* And a greatest one, the smallest of the negated ones.
LEMMA MaxIs ==
  ASSUME NEW S, S \subseteq Int, IsFiniteSet(S), S # {}
  PROVE  Max(S) \in S /\ \A y \in S : Max(S) >= y
<1> DEFINE N == {-x : x \in S}
           f == [x \in S |-> -x]
<1>1. f \in Surjection(S, N)
  BY DEF Surjection
<1>2. IsFiniteSet(N) /\ N \subseteq Int /\ N # {}
  <2>1. \A x \in S : -x \in Int
    OBVIOUS
  <2>2. N \subseteq Int
    BY <2>1
  <2>3. N # {}
    OBVIOUS
  <2> HIDE DEF N, f
  <2> QED
    BY <1>1, <2>2, <2>3, FS_Surjection
<1>3. PICK n \in N : \A m \in N : n <= m
  BY <1>2, SmallestExists
<1>4. PICK x \in S : n = -x
  BY <1>3
<1>5. ASSUME NEW y \in S PROVE x >= y
  BY <1>3, <1>4
<1> QED
  BY <1>5 DEF Max

LEMMA MinIs ==
  ASSUME NEW S, S \subseteq Int, IsFiniteSet(S), S # {}
  PROVE  Min(S) \in S /\ \A y \in S : Min(S) <= y
BY SmallestExists DEF Min

\* Induction up to a bound, with a set of numbers for the statement: what is true of 0, and
\* of every number after one it is true of.
LEMMA UpToBound ==
  ASSUME NEW n \in Nat, NEW S, 0 \in S, \A k \in 0..n - 1 : k \in S => k + 1 \in S
  PROVE  0..n \subseteq S
<1> DEFINE Missing == 0..n \ S
<1> SUFFICES ASSUME Missing # {} PROVE FALSE
  OBVIOUS
<1>1. Missing \subseteq Int /\ IsFiniteSet(Missing)
  <2>1. IsFiniteSet(0..n) /\ Missing \in SUBSET (0..n)
    BY FS_Interval
  <2> QED
    BY <2>1, FS_Subset
<1>2. PICK m \in Missing : \A y \in Missing : m <= y
  BY <1>1, SmallestExists
<1>3. m \in 1..n /\ m - 1 \in 0..n - 1 /\ m - 1 \in 0..n
  OBVIOUS
<1>4. m - 1 \in S
  BY <1>2, <1>3
<1> QED
  BY <1>3, <1>4

\* The greater and the smaller of two numbers.
LEMMA TwoOf ==
  ASSUME NEW a \in Int, NEW b \in Int
  PROVE  /\ Max({a, b}) \in {a, b} /\ Max({a, b}) >= a /\ Max({a, b}) >= b
         /\ Min({a, b}) \in {a, b} /\ Min({a, b}) <= a /\ Min({a, b}) <= b
<1>1. {a, b} = {a} \cup {b}
  OBVIOUS
<1>2. IsFiniteSet({a})
  BY FS_Singleton
<1>3. IsFiniteSet({a} \cup {b})
  BY <1>2, FS_AddElement
<1>4. IsFiniteSet({a, b}) /\ {a, b} \subseteq Int /\ {a, b} # {}
  BY <1>1, <1>3
<1>5. Max({a, b}) \in {a, b} /\ \A y \in {a, b} : Max({a, b}) >= y
  BY <1>4, MaxIs
<1>6. Min({a, b}) \in {a, b} /\ \A y \in {a, b} : Min({a, b}) <= y
  BY <1>4, MinIs
<1> QED
  BY <1>5, <1>6

=============================================================================
