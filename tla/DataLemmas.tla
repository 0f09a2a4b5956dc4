------------------------------ MODULE DataLemmas ------------------------------
(***************************************************************************)
(* Facts about numbers and finite sets that the proofs of several parts    *)
(* need, induction over them included.  They rest on the library's theorem *)
(* that the strict subset order of finite sets is well founded.            *)
(***************************************************************************)
EXTENDS Integers, FiniteSetTheorems, TLAPS

(* A set of finite sets has one that holds no other of them.               *)
LEMMA SmallestSubset ==
  ASSUME NEW F, F # {}, \A X \in F : IsFiniteSet(X)
  PROVE  \E X \in F : \A Y \in F : Y \subseteq X => Y = X
<1> DEFINE U == UNION F
<1>1. IsWellFoundedOn(StrictSubsetOrdering(U), FiniteSubsetsOf(U))
  BY FS_StrictSubsetOrderingWellFounded
<1>2. F \subseteq FiniteSubsetsOf(U)
  BY DEF FiniteSubsetsOf
<1>3. PICK X \in F : \A Y \in F : ~ (<<Y, X>> \in StrictSubsetOrdering(U))
  BY <1>1, <1>2, WFMin
<1>4. \A Y \in F : Y \subseteq X => Y = X
  <2> SUFFICES ASSUME NEW Y \in F, Y \subseteq X, Y # X PROVE FALSE
    OBVIOUS
  <2>1. X \in SUBSET U /\ Y \in SUBSET U
    OBVIOUS
  <2> HIDE DEF U
  <2> QED BY <1>3, <2>1 DEF StrictSubsetOrdering
<1> QED BY <1>4

(* A set of naturals has a least one. *)
LEMMA LeastNumber ==
  ASSUME NEW T \in SUBSET Nat, T # {}
  PROVE  \E x \in T : \A y \in T : x <= y
<1> DEFINE F == {1 .. n : n \in T}
<1>1. \A n \in T : IsFiniteSet(1 .. n)
  BY FS_Interval
<1>2. F # {} /\ \A X \in F : IsFiniteSet(X)
  BY <1>1
<1>3. PICK X \in F : \A Y \in F : Y \subseteq X => Y = X
  <2> HIDE DEF F
  <2> QED BY <1>2, SmallestSubset
<1>4. PICK x \in T : X = 1 .. x
  OBVIOUS
<1>5. \A y \in T : x <= y
  <2> SUFFICES ASSUME NEW y \in T, y < x PROVE FALSE
    OBVIOUS
  <2>1. 1 .. y \in F /\ 1 .. y \subseteq X /\ x \in X /\ x \notin 1 .. y
    BY <1>4
  <2> QED BY <1>3, <2>1
<1> QED BY <1>5

(* Induction over the naturals up to n, for a set of them. *)
LEMMA CountUp ==
  ASSUME NEW n \in Nat, NEW T, 0 \in T, \A i \in 0 .. n : i < n /\ i \in T => i + 1 \in T
  PROVE  0 .. n \subseteq T
<1> DEFINE R == (0 .. n) \ T
<1> SUFFICES ASSUME R # {} PROVE FALSE
  OBVIOUS
<1>1. PICK x \in R : \A y \in R : x <= y
  <2>1. R \in SUBSET Nat
    OBVIOUS
  <2> HIDE DEF R
  <2> QED BY <2>1, LeastNumber
<1>2. x \in Nat /\ x # 0 /\ x - 1 \in 0 .. n /\ x - 1 < n
  BY <1>1
<1>3. x - 1 \in T
  BY <1>1, <1>2
<1> QED BY <1>1, <1>2, <1>3

(* Induction over the subsets of a finite set, for a set of them.          *)
LEMMA GrowSet ==
  ASSUME NEW S, IsFiniteSet(S), NEW T, {} \in T,
         \A X \in SUBSET S : \A x \in S \ X : X \in T => X \cup {x} \in T
  PROVE  S \in T
<1> DEFINE F == {X \in SUBSET S : X \notin T}
<1> SUFFICES ASSUME F # {} PROVE FALSE
  OBVIOUS
<1>1. \A X \in F : IsFiniteSet(X)
  BY FS_Subset
<1>2. PICK X \in F : \A Y \in F : Y \subseteq X => Y = X
  <2> HIDE DEF F
  <2> QED BY <1>1, SmallestSubset
<1>3. PICK x \in X : TRUE
  OBVIOUS
<1>4. X \ {x} \in SUBSET S /\ x \in S \ (X \ {x}) /\ (X \ {x}) \cup {x} = X
  OBVIOUS
<1>5. X \ {x} \in T
  BY <1>2, <1>3, <1>4
<1> QED BY <1>4, <1>5

(* Of finitely many things with a number one has the greatest.             *)
LEMMA GreatestOf ==
  ASSUME NEW S, IsFiniteSet(S), S # {}, NEW f \in [S -> Nat]
  PROVE  \E x \in S : \A y \in S : f[y] <= f[x]
<1> DEFINE T == {X \in SUBSET S : X # {} => \E x \in X : \A y \in X : f[y] <= f[x]}
<1>1. {} \in T
  OBVIOUS
<1>2. ASSUME NEW X \in SUBSET S, NEW x \in S \ X, X \in T PROVE X \cup {x} \in T
  <2>1. CASE X = {}
    BY <2>1
  <2>2. CASE X # {}
    <3>1. PICK m \in X : \A y \in X : f[y] <= f[m]
      BY <1>2, <2>2
    <3>2. CASE f[x] <= f[m]
      BY <3>1, <3>2
    <3>3. CASE f[m] <= f[x]
      <4>1. \A y \in X : f[y] <= f[x]
        BY <3>1, <3>3
      <4> QED BY <4>1
    <3> QED BY <3>2, <3>3
  <2> QED BY <2>1, <2>2
<1> HIDE DEF T
<1>3. S \in T
  BY <1>1, <1>2, GrowSet
<1> QED BY <1>3 DEF T

(* A set of one thing at most has no two. *)
LEMMA AtMostOne ==
  ASSUME NEW S, IsFiniteSet(S), Cardinality(S) <= 1, NEW a \in S, NEW b \in S
  PROVE  a = b
<1> SUFFICES ASSUME a # b PROVE FALSE
  OBVIOUS
<1>1. Cardinality(S) \in Nat
  BY FS_CardinalityType
<1>2. Cardinality(S \ {a}) = Cardinality(S) - 1 /\ IsFiniteSet(S \ {a})
  BY FS_RemoveElement
<1>3. Cardinality(S \ {a}) = 0
  BY <1>1, <1>2, FS_CardinalityType
<1>4. S \ {a} = {}
  BY <1>2, <1>3, FS_EmptySet
<1> QED BY <1>4
=============================================================================
