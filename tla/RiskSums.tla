------------------------------ MODULE RiskSums ------------------------------
(***************************************************************************)
(* Sums over finite sets and least members, for the proofs about Execution *)
(* and RiskAuthority.  SumFunctionOnSet is a fold of the community modules:*)
(* a function defined by recursion over the subsets of a set.  This module *)
(* shows that the function exists, that the sum does not depend on the     *)
(* order the elements are taken in, and from there the facts the proofs    *)
(* use.                                                                    *)
(***************************************************************************)
EXTENDS Integers, FiniteSets, FiniteSetsExt, FiniteSetTheorems, WellFoundedInduction, TLAPS

(* Induction over the natural numbers, for a set in place of a predicate. *)
LEMMA SetInduction ==
  ASSUME NEW S, 0 \in S, \A n \in Nat : n \in S => n + 1 \in S
  PROVE  Nat \subseteq S
<1> SUFFICES ASSUME Nat \ S # {} PROVE FALSE
  OBVIOUS
<1>1. PICK m \in Nat \ S : \A y \in Nat \ S : ~ (<<y, m>> \in OpToRel(<, Nat))
  BY NatLessThanWellFounded, WFMin
<1>2. m - 1 \in Nat /\ m - 1 < m
  OBVIOUS
<1>3. <<m - 1, m>> \in OpToRel(<, Nat)
  BY <1>2 DEF OpToRel
<1>4. m - 1 \in S
  BY <1>1, <1>2, <1>3
<1> QED BY <1>2, <1>4

(* Taking an element out of a finite set lowers its cardinality.           *)
LEMMA Smaller ==
  ASSUME NEW P, IsFiniteSet(P)
  PROVE  \A s \in SUBSET P : \A x \in s :
           /\ Cardinality(s) \in Nat \ {0}
           /\ s \ {x} \in SUBSET P
           /\ Cardinality(s \ {x}) = Cardinality(s) - 1
BY FS_Subset, FS_RemoveElement, FS_CardinalityType, FS_EmptySet

----------------------------------------------------------------------------
(* SumFunctionOnSet with its parameters put in place.                      *)
First(s) == CHOOSE x \in s : TRUE
FoldStep(a, g, s) == IF s = {} THEN 0 ELSE a[First(s)] + g[s \ {First(s)}]
Fold(a, P) == CHOOSE g : g = [s \in SUBSET P |-> FoldStep(a, g, s)]


(* The recursion has a solution on the sets of up to n elements, for all n. *)
LEMMA FoldExists ==
  ASSUME NEW a, NEW P, IsFiniteSet(P)
  PROVE  \E g : g = [s \in SUBSET P |-> FoldStep(a, g, s)]
<1> DEFINE UpTo(n) == {s \in SUBSET P : Cardinality(s) <= n}
           Solved == {n \in Nat : \E g : g = [s \in UpTo(n) |-> FoldStep(a, g, s)]}
<1>1. 0 \in Solved
  <2> DEFINE g == [s \in UpTo(0) |-> 0]
  <2>1. ASSUME NEW s \in UpTo(0) PROVE s = {}
    BY FS_Subset, FS_EmptySet, FS_CardinalityType
  <2>2. g = [s \in UpTo(0) |-> FoldStep(a, g, s)]
    BY <2>1 DEF FoldStep
  <2> QED BY <2>2
<1>2. ASSUME NEW n \in Nat, n \in Solved PROVE n + 1 \in Solved
  <2>1. PICK g : g = [s \in UpTo(n) |-> FoldStep(a, g, s)]
    BY <1>2
  <2> DEFINE h == [s \in UpTo(n + 1) |-> FoldStep(a, g, s)]
  <2>2. ASSUME NEW s \in UpTo(n + 1), s # {} PROVE s \ {First(s)} \in UpTo(n)
    <3>1. First(s) \in s
      BY <2>2 DEF First
    <3> QED BY <3>1, Smaller
  <2>3. ASSUME NEW s \in UpTo(n) PROVE s \in UpTo(n + 1) /\ h[s] = g[s]
    <3>1. s \in UpTo(n + 1)
      BY FS_Subset, FS_CardinalityType
    <3> QED BY <2>1, <3>1
  <2>4. ASSUME NEW s \in UpTo(n + 1) PROVE FoldStep(a, g, s) = FoldStep(a, h, s)
    BY <2>2, <2>3 DEF FoldStep
  <2>5. h = [s \in UpTo(n + 1) |-> FoldStep(a, h, s)]
    BY <2>4
  <2> HIDE DEF h
  <2> QED BY <2>5
<1> HIDE DEF Solved
<1>3. Cardinality(P) \in Solved
  BY <1>1, <1>2, SetInduction, FS_CardinalityType
<1>4. UpTo(Cardinality(P)) = SUBSET P
  BY FS_Subset
<1> USE DEF Solved
<1> QED BY <1>3, <1>4

(* A fold over a set is one element added to the fold over the rest.       *)
LEMMA FoldUnfolds ==
  ASSUME NEW a, NEW P, IsFiniteSet(P)
  PROVE  /\ Fold(a, P)[{}] = 0
         /\ \A s \in SUBSET P : s # {} =>
              /\ First(s) \in s
              /\ Fold(a, P)[s] = a[First(s)] + Fold(a, P)[s \ {First(s)}]
<1>1. \A s \in SUBSET P : Fold(a, P)[s] = FoldStep(a, Fold(a, P), s)
  <2>1. Fold(a, P) = [t \in SUBSET P |-> FoldStep(a, Fold(a, P), t)]
    BY FoldExists DEF Fold
  <2> QED BY <2>1
<1>2. Fold(a, P)[{}] = 0
  BY <1>1 DEF FoldStep
<1>3. ASSUME NEW s \in SUBSET P, s # {}
      PROVE  /\ First(s) \in s
             /\ Fold(a, P)[s] = a[First(s)] + Fold(a, P)[s \ {First(s)}]
  BY <1>1, <1>3 DEF FoldStep, First
<1> QED BY <1>2, <1>3

(* A fold of members of a set that addition does not leave stays in it.    *)
LEMMA FoldStays ==
  ASSUME NEW a, NEW P, IsFiniteSet(P), NEW N, 0 \in N, \A i, j \in N : i + j \in N,
         \A x \in P : a[x] \in N
  PROVE  \A s \in SUBSET P : Fold(a, P)[s] \in N
<1> DEFINE Staying == {n \in Nat : \A s \in SUBSET P : Cardinality(s) = n => Fold(a, P)[s] \in N}
<1>1. 0 \in Staying
  BY FoldUnfolds, FS_Subset, FS_EmptySet
<1>2. ASSUME NEW n \in Nat, n \in Staying PROVE n + 1 \in Staying
  <2> SUFFICES ASSUME NEW s \in SUBSET P, Cardinality(s) = n + 1 PROVE Fold(a, P)[s] \in N
    OBVIOUS
  <2>1. s # {}
    BY FS_EmptySet
  <2>2. First(s) \in s /\ Fold(a, P)[s] = a[First(s)] + Fold(a, P)[s \ {First(s)}]
    BY <2>1, FoldUnfolds
  <2>3. Fold(a, P)[s \ {First(s)}] \in N
    BY <1>2, <2>2, Smaller
  <2> QED BY <2>2, <2>3
<1> HIDE DEF Staying
<1>3. \A s \in SUBSET P : Cardinality(s) \in Nat
  BY FS_Subset, FS_CardinalityType
<1>4. Nat \subseteq Staying
  BY <1>1, <1>2, SetInduction
<1> USE DEF Staying
<1> QED BY <1>3, <1>4

(* Whichever element is taken first, the sum is the same. *)
LEMMA FoldSplits ==
  ASSUME NEW a, NEW P, IsFiniteSet(P), \A x \in P : a[x] \in Int
  PROVE  \A s \in SUBSET P : \A x \in s :
           Fold(a, P)[s] = a[x] + Fold(a, P)[s \ {x}]
<1> DEFINE Splits(s) == \A x \in s : Fold(a, P)[s] = a[x] + Fold(a, P)[s \ {x}]
           Split == {n \in Nat : \A s \in SUBSET P : Cardinality(s) = n => Splits(s)}
<1>1. 0 \in Split
  BY FS_Subset, FS_EmptySet
<1>2. ASSUME NEW n \in Nat, n \in Split PROVE n + 1 \in Split
  <2> HIDE DEF Splits
  <2> SUFFICES ASSUME NEW s \in SUBSET P, Cardinality(s) = n + 1 PROVE Splits(s)
    OBVIOUS
  <2> USE DEF Splits
  <2>1. s # {}
    BY FS_EmptySet
  <2>2. PICK y \in s : Fold(a, P)[s] = a[y] + Fold(a, P)[s \ {y}]
    <3>1. First(s) \in s /\ Fold(a, P)[s] = a[First(s)] + Fold(a, P)[s \ {First(s)}]
      BY <2>1, FoldUnfolds
    <3> QED BY <3>1
  <2>3. \A x \in s : s \ {x} \in SUBSET P /\ Splits(s \ {x})
    <3> HIDE DEF Splits
    <3>1. \A q \in SUBSET P : Cardinality(q) = n => Splits(q)
      BY <1>2
    <3>2. \A x \in s : s \ {x} \in SUBSET P /\ Cardinality(s \ {x}) = n
      BY Smaller
    <3> QED BY <3>1, <3>2
  <2>4. ASSUME NEW x \in s, x # y
        PROVE  Fold(a, P)[s] = a[x] + Fold(a, P)[s \ {x}]
    <3> DEFINE rest == (s \ {y}) \ {x}
    <3>1. Fold(a, P)[s \ {y}] = a[x] + Fold(a, P)[rest]
      <4>1. Splits(s \ {y}) /\ x \in s \ {y}
        BY <2>3, <2>4
      <4> QED BY <4>1
    <3>2. Fold(a, P)[s \ {x}] = a[y] + Fold(a, P)[rest]
      <4>1. Fold(a, P)[s \ {x}] = a[y] + Fold(a, P)[(s \ {x}) \ {y}]
        BY <2>3, <2>4
      <4>2. (s \ {x}) \ {y} = rest
        OBVIOUS
      <4> QED BY <4>1, <4>2
    <3>3. a[x] \in Int /\ a[y] \in Int /\ Fold(a, P)[rest] \in Int
      BY FoldStays
    <3>4. ASSUME NEW i \in Int, NEW j \in Int, NEW r \in Int PROVE i + (j + r) = j + (i + r)
      OBVIOUS
    <3> HIDE DEF rest, Splits
    <3> QED BY <2>2, <3>1, <3>2, <3>3, <3>4
  <2> QED BY <2>2, <2>4
<1> HIDE DEF Split
<1>3. \A s \in SUBSET P : Cardinality(s) \in Nat
  BY FS_Subset, FS_CardinalityType
<1>4. Nat \subseteq Split
  BY <1>1, <1>2, SetInduction
<1> USE DEF Split
<1> QED BY <1>3, <1>4

(* A sum depends on the amounts of its members and on nothing else. *)
LEMMA FoldAgrees ==
  ASSUME NEW a, NEW b, NEW P, NEW Q, IsFiniteSet(P), IsFiniteSet(Q)
  PROVE  \A s \in SUBSET (P \cap Q) :
           (\A x \in s : a[x] = b[x]) => Fold(a, P)[s] = Fold(b, Q)[s]
<1> DEFINE Alike(s) == \A x \in s : a[x] = b[x]
           Agreed == {n \in Nat : \A s \in SUBSET (P \cap Q) :
                        Cardinality(s) = n /\ Alike(s) => Fold(a, P)[s] = Fold(b, Q)[s]}
<1>1. IsFiniteSet(P \cap Q)
  BY FS_Intersection
<1>2. 0 \in Agreed
  BY <1>1, FoldUnfolds, FS_Subset, FS_EmptySet
<1>3. \A s \in SUBSET (P \cap Q) : \A x \in s :
        s \ {x} \in SUBSET (P \cap Q) /\ Cardinality(s) \in Nat
          /\ Cardinality(s \ {x}) = Cardinality(s) - 1
  BY <1>1, Smaller
<1>4. ASSUME NEW n \in Nat, n \in Agreed PROVE n + 1 \in Agreed
  <2> SUFFICES ASSUME NEW s \in SUBSET (P \cap Q), Cardinality(s) = n + 1, Alike(s)
               PROVE  Fold(a, P)[s] = Fold(b, Q)[s]
    OBVIOUS
  <2>1. s # {}
    BY FS_EmptySet
  <2>0. s \in SUBSET P /\ s \in SUBSET Q
    OBVIOUS
  <2>2. First(s) \in s /\ Fold(a, P)[s] = a[First(s)] + Fold(a, P)[s \ {First(s)}]
    BY <2>0, <2>1, FoldUnfolds
  <2>3. Fold(b, Q)[s] = b[First(s)] + Fold(b, Q)[s \ {First(s)}]
    <3>1. \A t \in SUBSET Q : t # {} => Fold(b, Q)[t] = b[First(t)] + Fold(b, Q)[t \ {First(t)}]
      BY FoldUnfolds
    <3> QED BY <2>0, <2>1, <3>1
  <2>4. Fold(a, P)[s \ {First(s)}] = Fold(b, Q)[s \ {First(s)}]
    BY <1>3, <1>4, <2>2
  <2> QED BY <2>2, <2>3, <2>4
<1> HIDE DEF Agreed
<1>5. \A s \in SUBSET (P \cap Q) : Cardinality(s) \in Nat
  BY <1>1, FS_Subset, FS_CardinalityType
<1>6. Nat \subseteq Agreed
  BY <1>2, <1>4, SetInduction
<1> USE DEF Agreed
<1> QED BY <1>5, <1>6

----------------------------------------------------------------------------
(* The sum of the community modules is this fold.                          *)
LEMMA SumIsFold == ASSUME NEW a, NEW P PROVE SumFunctionOnSet(a, P) = Fold(a, P)[P]
BY DEF SumFunctionOnSet, FoldFunctionOnSet, MapThenFoldSet, Fold, FoldStep, First

LEMMA SumOfNone == ASSUME NEW a PROVE SumFunctionOnSet(a, {}) = 0
BY SumIsFold, FoldUnfolds, FS_EmptySet

(* A sum of natural numbers is one, and a sum of integers is one.          *)
LEMMA SumNat ==
  ASSUME NEW a, NEW P, IsFiniteSet(P), \A x \in P : a[x] \in Nat
  PROVE  SumFunctionOnSet(a, P) \in Nat
<1>1. 0 \in Nat /\ \A i, j \in Nat : i + j \in Nat
  OBVIOUS
<1>2. \A s \in SUBSET P : Fold(a, P)[s] \in Nat
  BY <1>1, FoldStays
<1> QED BY <1>2, SumIsFold

LEMMA SumInt ==
  ASSUME NEW a, NEW P, IsFiniteSet(P), \A x \in P : a[x] \in Int
  PROVE  SumFunctionOnSet(a, P) \in Int
<1>1. 0 \in Int /\ \A i, j \in Int : i + j \in Int
  OBVIOUS
<1>2. \A s \in SUBSET P : Fold(a, P)[s] \in Int
  BY <1>1, FoldStays
<1> QED BY <1>2, SumIsFold

(* The same members with the same amounts have the same sum. *)
LEMMA SumAgrees ==
  ASSUME NEW a, NEW b, NEW P, IsFiniteSet(P), \A x \in P : a[x] = b[x]
  PROVE  SumFunctionOnSet(a, P) = SumFunctionOnSet(b, P)
BY FoldAgrees, SumIsFold

(* A new member adds its amount. *)
LEMMA SumAdds ==
  ASSUME NEW a, NEW P, IsFiniteSet(P), NEW x, x \notin P,
         \A y \in P \cup {x} : a[y] \in Int
  PROVE  SumFunctionOnSet(a, P \cup {x}) = SumFunctionOnSet(a, P) + a[x]
<1>1. IsFiniteSet(P \cup {x}) /\ (P \cup {x}) \ {x} = P
  BY FS_AddElement
<1>2. Fold(a, P \cup {x})[P \cup {x}] = a[x] + Fold(a, P \cup {x})[P]
  BY <1>1, FoldSplits
<1>3. Fold(a, P \cup {x})[P] = Fold(a, P)[P]
  BY <1>1, FoldAgrees
<1>4. Fold(a, P)[P] \in Int /\ a[x] \in Int
  BY FoldStays
<1> QED BY <1>2, <1>3, <1>4, SumIsFold

----------------------------------------------------------------------------
(* A set of natural numbers that is not empty has a least member.          *)
LEMMA LeastMember ==
  ASSUME NEW T, T \subseteq Nat, T # {}
  PROVE  \E x \in T : \A y \in T : x <= y
<1>1. PICK x \in T : \A y \in T : ~ (<<y, x>> \in OpToRel(<, Nat))
  BY NatLessThanWellFounded, WFMin
<1>2. \A y \in T : x <= y
  <2> SUFFICES ASSUME NEW y \in T, ~ (x <= y) PROVE FALSE
    OBVIOUS
  <2>1. y < x /\ y \in Nat /\ x \in Nat
    OBVIOUS
  <2>2. <<y, x>> \in OpToRel(<, Nat)
    BY <2>1 DEF OpToRel
  <2> QED BY <1>1, <2>2
<1> QED BY <1>2

(* A finite set of integers that is not empty has a least member.          *)
LEMMA LeastInteger ==
  ASSUME NEW T, T \subseteq Int, IsFiniteSet(T), T # {}
  PROVE  Min(T) \in T /\ \A y \in T : Min(T) <= y
<1> DEFINE Led(S) == \E x \in S : \A y \in S : x <= y
           Leading == {n \in Nat : \A S \in SUBSET T : Cardinality(S) = n /\ S # {} => Led(S)}
<1>1. 0 \in Leading
  BY FS_Subset, FS_EmptySet
<1>2. ASSUME NEW n \in Nat, n \in Leading PROVE n + 1 \in Leading
  <2> SUFFICES ASSUME NEW S \in SUBSET T, Cardinality(S) = n + 1, S # {} PROVE Led(S)
    OBVIOUS
  <2>1. PICK z : z \in S
    OBVIOUS
  <2>2. S \ {z} \in SUBSET T /\ Cardinality(S \ {z}) = n
    <3>1. /\ Cardinality(S) \in Nat \ {0} /\ S \ {z} \in SUBSET T
          /\ Cardinality(S \ {z}) = Cardinality(S) - 1
      BY <2>1, Smaller
    <3> QED BY <3>1
  <2>3. CASE S \ {z} = {}
    <3>1. S = {z} /\ z \in Int
      BY <2>1, <2>3
    <3> QED BY <3>1
  <2>4. CASE S \ {z} # {}
    <3>1. PICK x \in S \ {z} : \A y \in S \ {z} : x <= y
      BY <1>2, <2>2, <2>4
    <3>2. x \in Int /\ z \in Int
      BY <2>1
    <3>3. CASE x <= z
      BY <3>1, <3>3
    <3>4. CASE z <= x
      BY <2>1, <3>1, <3>2, <3>4
    <3> QED BY <3>2, <3>3, <3>4
  <2> QED BY <2>3, <2>4
<1> HIDE DEF Leading
<1>3. Cardinality(T) \in Leading
  BY <1>1, <1>2, SetInduction, FS_CardinalityType
<1> USE DEF Leading
<1>4. Led(T)
  BY <1>3
<1> QED BY <1>4 DEF Min
============================================================================
