----------------------------- MODULE TallyProofs -----------------------------
(* Lemmas about numbers that several proofs need: the sums of Tally,       *)
(* remainders, and induction over a set of natural numbers.                *)
EXTENDS Tally, TLAPS, FiniteSetTheorems, WellFoundedInduction

(* A unit is an element with a number up to its value.                      *)
LEMMA UnitsAre ==
  ASSUME NEW S, NEW f \in [S -> Nat]
  PROVE  \A u : u \in Units(f) <=>
             \E x \in S, k \in Nat : u = <<x, k>> /\ k >= 1 /\ k <= f[x]
BY DEF Units

(* The units of one element, as many as its value.                         *)
LEMMA OwnUnits ==
  ASSUME NEW x, NEW n \in Nat
  PROVE  IsFiniteSet({x} \X (1 .. n)) /\ Cardinality({x} \X (1 .. n)) = n
<1>1. IsFiniteSet({x}) /\ Cardinality({x}) = 1
  BY FS_Singleton
<1>2. IsFiniteSet(1 .. n) /\ Cardinality(1 .. n) = n
  BY FS_Interval
<1>3. /\ IsFiniteSet({x} \X (1 .. n))
      /\ Cardinality({x} \X (1 .. n)) = Cardinality({x}) * Cardinality(1 .. n)
  BY <1>1, <1>2, FS_Product
<1> QED
  BY <1>1, <1>2, <1>3

(* The units of finitely many elements are finitely many.                   *)
LEMMA UnitsFinite ==
  ASSUME NEW S, IsFiniteSet(S), NEW f \in [S -> Nat]
  PROVE  IsFiniteSet(Units(f)) /\ SumOf(f) \in Nat
<1> DEFINE Own == [x \in S |-> {x} \X (1 .. f[x])]
           T == {{x} \X (1 .. f[x]) : x \in S}
<1>1. Own \in Surjection(S, T)
  BY DEF Surjection
<1>2. IsFiniteSet(T)
  <2> HIDE DEF Own, T
  <2> QED
    BY <1>1, FS_Surjection, Zenon
<1>3. \A t \in T : IsFiniteSet(t)
  <2>1. \A x \in S : IsFiniteSet({x} \X (1 .. f[x]))
    BY OwnUnits
  <2> QED
    BY <2>1
<1>4. IsFiniteSet(UNION T)
  BY <1>2, <1>3, FS_UNION
<1>5. Units(f) = UNION T
  BY DEF Units
<1> HIDE DEF T
<1> QED
  BY <1>4, <1>5, FS_CardinalityType DEF SumOf

(* A sum is what one element has, and the rest.                            *)
LEMMA SumSplits ==
  ASSUME NEW S, IsFiniteSet(S), NEW f \in [S -> Nat], NEW x \in S
  PROVE  SumOf(f) = f[x] + SumOf([f EXCEPT ![x] = 0])
<1> DEFINE g == [f EXCEPT ![x] = 0]
           Own == {x} \X (1 .. f[x])
<1>1. g \in [S -> Nat] /\ g[x] = 0 /\ \A y \in S : y # x => g[y] = f[y]
  OBVIOUS
<1>2. /\ IsFiniteSet(Units(g))
      /\ SumOf(g) \in Nat
      /\ SumOf(g) = Cardinality(Units(g))
  BY <1>1, UnitsFinite DEF SumOf
<1>3. IsFiniteSet(Own) /\ Cardinality(Own) = f[x]
  BY OwnUnits
<1> HIDE DEF g
<1>4. \A u : u \in Units(g) <=>
             \E y \in S, k \in Nat : u = <<y, k>> /\ k >= 1 /\ k <= g[y]
  BY <1>1, UnitsAre
<1>5. \A u : u \in Units(f) <=>
             \E y \in S, k \in Nat : u = <<y, k>> /\ k >= 1 /\ k <= f[y]
  BY UnitsAre
<1>6. \A u : u \in Own <=> \E k \in Nat : u = <<x, k>> /\ k >= 1 /\ k <= f[x]
  OBVIOUS
<1> HIDE DEF Own
<1>7. Own \cap Units(g) = {}
  BY <1>1, <1>4, <1>6
<1>8. Units(f) = Own \cup Units(g)
  <2>1. ASSUME NEW u \in Units(f) PROVE u \in Own \cup Units(g)
    BY <1>1, <1>4, <1>5, <1>6
  <2>2. ASSUME NEW u \in Own PROVE u \in Units(f)
    BY <1>5, <1>6
  <2>3. ASSUME NEW u \in Units(g) PROVE u \in Units(f)
    BY <1>1, <1>4, <1>5
  <2> QED
    BY <2>1, <2>2, <2>3
<1>9. Cardinality(Units(f)) =
          Cardinality(Own) + Cardinality(Units(g)) - Cardinality(Own \cap Units(g))
  BY <1>2, <1>3, <1>8, FS_Union
<1>10. Cardinality(Own \cap Units(g)) = 0
  BY <1>7, FS_EmptySet
<1>11. f[x] \in Nat /\ Cardinality(Units(g)) \in Nat
  BY <1>2
<1>12. Cardinality(Units(f)) = f[x] + Cardinality(Units(g))
  BY <1>3, <1>9, <1>10, <1>11
<1> QED
  BY <1>12 DEF SumOf, g

(* What one change does to a sum.                                          *)
LEMMA SumChanges ==
  ASSUME NEW S, IsFiniteSet(S), NEW f \in [S -> Nat], NEW g \in [S -> Nat],
         NEW x \in S, \A y \in S : y # x => g[y] = f[y]
  PROVE  SumOf(g) = SumOf(f) + g[x] - f[x]
<1>1. [g EXCEPT ![x] = 0] = [f EXCEPT ![x] = 0]
  OBVIOUS
<1>2. [f EXCEPT ![x] = 0] \in [S -> Nat]
  OBVIOUS
<1>3. SumOf([f EXCEPT ![x] = 0]) \in Nat
  BY <1>2, UnitsFinite
<1>4. /\ SumOf(f) = f[x] + SumOf([f EXCEPT ![x] = 0])
      /\ SumOf(g) = g[x] + SumOf([g EXCEPT ![x] = 0])
  BY SumSplits
<1> QED
  BY <1>1, <1>3, <1>4

(* A sum of zeros, and one of a single value that is not.                  *)
LEMMA SumOfNone ==
  ASSUME NEW S, NEW f \in [S -> Nat], \A y \in S : f[y] = 0
  PROVE  SumOf(f) = 0
<1>1. Units(f) = {}
  BY UnitsAre
<1> QED
  BY <1>1, FS_EmptySet DEF SumOf

(* A sum of one value and zeros.                                            *)
LEMMA SumOfOne ==
  ASSUME NEW S, IsFiniteSet(S), NEW f \in [S -> Nat], NEW x \in S,
         \A y \in S : y # x => f[y] = 0
  PROVE  SumOf(f) = f[x]
<1> DEFINE g == [f EXCEPT ![x] = 0]
<1>1. g \in [S -> Nat] /\ \A y \in S : g[y] = 0
  OBVIOUS
<1>2. SumOf(f) = f[x] + SumOf(g)
  BY SumSplits
<1> HIDE DEF g
<1>3. SumOf(g) = 0
  BY <1>1, SumOfNone
<1> QED
  BY <1>2, <1>3

-----------------------------------------------------------------------------
(* Division by m: a quotient and a remainder.                              *)
LEMMA QuotientOf ==
  ASSUME NEW m \in Nat, m > 0, NEW y \in Int
  PROVE  /\ y \div m \in Int /\ y % m \in 0 .. m - 1
         /\ y = m * (y \div m) + (y % m)
<1>1. y \div m \in Int
  OBVIOUS
<1>2. y % m \in 0 .. m - 1
  OBVIOUS
<1>3. y = m * (y \div m) + (y % m)
  OBVIOUS
<1> QED
  BY <1>1, <1>2, <1>3

(* Remainders that differ by a multiple of m are the same.                  *)
LEMMA OnlyZero ==
  ASSUME NEW m \in Nat, m > 0, NEW q \in Int,
         NEW r \in 0 .. m - 1, NEW s \in 0 .. m - 1, r - s = m * q
  PROVE  q = 0
OBVIOUS

(* A multiple of m does not change the remainder.                          *)
LEMMA SameRemainder ==
  ASSUME NEW m \in Nat, m > 0, NEW y \in Int, NEW k \in Int
  PROVE  (y + m * k) % m = y % m
<1> DEFINE z == y + m * k
           q == (z \div m) - ((y \div m) + k)
<1>1. /\ y \div m \in Int /\ y % m \in 0 .. m - 1
      /\ y = m * (y \div m) + (y % m)
  BY QuotientOf
<1>2. z \in Int
  OBVIOUS
<1>3. /\ z \div m \in Int /\ z % m \in 0 .. m - 1
      /\ z = m * (z \div m) + (z % m)
  <2> HIDE DEF z
  <2> QED
    BY <1>2, QuotientOf
<1>4. q \in Int /\ (y % m) - (z % m) = m * q
  BY <1>1, <1>3
<1>5. q = 0
  <2> HIDE DEF z, q
  <2> QED
    BY <1>1, <1>3, <1>4, OnlyZero
<1> QED
  BY <1>1, <1>3, <1>4, <1>5

-----------------------------------------------------------------------------
(* A set of natural numbers has a least one.                               *)
LEMMA LeastNat ==
  ASSUME NEW T \in SUBSET Nat, T # {}
  PROVE  \E x \in T : \A y \in T : x <= y
<1> DEFINE R == OpToRel(<, Nat)
<1>1. IsWellFoundedOn(R, Nat)
  BY NatLessThanWellFounded
<1>2. R = {ss \in Nat \X Nat : ss[1] < ss[2]}
  BY DEF OpToRel
<1> HIDE DEF R
<1>3. PICK x \in T : \A y \in T : ~ (<<y, x>> \in R)
  BY <1>1, WFMin
<1>4. \A y \in T : ~(y < x)
  BY <1>2, <1>3
<1> QED
  BY <1>4

(* Induction, over a set of natural numbers.                                *)
LEMMA Inductive ==
  ASSUME NEW T \in SUBSET Nat, 0 \in T, \A n \in T : n + 1 \in T
  PROVE  T = Nat
<1> SUFFICES ASSUME Nat \ T # {} PROVE FALSE
  OBVIOUS
<1>1. PICK x \in Nat \ T : \A y \in Nat \ T : x <= y
  BY LeastNat
<1>2. x # 0 /\ x - 1 \in Nat /\ x - 1 \in T
  BY <1>1
<1> QED
  BY <1>1, <1>2
=============================================================================
