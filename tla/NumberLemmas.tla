---------------------------- MODULE NumberLemmas ----------------------------
(***************************************************************************)
(* Facts about numbers that the proofs about the components use: least and *)
(* greatest elements, induction, and the minima, maxima and quotients in   *)
(* which the scores and margins of the models are written.  What would be  *)
(* a predicate is a set: one of naturals that is not empty has a least     *)
(* and, if it is bounded, a greatest element, and one that contains 0 and  *)
(* every successor contains them all.  The members of a finite set that an *)
(* order tells apart have ranks, from which the first and the least come.  *)
(***************************************************************************)
EXTENDS Integers, FiniteSetsExt, WellFoundedInduction, FiniteSetTheorems, TLAPS

\* A set of naturals that is not empty has a least element, because the order
\* of the naturals is well-founded.
LEMMA LeastNatural ==
    ASSUME NEW T, T \subseteq Nat, T # {}
    PROVE  \E x \in T : \A y \in T : x <= y
  <1>1. PICK R : /\ IsWellFoundedOn(R, Nat)
                 /\ \A x, y \in Nat : x < y => <<x, y>> \in R
    <2>1. \A x, y \in Nat : x < y => <<x, y>> \in OpToRel(<, Nat)
      BY DEF OpToRel
    <2> QED
      BY <2>1, NatLessThanWellFounded
  <1>2. IsWellFoundedOn(R, Nat)
    BY <1>1
  <1>3. PICK x \in T : \A y \in T : ~ (<<y, x>> \in R)
    BY <1>2, WFMin
  <1>4. ASSUME NEW y \in T PROVE x <= y
    <2>1. x \in Nat /\ y \in Nat
      OBVIOUS
    <2>2. ~ (<<y, x>> \in R)
      BY <1>3
    <2>3. ~ (y < x)
      BY <1>1, <2>1, <2>2
    <2> QED
      BY <2>1, <2>3
  <1> QED
    BY <1>4

\* A bounded set of naturals that is not empty has a greatest element: the one
\* nearest to the bound.
LEMMA GreatestNatural ==
    ASSUME NEW T, T \subseteq Nat, T # {}, NEW bound \in Nat, \A y \in T : y <= bound
    PROVE  \E x \in T : \A y \in T : y <= x
  <1> DEFINE D == {d \in Nat : bound - d \in T}
  <1>1. D \subseteq Nat
    OBVIOUS
  <1>2. D # {}
    <2>1. PICK y \in T : TRUE
      OBVIOUS
    <2>2. y \in Nat /\ y <= bound
      OBVIOUS
    <2>3. bound - y \in Nat /\ bound - (bound - y) = y
      BY <2>2
    <2>4. bound - y \in D
      BY <2>1, <2>3
    <2> QED
      BY <2>4
  <1>3. PICK d \in D : \A e \in D : d <= e
    <2> HIDE DEF D
    <2> QED
      BY <1>1, <1>2, LeastNatural
  <1>4. ASSUME NEW y \in T PROVE y <= bound - d
    <2>1. y \in Nat /\ y <= bound
      OBVIOUS
    <2>2. bound - y \in Nat /\ bound - (bound - y) = y
      BY <2>1
    <2>3. bound - y \in D
      BY <2>2
    <2>4. d <= bound - y /\ d \in Nat
      BY <1>3, <2>3
    <2> QED
      BY <2>1, <2>4
  <1> QED
    BY <1>3, <1>4

\* A set that contains 0, and with every natural its successor, contains the
\* naturals.
LEMMA Induction ==
    ASSUME NEW T, 0 \in T, \A n \in Nat : n \in T => n + 1 \in T
    PROVE  Nat \subseteq T
  <1> SUFFICES ASSUME Nat \ T # {} PROVE FALSE
    OBVIOUS
  <1>1. PICK x \in Nat \ T : \A y \in Nat \ T : x <= y
    <2>1. Nat \ T \subseteq Nat
      OBVIOUS
    <2> QED
      BY <2>1, LeastNatural
  <1>2. x # 0 /\ x \in Nat
    OBVIOUS
  <1>3. x - 1 \in Nat /\ ~ (x <= x - 1) /\ (x - 1) + 1 = x
    BY <1>2
  <1>4. x - 1 \in T
    BY <1>1, <1>3
  <1> QED
    BY <1>1, <1>3, <1>4

-----------------------------------------------------------------------------
(* Quotients and products *)

\* A quotient has the sign of what is divided.
LEMMA QuotientSign ==
    ASSUME NEW a \in Int, NEW b \in Nat \ {0}
    PROVE  a \div b \in Int /\ (a \div b < 0 <=> a < 0)
  OBVIOUS

LEMMA ProductTyped ==
    ASSUME NEW a \in Nat, NEW b \in Nat
    PROVE  a * b \in Nat
  OBVIOUS

LEMMA QuotientTyped ==
    ASSUME NEW a \in Nat, NEW b \in Nat \ {0}
    PROVE  a \div b \in Nat
  OBVIOUS

-----------------------------------------------------------------------------
(* Minima and maxima *)

LEMMA MaxOfTwo ==
    ASSUME NEW a \in Int, NEW b \in Int
    PROVE  Max({a, b}) \in {a, b} /\ Max({a, b}) >= a /\ Max({a, b}) >= b
  <1>1. \E x \in {a, b} : \A y \in {a, b} : x >= y
    OBVIOUS
  <1> QED
    BY <1>1 DEF Max

LEMMA MaxTyped ==
    ASSUME NEW a \in Int, NEW b \in Int
    PROVE  Max({a, b}) \in Int
  BY MaxOfTwo

LEMMA MinOfTwo ==
    ASSUME NEW a \in Int, NEW b \in Int
    PROVE  Min({a, b}) \in {a, b} /\ Min({a, b}) <= a /\ Min({a, b}) <= b
  <1>1. \E x \in {a, b} : \A y \in {a, b} : x <= y
    OBVIOUS
  <1> QED
    BY <1>1 DEF Min

LEMMA MinIs ==
    ASSUME NEW S, S \subseteq Int, \E x \in S : \A y \in S : x <= y
    PROVE  Min(S) \in S /\ \A y \in S : Min(S) <= y
  BY DEF Min

\* Of four integers one is the least.
LEMMA MinOfFour ==
    ASSUME NEW a \in Int, NEW b \in Int, NEW c \in Int, NEW d \in Int
    PROVE  /\ Min({a, b, c, d}) \in {a, b, c, d}
           /\ \A y \in {a, b, c, d} : Min({a, b, c, d}) <= y
  <1>1. \E x \in {a, b, c, d} : \A y \in {a, b, c, d} : x <= y
    <2>1. \E x \in {a, b} : x <= a /\ x <= b
      OBVIOUS
    <2>2. \E x \in {c, d} : x <= c /\ x <= d
      OBVIOUS
    <2>3. PICK x \in {a, b}, y \in {c, d} : x <= a /\ x <= b /\ y <= c /\ y <= d
      BY <2>1, <2>2
    <2>4. CASE x <= y
      BY <2>3, <2>4
    <2>5. CASE y <= x
      BY <2>3, <2>5
    <2>6. x \in Int /\ y \in Int
      OBVIOUS
    <2> QED
      BY <2>4, <2>5, <2>6
  <1> QED
    BY <1>1, MinIs

\* A set of integers with a least one.
HasLeast(S) == S \subseteq Int /\ \E x \in S : \A y \in S : x <= y

LEMMA LeastOfOne ==
    ASSUME NEW a \in Int
    PROVE  HasLeast({a})
  BY DEF HasLeast

LEMMA LeastOfUnion ==
    ASSUME NEW S, NEW T, HasLeast(S), HasLeast(T)
    PROVE  HasLeast(S \union T)
  <1>1. PICK x \in S, y \in T : (\A s \in S : x <= s) /\ (\A t \in T : y <= t)
    BY DEF HasLeast
  <1>2. x \in Int /\ y \in Int /\ S \union T \subseteq Int
    BY DEF HasLeast
  <1>3. CASE x <= y
    <2>1. \A z \in S \union T : x <= z
      BY <1>1, <1>2, <1>3
    <2> QED
      BY <1>2, <2>1 DEF HasLeast
  <1>4. CASE y <= x
    <2>1. \A z \in S \union T : y <= z
      BY <1>1, <1>2, <1>4
    <2> QED
      BY <1>2, <2>1 DEF HasLeast
  <1> QED
    BY <1>2, <1>3, <1>4

LEMMA LeastOfTwo ==
    ASSUME NEW a \in Int, NEW b \in Int
    PROVE  HasLeast({a, b})
  BY DEF HasLeast

LEMMA LeastOfThree ==
    ASSUME NEW a \in Int, NEW b \in Int, NEW c \in Int
    PROVE  HasLeast({a, b, c})
  <1>1. HasLeast({a, b} \union {c})
    BY LeastOfOne, LeastOfTwo, LeastOfUnion
  <1>2. {a, b} \union {c} = {a, b, c}
    OBVIOUS
  <1> QED
    BY <1>1, <1>2

LEMMA MinTyped ==
    ASSUME NEW S, HasLeast(S)
    PROVE  Min(S) \in Int
  BY MinIs DEF HasLeast

\* What something is held against is at least one.
LEMMA AtLeastOne ==
    ASSUME NEW a \in Int
    PROVE  Max({1, a}) \in Nat \ {0}
  <1>1. PICK one \in Int : one = 1
    OBVIOUS
  <1>2. Max({one, a}) \in {one, a} /\ Max({one, a}) >= one
    BY MaxOfTwo
  <1> QED
    BY <1>1, <1>2

\* Whoever comes before the members of a finite set under the order R.
Preceding(R, S, c) == {d \in S : <<d, c>> \in R}

Orders(R, S) ==
    /\ \A x \in S : <<x, x>> \notin R
    /\ \A x, y, z \in S : <<x, y>> \in R /\ <<y, z>> \in R => <<x, z>> \in R
    /\ \A x, y \in S : x # y => <<x, y>> \in R \/ <<y, x>> \in R

\* Who comes earlier has fewer before it, and nobody has everybody before it.
LEMMA PrecedingGrow ==
    ASSUME NEW R, NEW S, IsFiniteSet(S), Orders(R, S), NEW c \in S
    PROVE  /\ Cardinality(Preceding(R, S, c)) \in 0 .. Cardinality(S) - 1
           /\ \A d \in S : <<d, c>> \in R =>
                 Cardinality(Preceding(R, S, d)) < Cardinality(Preceding(R, S, c))
  <1>1. ASSUME NEW d \in S
        PROVE  /\ Preceding(R, S, d) \subseteq S \ {d}
               /\ IsFiniteSet(Preceding(R, S, d))
               /\ Cardinality(Preceding(R, S, d)) \in Nat
    <2>1. Preceding(R, S, d) \subseteq S \ {d} /\ Preceding(R, S, d) \subseteq S
      BY DEF Preceding, Orders
    <2> QED
      BY <2>1, FS_Subset, FS_CardinalityType
  <1>2. Cardinality(Preceding(R, S, c)) \in 0 .. Cardinality(S) - 1
    <2>1. /\ IsFiniteSet(S \ {c})
          /\ Cardinality(S \ {c}) = Cardinality(S) - 1
      BY FS_RemoveElement
    <2>2. Cardinality(Preceding(R, S, c)) <= Cardinality(S \ {c})
      BY <1>1, <2>1, FS_Subset
    <2> QED
      BY <1>1, <2>1, <2>2, FS_CardinalityType
  <1>3. ASSUME NEW d \in S, <<d, c>> \in R
        PROVE  Cardinality(Preceding(R, S, d)) < Cardinality(Preceding(R, S, c))
    <2>1. d \notin Preceding(R, S, d)
      BY DEF Preceding, Orders
    <2>2. Preceding(R, S, d) \cup {d} \subseteq Preceding(R, S, c)
      BY <1>3 DEF Preceding, Orders
    <2>3. Cardinality(Preceding(R, S, d) \cup {d}) = Cardinality(Preceding(R, S, d)) + 1
      BY <1>1, <2>1, FS_AddElement
    <2>4. Cardinality(Preceding(R, S, d) \cup {d}) <= Cardinality(Preceding(R, S, c))
      BY <1>1, <2>2, FS_Subset
    <2> QED
      BY <1>1, <2>3, <2>4
  <1> QED
    BY <1>2, <1>3

\* Every rank is somebody's: the counts are as many as the members, and differ.
LEMMA EveryRankIsTaken ==
    ASSUME NEW R, NEW S, IsFiniteSet(S), Orders(R, S),
           NEW k \in 0 .. Cardinality(S) - 1
    PROVE  \E c \in S : Cardinality(Preceding(R, S, c)) = k
  <1> DEFINE count == [c \in S |-> Cardinality(Preceding(R, S, c))]
  <1>1. PICK n \in Nat : n = Cardinality(S)
    BY FS_CardinalityType
  <1>2. n > 0
    BY <1>1
  <1>3. count \in [S -> 0 .. n - 1]
    BY <1>1, PrecedingGrow
  <1>4. ASSUME NEW c \in S, NEW d \in S, count[c] = count[d]
        PROVE  c = d
    <2>1. count[c] \in Int /\ count[d] \in Int
      BY <1>1, <1>3
    <2>2. ~ (count[c] < count[d]) /\ ~ (count[d] < count[c])
      BY <1>4, <2>1
    <2>3. <<c, d>> \notin R /\ <<d, c>> \notin R
      BY <2>2, PrecedingGrow
    <2> QED
      BY <2>3 DEF Orders
  <1>5. count \in Injection(S, 0 .. n - 1)
    <2> HIDE DEF count
    <2> QED
      BY <1>3, <1>4 DEF Injection, IsInjective
  <1>6. IsFiniteSet(0 .. n - 1) /\ Cardinality(0 .. n - 1) = n
    <2>1. 0 \in Int /\ n - 1 \in Int /\ ~ (0 > n - 1) /\ n - 1 - 0 + 1 = n
      BY <1>2
    <2> QED
      BY <2>1, FS_Interval
  <1>7. count \in Surjection(S, 0 .. n - 1)
    <2> HIDE DEF count
    <2> QED
      BY <1>1, <1>5, <1>6, FS_Injection
  <1>8. PICK c \in S : count[c] = k
    <2> HIDE DEF count
    <2> QED
      BY <1>1, <1>7 DEF Surjection
  <1> QED
    BY <1>8

\* Somebody comes before all others.
LEMMA SomebodyIsFirst ==
    ASSUME NEW R, NEW S, IsFiniteSet(S), Orders(R, S), S # {}
    PROVE  \E c \in S : \A d \in S \ {c} : <<c, d>> \in R
  <1>1. Cardinality(S) \in Nat \ {0}
    BY FS_CardinalityType, FS_EmptySet
  <1>2. PICK c \in S : Cardinality(Preceding(R, S, c)) = 0
    <2>1. 0 \in 0 .. Cardinality(S) - 1
      BY <1>1
    <2> QED
      BY <2>1, EveryRankIsTaken
  <1>3. Preceding(R, S, c) = {}
    <2>1. Preceding(R, S, c) \subseteq S
      BY DEF Preceding
    <2> QED
      BY <1>2, <2>1, FS_Subset, FS_EmptySet
  <1>4. ASSUME NEW d \in S \ {c} PROVE <<c, d>> \in R
    BY <1>3 DEF Preceding, Orders
  <1> QED
    BY <1>4

\* A finite set of integers has a least one.
LEMMA FiniteHasLeast ==
    ASSUME NEW S, IsFiniteSet(S), S \subseteq Int, S # {}
    PROVE  HasLeast(S)
  <1>1. PICK R : R = {p \in S \X S : p[1] < p[2]}
    OBVIOUS
  <1>2. \A x, y \in S : <<x, y>> \in R <=> x < y
    BY <1>1
  <1>3. Orders(R, S)
    <2>1. \A x, y \in S : x # y => x < y \/ y < x
      OBVIOUS
    <2> QED
      BY <1>2, <2>1 DEF Orders
  <1>4. \E c \in S : \A d \in S \ {c} : <<c, d>> \in R
    <2>1. IsFiniteSet(S) /\ S # {} /\ Orders(R, S)
      BY <1>3
    <2> QED
      BY ONLY <2>1, SomebodyIsFirst
  <1>5. PICK c \in S : \A d \in S \ {c} : <<c, d>> \in R
    BY <1>4
  <1>6. ASSUME NEW d \in S PROVE c <= d
    <2>1. d # c => c < d
      BY <1>2, <1>5
    <2>2. c \in Int /\ d \in Int
      OBVIOUS
    <2> QED
      BY <2>1, <2>2
  <1> QED
    BY <1>6 DEF HasLeast

=============================================================================
