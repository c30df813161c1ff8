------------------------------ MODULE Inducao ------------------------------
(***************************************************************************)
(* Induction over the naturals, in the form of facts about sets: the       *)
(* theorems of NaturalsInduction take the induction formula as an operator,*)
(* which the provers cannot instantiate, while a set is an ordinary value. *)
(***************************************************************************)
EXTENDS Integers, WellFoundedInduction, FiniteSetTheorems, TLAPS

\* Every set of naturals has a least element.
LEMMA MenorNatural ==
    ASSUME NEW T, T \subseteq Nat, T # {}
    PROVE  \E x \in T : \A y \in T : x <= y
  <1> DEFINE R == OpToRel(<, Nat)
  <1>1. IsWellFoundedOn(R, Nat)
    BY NatLessThanWellFounded
  <1>2. \A x, y \in T : y < x => <<y, x>> \in R
    BY DEF OpToRel
  <1> HIDE DEF R
  <1>3. PICK x \in T : \A y \in T : ~(<<y, x>> \in R)
    BY <1>1, WFMin
  <1>4. \A y \in T : ~(y < x)
    BY <1>2, <1>3
  <1>5. \A y \in T : x <= y
    BY <1>4
  <1> QED
    BY <1>5

\* A set that holds 0 and, up to n, the successor of each number it holds,
\* holds every number up to n.
LEMMA InducaoAte ==
    ASSUME NEW n \in Nat, NEW S, 0 \in S,
           \A i \in 1..n : i - 1 \in S => i \in S
    PROVE  \A i \in 0..n : i \in S
  <1> SUFFICES ASSUME {i \in 0..n : i \notin S} # {} PROVE FALSE
    OBVIOUS
  <1> DEFINE T == {i \in 0..n : i \notin S}
  <1>1. T \subseteq Nat /\ T # {}
    OBVIOUS
  <1> HIDE DEF T
  <1>2. PICK x \in T : \A y \in T : x <= y
    BY <1>1, MenorNatural
  <1>3. x \in 1..n /\ x \notin S /\ x - 1 \in 0..n
    BY <1>2 DEF T
  <1>4. x - 1 \notin T
    BY <1>2, <1>3
  <1> QED
    BY <1>3, <1>4 DEF T

\* The elements of a finite set of naturals can be put in increasing order.
LEMMA OrdemExiste ==
    ASSUME NEW S, S \subseteq Nat, IsFiniteSet(S)
    PROVE  \E f \in [1..Cardinality(S) -> S] :
              \A i, j \in 1..Cardinality(S) : i < j => f[i] < f[j]
  <1> DEFINE Crescente(f, n) == \A i, j \in 1..n : i < j => f[i] < f[j]
             N == {n \in Nat : \A T \in SUBSET S :
                      Cardinality(T) = n => \E f \in [1..n -> T] : Crescente(f, n)}
  <1>1. Cardinality(S) \in Nat /\ \A T \in SUBSET S : IsFiniteSet(T)
    BY FS_CardinalityType, FS_Subset
  <1>2. 0 \in N
    <2>1. SUFFICES ASSUME NEW T \in SUBSET S
                   PROVE  \E f \in [1..0 -> T] : Crescente(f, 0)
      OBVIOUS
    <2>2. [i \in 1..0 |-> 0] \in [1..0 -> T] /\ Crescente([i \in 1..0 |-> 0], 0)
      OBVIOUS
    <2> QED
      BY <2>2
  <1>3. ASSUME NEW n \in 1..Cardinality(S), n - 1 \in N PROVE n \in N
    <2>1. n \in Nat /\ n - 1 \in Nat /\ n >= 1
      BY <1>1
    <2>2. SUFFICES ASSUME NEW T \in SUBSET S, Cardinality(T) = n
                   PROVE  \E f \in [1..n -> T] : Crescente(f, n)
      BY <2>1
    <2>3. T # {} /\ T \subseteq Nat
      BY <2>1, <2>2, FS_EmptySet
    <2>4. PICK x \in T : \A y \in T : x <= y
      BY <2>3, MenorNatural
    <2> DEFINE U == T \ {x}
    <2>5. Cardinality(U) = n - 1 /\ U \in SUBSET S
      BY <1>1, <2>2, <2>4, FS_RemoveElement
    <2>6. PICK g \in [1..(n - 1) -> U] : Crescente(g, n - 1)
      BY <1>3, <2>5
    <2> DEFINE f == [i \in 1..n |-> IF i = 1 THEN x ELSE g[i - 1]]
    <2>7. \A i \in 1..(n - 1) : g[i] \in Nat /\ x < g[i] /\ g[i] \in T
      <3>1. \A y \in U : y \in Nat /\ x < y /\ y \in T
        BY <2>3, <2>4
      <3> QED
        BY <2>6, <3>1
    <2>8. f \in [1..n -> T]
      BY <2>1, <2>7
    <2>9. Crescente(f, n)
      <3> SUFFICES ASSUME NEW i \in 1..n, NEW j \in 1..n, i < j PROVE f[i] < f[j]
        OBVIOUS
      <3>1. j - 1 \in 1..(n - 1) /\ f[j] = g[j - 1]
        BY <2>1
      <3>2. CASE i = 1
        BY <2>7, <3>1, <3>2
      <3>3. CASE i # 1
        <4>1. i - 1 \in 1..(n - 1) /\ i - 1 < j - 1 /\ f[i] = g[i - 1]
          BY <2>1, <3>3
        <4> QED
          BY <2>6, <3>1, <4>1
      <3> QED
        BY <3>2, <3>3
    <2> QED
      BY <2>8, <2>9
  <1> HIDE DEF N
  <1>4. \A i \in 0..Cardinality(S) : i \in N
    BY <1>1, <1>2, <1>3, InducaoAte
  <1>5. Cardinality(S) \in N
    BY <1>1, <1>4
  <1> QED
    BY <1>5 DEF N
=============================================================================
