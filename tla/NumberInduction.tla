-------------------------- MODULE NumberInduction --------------------------
(***************************************************************************)
(* Induction on numbers, for sets instead of predicates, and what follows: *)
(* the least and the greatest element of a set of numbers, and functions   *)
(* that are defined by recursion.                                          *)
(***************************************************************************)
EXTENDS Integers, TLAPS, WellFoundedInduction

\* A set of numbers that is not empty has a least one.
LEMMA LeastElement ==
  ASSUME NEW S, S \subseteq Nat, S # {}
  PROVE  \E x \in S : \A y \in S : x =< y
<1>1. IsWellFoundedOn(OpToRel(<, Nat), Nat)
  BY NatLessThanWellFounded
<1>2. PICK x \in S : \A y \in S : ~(<<y, x>> \in OpToRel(<, Nat))
  BY <1>1, WFMin
<1>3. ASSUME NEW y \in S PROVE ~ (y < x)
  <2>1. <<y, x>> \in Nat \X Nat
    OBVIOUS
  <2>2. ~(<<y, x>> \in OpToRel(<, Nat))
    BY <1>2
  <2>3. ~(<<y, x>> \in {ss \in Nat \X Nat : ss[1] < ss[2]})
    BY <2>2, Zenon DEF OpToRel
  <2> QED
    BY <2>1, <2>3
<1> QED
  BY <1>3

\* Induction on the numbers of D, for a set S of those that have a property: the
\* least number of D that is not in S could not be.
LEMMA Induction ==
  ASSUME NEW D, D \subseteq Nat, NEW S,
         0 \in D => 0 \in S,
         \A n \in D : n # 0 => n - 1 \in D /\ (n - 1 \in S => n \in S)
  PROVE  D \subseteq S
<1> SUFFICES ASSUME D \ S # {} PROVE FALSE
  OBVIOUS
<1>1. PICK n \in D \ S : \A m \in D \ S : n =< m
  BY LeastElement
<1>2. n # 0 /\ n \in Nat
  OBVIOUS
<1>3. n - 1 \in D \ S
  BY <1>2
<1> QED
  BY <1>1, <1>2, <1>3

\* The functions that have a at 0 and go on by step.
Recursive(D, V, a, step) ==
  {f \in [D -> V] : f[0] = a /\ \A n \in D \ {0} : f[n] = step[n][f[n - 1]]}

\* There is one: the parts of it up to each n agree.
LEMMA Recursion ==
  ASSUME NEW D, D \subseteq Nat, 0 \in D, \A n \in D : n # 0 => n - 1 \in D,
         NEW V, NEW a \in V, NEW step \in [D \ {0} -> [V -> V]]
  PROVE  Recursive(D, V, a, step) # {}
<1> DEFINE Upto(n) == {g \in [0..n -> V] : /\ g[0] = a
                                          /\ \A i \in 1..n : g[i] = step[i][g[i - 1]]}
           S == {n \in D : Upto(n) # {}}
           f == [n \in D |-> (CHOOSE g \in Upto(n) : TRUE)[n]]
<1>0. \A n \in D : 0..n \subseteq D
  <2> DEFINE T == {n \in D : 0..n \subseteq D}
  <2>1. 0 \in T
    OBVIOUS
  <2>2. \A n \in D : n # 0 => n - 1 \in D /\ (n - 1 \in T => n \in T)
    OBVIOUS
  <2>3. D \subseteq T
    <3> HIDE DEF T
    <3> QED
      BY <2>1, <2>2, Induction
  <2> QED
    BY <2>3
<1>1. D \subseteq S
  <2>1. 0 \in S
    <3>1. [i \in 0..0 |-> a] \in Upto(0)
      OBVIOUS
    <3> QED
      BY <3>1
  <2>2. ASSUME NEW n \in D, n # 0 PROVE n - 1 \in D /\ (n - 1 \in S => n \in S)
    <3>0. n - 1 \in D
      BY <2>2
    <3> SUFFICES ASSUME n - 1 \in S PROVE n \in S
      BY <3>0
    <3>1. PICK g : g \in Upto(n - 1)
      OBVIOUS
    <3> DEFINE h == [i \in 0..n |-> IF i = n THEN step[n][g[n - 1]] ELSE g[i]]
    <3>2. n \in Nat /\ n - 1 \in Nat /\ step[n] \in [V -> V] /\ g[n - 1] \in V
      BY <2>2, <3>1
    <3>3. h \in [0..n -> V]
      BY <3>1, <3>2
    <3>4. h[0] = a
      BY <2>2, <3>1, <3>2
    <3>5. ASSUME NEW i \in 1..n PROVE h[i] = step[i][h[i - 1]]
      BY <2>2, <3>1, <3>2
    <3>6. h \in Upto(n)
      BY <3>3, <3>4, <3>5
    <3> QED
      BY <3>6
  <2> QED
    <3> HIDE DEF S
    <3> QED
      BY <2>1, <2>2, Induction
<1>2. ASSUME NEW n \in D, NEW m \in D, NEW g \in Upto(n), NEW h \in Upto(m), m =< n
      PROVE  g[m] = h[m]
  <2> DEFINE T == {i \in 0..m : g[i] = h[i]}
  <2>1. 0 \in T /\ 0..m \subseteq Nat /\ m \in Nat /\ n \in Nat
    OBVIOUS
  <2>2. ASSUME NEW i \in 0..m, i # 0 PROVE i - 1 \in 0..m /\ (i - 1 \in T => i \in T)
    <3>1. i \in 1..n /\ i \in 1..m
      BY <1>2, <2>1, <2>2
    <3>2. g[i] = step[i][g[i - 1]] /\ h[i] = step[i][h[i - 1]]
      BY <3>1
    <3> QED
      BY <3>1, <3>2, <2>1
  <2>3. 0..m \subseteq T
    <3> HIDE DEF T
    <3> QED
      BY <2>1, <2>2, Induction
  <2> QED
    BY <2>1, <2>3
<1>3. \A n \in D : (CHOOSE g \in Upto(n) : TRUE) \in Upto(n)
  BY <1>1
<1>4. f \in [D -> V]
  BY <1>3
<1>5. f[0] = a
  BY <1>3
<1>6. ASSUME NEW n \in D, n # 0 PROVE f[n] = step[n][f[n - 1]]
  <2>1. n \in Nat /\ n - 1 \in D /\ n - 1 =< n /\ n \in 1..n
    BY <1>6
  <2>2. PICK g \in Upto(n) : g = CHOOSE x \in Upto(n) : TRUE
    BY <1>3
  <2>3. PICK h \in Upto(n - 1) : h = CHOOSE x \in Upto(n - 1) : TRUE
    BY <1>3, <2>1
  <2>4. f[n] = g[n] /\ f[n - 1] = h[n - 1]
    BY <2>1, <2>2, <2>3
  <2>5. g[n - 1] = h[n - 1]
    BY <1>2, <2>1
  <2>6. g[n] = step[n][g[n - 1]]
    BY <2>1
  <2> QED
    BY <2>4, <2>5, <2>6
<1> HIDE DEF f
<1>7. f \in Recursive(D, V, a, step)
  BY <1>4, <1>5, <1>6 DEF Recursive
<1> QED
  BY <1>7
=============================================================================
