----------------------------- MODULE NumberLemmas -----------------------------
(***************************************************************************)
(* Facts about natural numbers that the proofs about the parts of the      *)
(* agent share: the least member of a set, and the values of a function    *)
(* that is defined by recursion on numbers.                                *)
(***************************************************************************)
EXTENDS Integers, WellFoundedInduction, TLAPS

\* A set of natural numbers that is not empty has a least member.
LEMMA LeastNumber ==
  ASSUME NEW S, S \subseteq Nat, S # {}
  PROVE  \E m \in S : \A n \in S : m <= n
<1>1. PICK m \in S : \A n \in S : <<n, m>> \notin OpToRel(<, Nat)
  BY WFMin, NatLessThanWellFounded
<1>2. \A n \in S : ~(n < m)
  BY <1>1 DEF OpToRel
<1>3. \A n \in S : m <= n
  BY <1>2
<1> QED BY <1>3

\* A set that holds 0, and with every number below N the next one, holds the
\* numbers up to N.
LEMMA Climb ==
  ASSUME NEW N \in Nat, NEW S, 0 \in S, \A n \in 0..N : n > 0 /\ n - 1 \in S => n \in S
  PROVE  0..N \subseteq S
<1> SUFFICES ASSUME 0..N \ S # {} PROVE FALSE
  OBVIOUS
<1>1. PICK m \in 0..N \ S : \A n \in 0..N \ S : m <= n
  <2>1. 0..N \ S \subseteq Nat
    OBVIOUS
  <2> QED BY <2>1, LeastNumber
<1>2. m > 0 /\ m - 1 \in 0..N
  OBVIOUS
<1>3. m - 1 \in S
  BY <1>1, <1>2
<1> QED BY <1>2, <1>3

\* The values first, step[1][first], step[2][step[1][first]], ... exist.
LEMMA Iteration ==
  ASSUME NEW X, NEW first \in X, NEW N \in Nat, NEW step \in [1..N -> [X -> X]]
  PROVE  \E f \in [0..N -> X] : f[0] = first /\ \A n \in 1..N : f[n] = step[n][f[n - 1]]
<1> DEFINE Upto(m, f) == f[0] = first /\ \A n \in 1..m : f[n] = step[n][f[n - 1]]
           S == {m \in 0..N : \E f \in [0..m -> X] : Upto(m, f)}
<1>1. 0 \in S
  <2> DEFINE f == [n \in 0..0 |-> first]
  <2>1. f \in [0..0 -> X] /\ Upto(0, f)
    OBVIOUS
  <2>2. 0 \in 0..N
    OBVIOUS
  <2> HIDE DEF f, Upto
  <2> QED BY <2>1, <2>2
<1>2. ASSUME NEW m \in 0..N, m > 0, m - 1 \in S
      PROVE  m \in S
  <2>1. PICK g \in [0..(m - 1) -> X] : Upto(m - 1, g)
    BY <1>2
  <2> DEFINE f == [n \in 0..m |-> IF n < m THEN g[n] ELSE step[m][g[m - 1]]]
  <2>2. step[m] \in [X -> X] /\ g[m - 1] \in X
    BY <1>2
  <2>3. f \in [0..m -> X]
    BY <2>2
  <2>4. ASSUME NEW n \in 1..m
        PROVE  f[n] = step[n][f[n - 1]]
    <3>1. CASE n < m
      <4>1. n \in 1..(m - 1) /\ n - 1 < m
        BY <3>1
      <4> QED BY <2>1, <4>1
    <3>2. CASE n = m
      BY <1>2, <3>2
    <3> QED BY <3>1, <3>2
  <2>5. Upto(m, f)
    BY <2>1, <2>4, <1>2
  <2> QED BY <2>3, <2>5
<1> HIDE DEF S
<1>3. 0..N \subseteq S
  BY <1>1, <1>2, Climb
<1> QED BY <1>3 DEF S

=============================================================================
