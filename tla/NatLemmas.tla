----------------------------- MODULE NatLemmas ------------------------------
(* What the proofs need about natural numbers: the ends of a set of them,  *)
(* and the sum a loop makes over an array.  Inductions are done with the   *)
(* least counterexample.                                                   *)
EXTENDS Integers, TLAPS, NaturalsInduction, WellFoundedInduction

LEMMA UpToItself == \A m \in Nat : m \in 0..m /\ 0 <= m
OBVIOUS

(* A set of numbers that is not empty has a least one.                     *)
LEMMA Least ==
  ASSUME NEW T, T \subseteq Nat, T # {}
  PROVE  \E x \in T : \A y \in T : x <= y
<1> DEFINE R == {p \in Nat \X Nat : p[1] < p[2]}
<1>1. IsWellFoundedOn(R, Nat)
  BY NatLessThanWellFounded, SMT DEF OpToRel
<1>2. PICK x \in T : \A y \in T : <<y, x>> \notin R
  <2> HIDE DEF R
  <2> QED BY <1>1, WFMin
<1>3. ASSUME NEW y \in T PROVE x <= y
  <2>1. <<y, x>> \notin R /\ <<y, x>> \in Nat \X Nat
    BY <1>2
  <2> QED BY <2>1
<1> QED BY <1>3

(* And a greatest, if it is bounded.                                       *)
LEMMA Greatest ==
  ASSUME NEW n \in Nat, NEW T, T \subseteq 0..n, T # {}
  PROVE  \E x \in T : \A y \in T : y <= x
<1> DEFINE U == {m \in Nat : n - m \in T}
<1>1. U \subseteq Nat
  OBVIOUS
<1>2. U # {}
  <2>1. PICK x \in T : TRUE OBVIOUS
  <2>2. n - x \in Nat /\ n - (n - x) = x BY <2>1
  <2> QED BY <2>1, <2>2
<1>3. PICK m \in U : \A k \in U : m <= k
  <2> HIDE DEF U
  <2> QED BY <1>1, <1>2, Least
<1>4. ASSUME NEW y \in T PROVE y <= n - m
  <2>1. y \in 0..n /\ n - y \in Nat /\ n - (n - y) = y
    OBVIOUS
  <2>2. n - y \in U
    BY <2>1
  <2>3. m <= n - y /\ m \in Nat
    BY <1>3, <2>2
  <2> QED BY <2>1, <2>3
<1> QED BY <1>3, <1>4

(* The loop that adds b[1], b[2], ... b[m] defines a function.             *)
LEMMA SumExists ==
  ASSUME NEW b, NEW m \in Nat
  PROVE  \E f : f = [n \in 0..m |-> IF n = 0 THEN 0 ELSE f[n - 1] + b[n]]
<1> DEFINE Sums(f, k) == f = [n \in 0..k |-> IF n = 0 THEN 0 ELSE f[n - 1] + b[n]]
           T == {k \in Nat : ~ \E f : Sums(f, k)}
<1>1. SUFFICES ASSUME T # {} PROVE FALSE
  OBVIOUS
<1>2. PICK k \in T : \A j \in T : k <= j
  <2> HIDE DEF T
  <2>1. T \subseteq Nat BY DEF T
  <2> QED BY <1>1, <2>1, Least
<1>3. CASE k = 0
  <2>1. Sums([n \in 0..0 |-> 0], 0) OBVIOUS
  <2> QED BY <1>2, <1>3, <2>1
<1>4. CASE k # 0
  <2>1. k \in Nat /\ k - 1 \in Nat
    BY <1>2, <1>4
  <2>2. k - 1 \notin T
    <3> HIDE DEF T
    <3> QED BY <1>2, <2>1
  <2>3. PICK f : Sums(f, k - 1)
    BY <2>1, <2>2
  <2> DEFINE g == [n \in 0..k |-> IF n = k THEN f[k - 1] + b[k] ELSE f[n]]
  <2>4. ASSUME NEW n \in 0..k
        PROVE  g[n] = IF n = 0 THEN 0 ELSE g[n - 1] + b[n]
    <3>1. CASE n = k
      <4>1. g[k - 1] = f[k - 1] /\ g[k] = f[k - 1] + b[k] BY <2>1, <1>4
      <4> QED BY <3>1, <1>4, <4>1
    <3>2. CASE n # k
      <4>1. n \in 0..(k - 1) /\ g[n] = f[n] BY <3>2
      <4>2. f[n] = IF n = 0 THEN 0 ELSE f[n - 1] + b[n] BY <2>3, <4>1
      <4>3. n # 0 => g[n - 1] = f[n - 1] BY <4>1
      <4> QED BY <4>1, <4>2, <4>3
    <3> QED BY <3>1, <3>2
  <2>5. Sums(g, k)
    BY <2>4
  <2> QED BY <1>2, <2>5
<1> QED BY <1>3, <1>4
=============================================================================
