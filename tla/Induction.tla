------------------------------ MODULE Induction ------------------------------
(***************************************************************************)
(* Induction over the natural numbers for a set in place of a predicate,   *)
(* so that first-order provers can use it: cite a lemma with the set of    *)
(* the numbers that have the property.  All of it comes from the fact that *)
(* < is well founded on Nat.                                               *)
(***************************************************************************)
EXTENDS Integers, WellFoundedInduction, TLAPS

(* A set of naturals that is not empty has a least element.                *)
LEMMA Smallest ==
  ASSUME NEW T, T \subseteq Nat, T # {}
  PROVE  \E n \in T : \A m \in T : n <= m
<1> DEFINE R == OpToRel(<, Nat)
<1>1. IsWellFoundedOn(R, Nat)
  BY NatLessThanWellFounded
<1>2. PICK n \in T : \A m \in T : ~(<<m, n>> \in R)
  <2> HIDE DEF R
  <2> QED BY <1>1, WFMin
<1>3. \A m \in T : ~(m < n)
  BY <1>2 DEF OpToRel
<1>4. n \in Nat /\ \A m \in T : m \in Nat
  OBVIOUS
<1> QED BY <1>3, <1>4

(* Induction up to a bound.                                                *)
LEMMA InductionUpTo ==
  ASSUME NEW n \in Nat, NEW T, 0 \in T, \A i \in 1..n : i - 1 \in T => i \in T
  PROVE  0..n \subseteq T
<1> DEFINE U == {i \in 0..n : i \notin T}
<1> SUFFICES ASSUME U # {} PROVE FALSE
  OBVIOUS
<1>1. U \subseteq Nat
  OBVIOUS
<1>2. PICK i \in U : \A j \in U : i <= j
  <2> HIDE DEF U
  <2> QED BY <1>1, Smallest
<1>3. i \in 1..n /\ i \notin T
  OBVIOUS
<1>4. i - 1 \in 0..n /\ ~(i <= i - 1)
  BY <1>3
<1>5. i - 1 \in T
  BY <1>2, <1>4
<1> QED BY <1>3, <1>5

LEMMA InductionOnNat ==
  ASSUME NEW T, 0 \in T, \A n \in Nat : n \in T => n + 1 \in T
  PROVE  Nat \subseteq T
<1> SUFFICES ASSUME NEW n \in Nat PROVE n \in T
  OBVIOUS
<1>1. \A i \in 1..n : i - 1 \in T => i \in T
  <2> TAKE i \in 1..n
  <2>1. i - 1 \in Nat /\ (i - 1) + 1 = i
    OBVIOUS
  <2> QED BY <2>1
<1> QED BY <1>1, InductionUpTo

-----------------------------------------------------------------------------
(* Functions defined by recursion over the naturals: there is a function   *)
(* that begins with first and goes on by step.                             *)

Begins(g, n, first, step) ==
  /\ DOMAIN g = 0..n /\ g[0] = first
  /\ \A i \in 1..n : g[i] = step[g[i - 1]]

LEMMA BeginningsAgree ==
  ASSUME NEW first, NEW step, NEW m \in Nat, NEW n \in Nat, m <= n,
         NEW g, NEW h, Begins(g, m, first, step), Begins(h, n, first, step)
  PROVE  g[m] = h[m]
<1> DEFINE T == {i \in 0..m : g[i] = h[i]}
<1>1. 0 \in T
  BY DEF Begins
<1>2. ASSUME NEW i \in 1..m, i - 1 \in T PROVE i \in T
  BY <1>2 DEF Begins
<1>3. 0..m \subseteq T
  <2> HIDE DEF T
  <2> QED BY <1>1, <1>2, InductionUpTo
<1> QED BY <1>3

GoesOnBy(f, S, first, step) ==
  f \in [Nat -> S] /\ f[0] = first /\ \A n \in Nat : f[n + 1] = step[f[n]]

LEMMA Recursion ==
  ASSUME NEW S, NEW first \in S, NEW step \in [S -> S]
  PROVE  \E f : GoesOnBy(f, S, first, step)
<1> DEFINE Approx(n, g) == g \in [0..n -> S] /\ Begins(g, n, first, step)
           T == {n \in Nat : \E g : Approx(n, g)}
<1>1. 0 \in T
  <2>1. Approx(0, [i \in 0..0 |-> first])
    BY DEF Begins
  <2> QED BY <2>1
<1>2. ASSUME NEW n \in Nat, n \in T PROVE n + 1 \in T
  <2>1. PICK g : Approx(n, g)
    BY <1>2
  <2> DEFINE h == [i \in 0..(n + 1) |-> IF i = n + 1 THEN step[g[n]] ELSE g[i]]
  <2>2. h \in [0..(n + 1) -> S]
    BY <2>1
  <2>3. \A i \in 1..(n + 1) : h[i] = step[h[i - 1]]
    <3> TAKE i \in 1..(n + 1)
    <3>1. CASE i = n + 1
      BY <3>1
    <3>2. CASE i \in 1..n
      BY <2>1, <3>2 DEF Begins
    <3> QED BY <3>1, <3>2
  <2>4. h[0] = first
    BY <2>1 DEF Begins
  <2>5. Approx(n + 1, h)
    BY <2>2, <2>3, <2>4 DEF Begins
  <2> QED BY <2>5
<1>3. \A n \in Nat : \E g : Approx(n, g)
  <2>1. Nat \subseteq T
    <3> HIDE DEF T
    <3> QED BY <1>1, <1>2, InductionOnNat
  <2> QED BY <2>1
<1> DEFINE G(n) == CHOOSE g : Approx(n, g)
           f == [n \in Nat |-> G(n)[n]]
<1>4. \A n \in Nat : Approx(n, G(n))
  <2> HIDE DEF Approx
  <2> QED BY <1>3
<1>5. f \in [Nat -> S]
  BY <1>4
<1>6. f[0] = first
  BY <1>4 DEF Begins
<1>7. ASSUME NEW n \in Nat PROVE f[n + 1] = step[f[n]]
  <2>1. Approx(n, G(n)) /\ Approx(n + 1, G(n + 1))
    <3> HIDE DEF Approx, G
    <3>1. n + 1 \in Nat
      OBVIOUS
    <3> QED BY <1>4, <3>1
  <2>2. G(n)[n] = G(n + 1)[n]
    <3> HIDE DEF G
    <3> QED BY <2>1, BeginningsAgree
  <2>3. G(n + 1)[n + 1] = step[G(n + 1)[n]]
    <3> HIDE DEF G
    <3> QED BY <2>1 DEF Begins
  <2> QED BY <2>2, <2>3
<1> HIDE DEF f
<1> QED BY <1>5, <1>6, <1>7 DEF GoesOnBy

(* The same up to a bound, with a step that depends on the argument.       *)
GoesOnUpTo(n, g, S, first, step) ==
  g \in [0..n -> S] /\ g[0] = first /\ \A d \in 1..n : g[d] = step[d][g[d - 1]]

LEMMA BoundedRecursion ==
  ASSUME NEW n \in Nat, NEW S, NEW first \in S, NEW step \in [1..n -> [S -> S]]
  PROVE  \E g : GoesOnUpTo(n, g, S, first, step)
<1> DEFINE Built(m, g) ==
             /\ g \in [0..m -> S] /\ g[0] = first
             /\ \A d \in 1..m : g[d] = step[d][g[d - 1]]
           T == {m \in 0..n : \E g : Built(m, g)}
<1>1. 0 \in T
  <2>1. Built(0, [d \in 0..0 |-> first])
    OBVIOUS
  <2> HIDE DEF Built
  <2> QED BY <2>1
<1>2. ASSUME NEW m \in 1..n, m - 1 \in T PROVE m \in T
  <2>1. PICK g : Built(m - 1, g)
    BY <1>2
  <2> DEFINE h == [d \in 0..m |-> IF d = m THEN step[m][g[m - 1]] ELSE g[d]]
  <2>2. h \in [0..m -> S] /\ h[0] = first
    BY <2>1
  <2>3. \A d \in 1..m : h[d] = step[d][h[d - 1]]
    BY <2>1
  <2>4. Built(m, h)
    BY <2>2, <2>3
  <2> HIDE DEF Built, h
  <2> QED BY <2>4
<1>3. 0..n \subseteq T
  <2> HIDE DEF T
  <2> QED BY <1>1, <1>2, InductionUpTo
<1>4. \E g : Built(n, g)
  <2> HIDE DEF Built
  <2> QED BY <1>3
<1> QED BY <1>4 DEF GoesOnUpTo
=============================================================================
