--------------------------- MODULE NaturalLemmas ---------------------------
(***************************************************************************)
(* Least numbers, induction and recursion, stated of sets and functions.   *)
(*                                                                         *)
(* The induction theorems of the library take an operator as a parameter.  *)
(* These take a set instead: the strict subset relation on finite sets is  *)
(* well founded, and 1..m is a strict subset of 1..n for m < n.            *)
(***************************************************************************)
EXTENDS Integers, FiniteSetTheorems, WellFoundedInduction, TLAPS

\* Every set of natural numbers that is not empty has a least element.
LEMMA Least ==
    ASSUME NEW S \in SUBSET Nat, S # {}
    PROVE  \E n \in S : \A m \in S : n <= m
<1> DEFINE T == {1..n : n \in S}
<1>0. T # {}
  OBVIOUS
<1>1. T \subseteq FiniteSubsetsOf(Nat)
  BY FS_Interval DEF FiniteSubsetsOf
<1>2. IsWellFoundedOn(StrictSubsetOrdering(Nat), FiniteSubsetsOf(Nat))
  BY FS_StrictSubsetOrderingWellFounded
<1>3. PICK t \in T : \A u \in T : <<u, t>> \notin StrictSubsetOrdering(Nat)
  BY <1>0, <1>1, <1>2, WFMin
<1>4. PICK n \in S : t = 1..n
  OBVIOUS
<1>5. ASSUME NEW m \in S, m < n
      PROVE  FALSE
  <2>1. 1..m \subseteq 1..n /\ 1..m # 1..n
    BY <1>5
  <2>2. 1..m \in T /\ 1..m \in SUBSET Nat /\ 1..n \in SUBSET Nat
    OBVIOUS
  <2>3. <<1..m, 1..n>> \in StrictSubsetOrdering(Nat)
    BY <2>1, <2>2 DEF StrictSubsetOrdering
  <2> QED
    BY <1>3, <1>4, <2>2, <2>3
<1> QED
  BY <1>5

\* Induction: a set that has 0, and with each number the next one, has them all.
LEMMA Induction ==
    ASSUME NEW S, 0 \in S, \A n \in Nat : n \in S => n + 1 \in S
    PROVE  Nat \subseteq S
<1> SUFFICES ASSUME Nat \ S # {} PROVE FALSE
  OBVIOUS
<1>1. PICK n \in Nat \ S : \A m \in Nat \ S : n <= m
  BY Least
<1>2. n # 0 /\ n - 1 \in Nat
  BY <1>1
<1>3. n - 1 \in S
  BY <1>1, <1>2
<1> QED
  BY <1>2, <1>3

\* Recursion: a function on 0..N is given by its first value and by each next one.
Recursive(f, N, a, step) == f[0] = a /\ \A n \in 1..N : f[n] = step[<<n, f[n - 1]>>]

LEMMA Recursion ==
    ASSUME NEW N \in Nat, NEW V, NEW a \in V, NEW step \in [(1..N) \X V -> V]
    PROVE  \E f \in [0..N -> V] : Recursive(f, N, a, step)
<1> DEFINE Good(f, k) == Recursive(f, k, a, step)
           S == {k \in Nat : k <= N => \E f \in [0..k -> V] : Good(f, k)}
<1>1. 0 \in S
  <2> DEFINE f == [n \in 0..0 |-> a]
  <2>1. f \in [0..0 -> V] /\ Good(f, 0)
    BY DEF Recursive
  <2> QED
    BY <2>1
<1>2. ASSUME NEW k \in Nat, k \in S
      PROVE  k + 1 \in S
  <2> SUFFICES ASSUME k + 1 <= N
               PROVE  \E f \in [0..(k + 1) -> V] : Good(f, k + 1)
    OBVIOUS
  <2>1. PICK g \in [0..k -> V] : Good(g, k)
    BY <1>2
  <2> DEFINE next == step[<<k + 1, g[k]>>]
             f == [n \in 0..(k + 1) |-> IF n = k + 1 THEN next ELSE g[n]]
  <2>2. k + 1 \in 1..N /\ g[k] \in V
    OBVIOUS
  <2>3. next \in V
    BY <2>2
  <2>4. \A n \in 0..(k + 1) : n # k + 1 => n \in 0..k
    OBVIOUS
  <2>5. f \in [0..(k + 1) -> V]
    BY <2>3, <2>4
  <2>6. f[0] = a
    BY <2>1 DEF Recursive
  <2>7. ASSUME NEW n \in 1..(k + 1)
        PROVE  f[n] = step[<<n, f[n - 1]>>]
    <3>1. f[n - 1] = g[n - 1]
      BY <2>7
    <3>2. CASE n = k + 1
      <4>1. n \in 0..(k + 1) /\ n - 1 = k
        BY <3>2
      <4>2. f[n] = step[<<k + 1, g[k]>>]
        BY <3>2, <4>1
      <4> QED
        BY <3>1, <3>2, <4>1, <4>2
    <3>3. CASE n # k + 1
      <4>1. n \in 1..k /\ f[n] = g[n]
        BY <3>3
      <4> QED
        BY <2>1, <3>1, <4>1 DEF Recursive
    <3> QED
      BY <3>2, <3>3
  <2> QED
    BY <2>5, <2>6, <2>7 DEF Recursive
<1>3. Nat \subseteq S
  <2> HIDE DEF S
  <2> QED
    BY <1>1, <1>2, Induction
<1>4. N \in S
  BY <1>3
<1> QED
  BY <1>4

=============================================================================
