---------------------------- MODULE Recursion ----------------------------
(***************************************************************************)
(* Functions defined by recursion on 0 .. n, as the loops of this project  *)
(* are: Replay (Ledger.tla), ExpectedDifficulty and Revalidated (Chain.tla) *)
(* start from First(c) and go on with Then(c, i, _), for what c stands     *)
(* for.  Such a function exists and depends on nothing else.               *)
(***************************************************************************)
EXTENDS Integers, WellFoundedInduction, TLAPS

CONSTANTS First(_), Then(_, _, _)

(* The values that a loop of n steps goes through. *)
IsRun(c, run, n) ==
    run = [i \in 0 .. n |-> IF i = 0 THEN First(c) ELSE Then(c, i, run[i - 1])]

-----------------------------------------------------------------------------
(* Induction over the natural numbers, for a set of numbers. *)

LEMMA LessThanIsARelation == OpToRel(<, Nat) = {ss \in Nat \X Nat : ss[1] < ss[2]}
BY DEF OpToRel

LEMMA LeastElement ==
    ASSUME NEW N \in SUBSET Nat, N # {}
    PROVE  \E least \in N : \A n \in N : least <= n
<1> DEFINE Less == {ss \in Nat \X Nat : ss[1] < ss[2]}
<1>1. IsWellFoundedOn(Less, Nat)
  BY LessThanIsARelation, NatLessThanWellFounded
<1> HIDE DEF Less
<1>2. \E least \in N : \A n \in N : ~ (<<n, least>> \in Less)
  BY <1>1, WFMin
<1>3. PICK least \in N : \A n \in N : <<n, least>> \notin Less
  BY <1>2
<1>4. ASSUME NEW n \in N PROVE least <= n
  <2>1. n \in Nat /\ least \in Nat
    OBVIOUS
  <2>2. <<n, least>> \notin Less
    BY <1>3
  <2>3. ~(n < least)
    BY <2>1, <2>2 DEF Less
  <2> QED
    BY <2>1, <2>3
<1> QED
  BY <1>4

LEMMA GreatestElement ==
    ASSUME NEW bound \in Nat, NEW N \in SUBSET (0 .. bound), N # {}
    PROVE  \E greatest \in N : \A n \in N : n <= greatest
<1> DEFINE Below == {bound - n : n \in N}
<1>1. Below \in SUBSET Nat /\ Below # {}
  <2>1. PICK n : n \in N
    OBVIOUS
  <2>2. bound - n \in Below
    BY <2>1
  <2>3. \A k \in N : bound - k \in Nat
    OBVIOUS
  <2> QED
    BY <2>2, <2>3
<1>2. PICK least \in Below : \A k \in Below : least <= k
  BY <1>1, LeastElement
<1>3. PICK greatest \in N : least = bound - greatest
  BY <1>2
<1>4. ASSUME NEW n \in N PROVE n <= greatest
  <2>1. bound - n \in Below
    OBVIOUS
  <2>2. bound - greatest <= bound - n
    BY <1>2, <1>3, <2>1
  <2> QED
    BY <2>2
<1> QED
  BY <1>4

LEMMA Induction ==
    ASSUME NEW P, 0 \in P, \A k \in Nat : k \in P => k + 1 \in P, NEW n \in Nat
    PROVE  n \in P
<1> DEFINE Bad == Nat \ P
<1> SUFFICES ASSUME Bad # {} PROVE FALSE
  OBVIOUS
<1>1. PICK least \in Bad : \A k \in Bad : least <= k
  BY LeastElement
<1>2. least - 1 \in Nat /\ least - 1 \in P
  BY <1>1
<1> QED
  BY <1>1, <1>2

-----------------------------------------------------------------------------
LEMMA RunSteps ==
    ASSUME NEW c, NEW n \in Nat, NEW run, IsRun(c, run, n)
    PROVE  /\ run[0] = First(c)
           /\ \A i \in 1 .. n : run[i] = Then(c, i, run[i - 1])
<1> DEFINE whole == [i \in 0 .. n |-> IF i = 0 THEN First(c) ELSE Then(c, i, run[i - 1])]
<1>1. run = whole
  BY DEF IsRun
<1>2. whole[0] = First(c) /\ \A i \in 1 .. n : whole[i] = Then(c, i, run[i - 1])
  OBVIOUS
<1> HIDE DEF whole
<1> QED
  BY <1>1, <1>2

(* A loop of any number of steps has its values. *)
LEMMA RunExists ==
    ASSUME NEW c, NEW n \in Nat
    PROVE  \E run : IsRun(c, run, n)
<1> DEFINE P == {m \in Nat : \E run : IsRun(c, run, m)}
<1>1. 0 \in P
  <2> DEFINE run == [i \in 0 .. 0 |-> First(c)]
  <2>1. IsRun(c, run, 0)
    BY DEF IsRun
  <2> QED
    BY <2>1
<1>2. ASSUME NEW k \in Nat, k \in P PROVE k + 1 \in P
  <2>1. PICK run : IsRun(c, run, k)
    BY <1>2
  <2> DEFINE more == [i \in 0 .. k + 1 |->
                         IF i = 0 THEN First(c) ELSE Then(c, i, run[i - 1])]
  <2>2. run[0] = First(c) /\ \A i \in 1 .. k : run[i] = Then(c, i, run[i - 1])
    BY <2>1, RunSteps
  <2>3. \A i \in 1 .. k + 1 : more[i - 1] = run[i - 1]
    <3>1. ASSUME NEW i \in 0 .. k PROVE more[i] = run[i]
      <4>1. CASE i = 0
        BY <4>1, <2>2
      <4>2. CASE i # 0
        <5>1. i \in 1 .. k /\ i \in 0 .. k + 1
          BY <4>2
        <5>2. more[i] = Then(c, i, run[i - 1])
          BY <5>1
        <5> QED
          BY <5>1, <5>2, <2>2
      <4> QED
        BY <4>1, <4>2
    <3> HIDE DEF more
    <3>2. \A i \in 1 .. k + 1 : i - 1 \in 0 .. k
      OBVIOUS
    <3> QED
      BY <3>1, <3>2
  <2> DEFINE again == [i \in 0 .. k + 1 |->
                          IF i = 0 THEN First(c) ELSE Then(c, i, more[i - 1])]
  <2>4. \A i \in 0 .. k + 1 : more[i] = again[i]
    <3> SUFFICES ASSUME NEW i \in 0 .. k + 1 PROVE more[i] = again[i]
      OBVIOUS
    <3>1. CASE i = 0
      BY <3>1
    <3>2. CASE i # 0
      <4>1. i \in 1 .. k + 1
        BY <3>2
      <4>2. more[i] = Then(c, i, run[i - 1])
        BY <3>2
      <4>3. again[i] = Then(c, i, more[i - 1])
        BY <3>2
      <4> HIDE DEF more, again
      <4> QED
        BY <4>1, <4>2, <4>3, <2>3
    <3> QED
      BY <3>1, <3>2
  <2>5. more = again
    <3>1. more = [i \in 0 .. k + 1 |-> more[i]] /\ again = [i \in 0 .. k + 1 |-> again[i]]
      OBVIOUS
    <3> HIDE DEF more, again
    <3> QED
      BY <3>1, <2>4
  <2>6. IsRun(c, more, k + 1)
    BY <2>5 DEF IsRun
  <2> HIDE DEF more, again
  <2> QED
    BY <2>6
<1> HIDE DEF P
<1>3. n \in P
  BY <1>1, <1>2, Induction
<1> QED
  BY <1>3 DEF P

(* Where two loops do the same their values are the same. *)
LEMMA RunsAgree ==
    ASSUME NEW c, NEW d, NEW m \in Nat, NEW k \in Nat,
           NEW f, NEW g, IsRun(c, f, m), IsRun(d, g, k),
           NEW n \in Nat, n <= m, n <= k,
           First(c) = First(d), \A i \in 1 .. n : \A x : Then(c, i, x) = Then(d, i, x)
    PROVE  f[n] = g[n]
<1> DEFINE P == {j \in Nat : j <= n => f[j] = g[j]}
<1>a. f[0] = First(c) /\ \A i \in 1 .. m : f[i] = Then(c, i, f[i - 1])
  BY ONLY RunSteps, IsRun(c, f, m), m \in Nat
<1>b. g[0] = First(d) /\ \A i \in 1 .. k : g[i] = Then(d, i, g[i - 1])
  BY ONLY RunSteps, IsRun(d, g, k), k \in Nat
<1>1. 0 \in P
  BY <1>a, <1>b
<1>2. ASSUME NEW j \in Nat, j \in P PROVE j + 1 \in P
  <2> SUFFICES ASSUME j + 1 <= n PROVE f[j + 1] = g[j + 1]
    OBVIOUS
  <2>1. j + 1 \in 1 .. m /\ j + 1 \in 1 .. k /\ j + 1 \in 1 .. n /\ (j + 1) - 1 = j
    OBVIOUS
  <2>2. f[j + 1] = Then(c, j + 1, f[j]) /\ g[j + 1] = Then(d, j + 1, g[j])
    BY <2>1, <1>a, <1>b
  <2>3. f[j] = g[j]
    BY <1>2
  <2> QED
    BY <2>1, <2>2, <2>3
<1> HIDE DEF P
<1>3. n \in P
  BY <1>1, <1>2, Induction
<1> QED
  BY <1>3 DEF P
============================================================================
