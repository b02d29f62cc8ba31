--------------------------- MODULE ChainProofs ---------------------------
(***************************************************************************)
(* Lemmas about the ledger (Ledger.tla) and about the rules of a chain     *)
(* (Chain.tla): what a list of transactions makes of a ledger, the         *)
(* transactions of a chain's blocks one after the other, the sum of all    *)
(* balances, the difficulty expected of a height, what saving and loading  *)
(* makes of a chain, and the pool that is left after a chain was adopted.  *)
(***************************************************************************)
EXTENDS Chain, MerkleProofs, FiniteSetTheorems

(* Replay is a loop over the transactions, from the ledger it is given. *)
ReplayFrom(ledger, txs) == [ledger |-> ledger, txs |-> txs]
ReplayFirst(loop) == loop.ledger
ReplayThen(loop, i, ledger) == Step(ledger, loop.txs[i])

R == INSTANCE Recursion WITH First <- ReplayFirst, Then <- ReplayThen

-----------------------------------------------------------------------------
(* int64 arithmetic *)

LEMMA Division ==
    ASSUME NEW n \in Nat \ {0}, NEW a \in Int
    PROVE  \E q \in Int : a = n * q + (a % n) /\ a % n \in 0 .. n - 1
<1>1. a = n * (a \div n) + (a % n) /\ a % n \in 0 .. n - 1 /\ a \div n \in Int
  OBVIOUS
<1> QED
  BY <1>1

LEMMA Remainder ==
    ASSUME NEW n \in Nat \ {0}, NEW q \in Int, NEW r \in 0 .. n - 1, NEW a \in Int, a = n * q + r
    PROVE  a % n = r
OBVIOUS

LEMMA WrapIsExact ==
    ASSUME NEW x \in Int, x <= MaxInt, -MaxInt <= x
    PROVE  Wrap(x) = x
<1> DEFINE n == 2 * (MaxInt + 1)
           y == x + MaxInt + 1
<1>1. n \in Nat \ {0} /\ 0 \in Int /\ y \in 0 .. n - 1 /\ y \in Int /\ y = n * 0 + y
  BY MaxIntAssumption
<1>2. x = y - (MaxInt + 1)
  BY MaxIntAssumption
<1>3. Wrap(x) = (y % n) - (MaxInt + 1)
  BY DEF Wrap
<1> HIDE DEF n, y
<1>4. y % n = y
  BY ONLY <1>1, Remainder
<1> QED
  BY <1>2, <1>3, <1>4

-----------------------------------------------------------------------------
(* Sums over finite sets, which MapThenSumSet takes element by element *)

Some(s) == CHOOSE x \in s : TRUE

(* The sums of the values of the subsets of S, from those of smaller ones. *)
SumNext(value, S, sum) ==
    [s \in SUBSET S |-> IF s = {} THEN 0 ELSE value[Some(s)] + sum[s \ {Some(s)}]]

(* Done as often as S has elements, this settles. *)
SumFirst(c) == [s \in SUBSET c.set |-> 0]
SumThen(c, i, sum) == SumNext(c.value, c.set, sum)

Sums == INSTANCE Recursion WITH First <- SumFirst, Then <- SumThen

(* The sums of the values of each subset. *)
IsSum(sum, value, S) == sum = SumNext(value, S, sum)

(* Every subset of a finite set is reached by adding elements. *)
LEMMA SubsetInduction ==
    ASSUME NEW S, IsFiniteSet(S), NEW Q, {} \in Q,
           \A s \in SUBSET S : s # {} /\ (\A x \in s : s \ {x} \in Q) => s \in Q,
           NEW s \in SUBSET S
    PROVE  s \in Q
<1> DEFINE Sized == {n \in Nat : \A t \in SUBSET S : Cardinality(t) = n => t \in Q}
<1>1. \A t \in SUBSET S : /\ IsFiniteSet(t) /\ Cardinality(t) \in Nat
                          /\ Cardinality(t) = 0 <=> t = {}
                          /\ \A x \in t : Cardinality(t \ {x}) = Cardinality(t) - 1
  <2> SUFFICES ASSUME NEW t \in SUBSET S
               PROVE  /\ IsFiniteSet(t) /\ Cardinality(t) \in Nat
                      /\ Cardinality(t) = 0 <=> t = {}
                      /\ \A x \in t : Cardinality(t \ {x}) = Cardinality(t) - 1
    OBVIOUS
  <2>1. IsFiniteSet(t)
    BY FS_Subset
  <2>2. Cardinality(t) \in Nat /\ (Cardinality(t) = 0 <=> t = {})
    BY <2>1, FS_CardinalityType, FS_EmptySet
  <2>3. \A x \in t : Cardinality(t \ {x}) = Cardinality(t) - 1
    BY <2>1, FS_RemoveElement
  <2> QED
    BY <2>1, <2>2, <2>3
<1>2. 0 \in Sized
  BY <1>1
<1>3. ASSUME NEW n \in Nat, n \in Sized PROVE n + 1 \in Sized
  <2> SUFFICES ASSUME NEW t \in SUBSET S, Cardinality(t) = n + 1 PROVE t \in Q
    OBVIOUS
  <2>1. t # {}
    BY <1>1
  <2>2. ASSUME NEW x \in t PROVE t \ {x} \in Q
    <3>1. t \ {x} \in SUBSET S /\ Cardinality(t \ {x}) = n
      BY <1>1
    <3> QED
      BY <1>3, <3>1
  <2> QED
    BY <2>1, <2>2
<1> HIDE DEF Sized
<1>4. \A n \in Nat : n \in Sized
  BY <1>2, <1>3, Sums!Induction
<1> QED
  BY <1>1, <1>4 DEF Sized

LEMMA SumExists ==
    ASSUME NEW S, IsFiniteSet(S), NEW value
    PROVE  \E sum : IsSum(sum, value, S)
<1> DEFINE c == [value |-> value, set |-> S]
           n == Cardinality(S)
<1>1. n \in Nat /\ n + 1 \in Nat
  BY FS_CardinalityType
<1> HIDE DEF n
<1>2. PICK run : Sums!IsRun(c, run, n + 1)
  BY <1>1, Sums!RunExists
<1>3. run[0] = SumFirst(c) /\ \A i \in 1 .. n + 1 : run[i] = SumThen(c, i, run[i - 1])
  BY ONLY <1>1, <1>2, Sums!RunSteps
<1>4. c.value = value /\ c.set = S
  OBVIOUS
<1> HIDE DEF c
<1>5. run[0] = [s \in SUBSET S |-> 0]
  BY <1>3, <1>4 DEF SumFirst
<1>6. \A i \in 1 .. n + 1 : run[i] = SumNext(value, S, run[i - 1])
  BY <1>3, <1>4 DEF SumThen
<1>7. \A s \in SUBSET S : /\ Cardinality(s) \in Nat /\ Cardinality(s) <= n
                          /\ Cardinality(s) = 0 <=> s = {}
                          /\ s # {} => /\ Some(s) \in s
                                       /\ Cardinality(s \ {Some(s)}) = Cardinality(s) - 1
  <2> SUFFICES ASSUME NEW s \in SUBSET S
               PROVE  /\ Cardinality(s) \in Nat /\ Cardinality(s) <= n
                      /\ Cardinality(s) = 0 <=> s = {}
                      /\ s # {} => /\ Some(s) \in s
                                   /\ Cardinality(s \ {Some(s)}) = Cardinality(s) - 1
    OBVIOUS
  <2>1. IsFiniteSet(s) /\ Cardinality(s) <= n
    BY FS_Subset DEF n
  <2>2. Cardinality(s) \in Nat /\ (Cardinality(s) = 0 <=> s = {})
    BY <2>1, FS_CardinalityType, FS_EmptySet
  <2>3. s # {} => Some(s) \in s
    BY DEF Some
  <2>4. s # {} => Cardinality(s \ {Some(s)}) = Cardinality(s) - 1
    BY <2>1, <2>3, FS_RemoveElement
  <2> QED
    BY <2>1, <2>2, <2>3, <2>4
<1> DEFINE Settled == {j \in Nat : j <= n =>
                          \A s \in SUBSET S : Cardinality(s) <= j => run[j + 1][s] = run[j][s]}
<1>8. 0 \in Settled
  <2> SUFFICES ASSUME NEW s \in SUBSET S, Cardinality(s) <= 0 PROVE run[0 + 1][s] = run[0][s]
    OBVIOUS
  <2>1. s = {}
    <3>1. Cardinality(s) \in Nat /\ (Cardinality(s) = 0 <=> s = {})
      BY <1>7
    <3> QED
      BY <3>1
  <2>2. 1 \in 1 .. n + 1
    BY <1>1
  <2>3. run[1][s] = 0
    <3>1. run[1] = SumNext(value, S, run[1 - 1])
      BY <1>6, <2>2
    <3> DEFINE start == run[1 - 1]
               first == run[1]
    <3>2. first = SumNext(value, S, start)
      BY <3>1
    <3> HIDE DEF start, first
    <3>3. first[s] = 0
      BY ONLY <2>1, <3>2, s \in SUBSET S DEF SumNext
    <3> QED
      BY ONLY <3>3 DEF first
  <2> QED
    BY <1>5, <2>3
<1>9. ASSUME NEW j \in Nat, j \in Settled PROVE j + 1 \in Settled
  <2> SUFFICES ASSUME j + 1 <= n, NEW s \in SUBSET S, Cardinality(s) <= j + 1
               PROVE  run[j + 2][s] = run[j + 1][s]
    OBVIOUS
  <2>1. j + 2 \in 1 .. n + 1 /\ j + 1 \in 1 .. n + 1 /\ j + 2 - 1 = j + 1 /\ j + 1 - 1 = j
    BY <1>1
  <2> DEFINE rest == s \ {Some(s)}
             one == run[j]
             two == run[j + 1]
             three == run[j + 2]
  <2>2. three = SumNext(value, S, two) /\ two = SumNext(value, S, one)
    <3>1. three = SumNext(value, S, run[j + 2 - 1]) /\ two = SumNext(value, S, run[j + 1 - 1])
      BY <1>6, <2>1
    <3> QED
      BY ONLY <2>1, <3>1
  <2> HIDE DEF one, two, three
  <2>3. /\ three[s] = IF s = {} THEN 0 ELSE value[Some(s)] + two[rest]
        /\ two[s] = IF s = {} THEN 0 ELSE value[Some(s)] + one[rest]
    BY ONLY <2>2, s \in SUBSET S DEF rest, SumNext
  <2>4. rest \in SUBSET S
    OBVIOUS
  <2>5. s # {} => Cardinality(rest) <= j
    <3>1. s # {} => Cardinality(rest) = Cardinality(s) - 1
      BY <1>7
    <3>2. Cardinality(s) \in Nat
      BY <1>7
    <3> HIDE DEF rest
    <3> QED
      BY <3>1, <3>2
  <2> HIDE DEF rest
  <2>6. s # {} => two[rest] = one[rest]
    BY <1>1, <1>9, <2>4, <2>5 DEF one, two
  <2>7. three[s] = two[s]
    BY ONLY <2>3, <2>6
  <2> QED
    BY <2>7 DEF two, three
<1> HIDE DEF Settled
<1>10. n \in Settled
  BY <1>1, <1>8, <1>9, Sums!Induction
<1> DEFINE sum == run[n]
           next == run[n + 1]
<1>11. \A s \in SUBSET S : next[s] = sum[s]
  <2>1. \A s \in SUBSET S : Cardinality(s) <= n => run[n + 1][s] = run[n][s]
    BY <1>1, <1>10 DEF Settled
  <2> QED
    BY <1>7, <2>1
<1>12. next = [s \in SUBSET S |->
                  IF s = {} THEN 0 ELSE value[Some(s)] + sum[s \ {Some(s)}]]
  <2> DEFINE m == n + 1
  <2>2. next = run[m] /\ sum = run[m - 1] /\ m \in 1 .. n + 1
    <3>1. m - 1 = n /\ m \in 1 .. n + 1
      BY ONLY <1>1
    <3>2. next = run[m]
      OBVIOUS
    <3> HIDE DEF m
    <3>3. sum = run[m - 1]
      BY ONLY <3>1
    <3> QED
      BY ONLY <3>1, <3>2, <3>3
  <2> HIDE DEF m, next, sum
  <2>3. next = SumNext(value, S, sum)
    BY ONLY <1>6, <2>2
  <2> HIDE DEF next, sum
  <2> QED
    BY ONLY <2>3 DEF SumNext
<1>13. sum = [s \in SUBSET S |-> sum[s]]
  <2>1. CASE n = 0
    BY <1>5, <2>1
  <2>2. CASE n # 0
    <3>1. n \in 1 .. n + 1
      BY <1>1, <2>2
    <3>2. run[n] = SumNext(value, S, run[n - 1])
      BY <1>6, <3>1
    <3> QED
      BY ONLY <3>2 DEF SumNext
  <2> QED
    BY <2>1, <2>2
<1> HIDE DEF sum, next
<1>14. next = [s \in SUBSET S |-> next[s]]
  BY <1>12
<1>15. sum = next
  BY ONLY <1>11, <1>13, <1>14
<1>16. IsSum(sum, value, S)
  BY ONLY <1>12, <1>15 DEF IsSum, SumNext
<1> QED
  BY <1>16

LEMMA SumSteps ==
    ASSUME NEW S, NEW value, NEW sum, IsSum(sum, value, S)
    PROVE  /\ sum[{}] = 0
           /\ \A s \in SUBSET S : s # {} => /\ Some(s) \in s
                                            /\ sum[s] = value[Some(s)] + sum[s \ {Some(s)}]
<1>1. sum = SumNext(value, S, sum)
  BY DEF IsSum
<1>2. ASSUME NEW s \in SUBSET S
      PROVE  sum[s] = IF s = {} THEN 0 ELSE value[Some(s)] + sum[s \ {Some(s)}]
  BY ONLY <1>1, s \in SUBSET S DEF SumNext
<1>4. \A s \in SUBSET S : s # {} => Some(s) \in s
  BY DEF Some
<1> QED
  BY <1>2, <1>4

LEMMA SumStep ==
    ASSUME NEW S, NEW value, NEW sum, IsSum(sum, value, S), NEW s \in SUBSET S, s # {},
           NEW x, x = Some(s)
    PROVE  x \in s /\ sum[s] = value[x] + sum[s \ {x}]
BY SumSteps

LEMMA SumTyped ==
    ASSUME NEW S, IsFiniteSet(S), NEW value, \A x \in S : value[x] \in Int,
           NEW sum, IsSum(sum, value, S), NEW s \in SUBSET S
    PROVE  sum[s] \in Int
<1> DEFINE Q == {t \in SUBSET S : sum[t] \in Int}
<1>1. {} \in Q
  BY SumSteps
<1>2. ASSUME NEW t \in SUBSET S, t # {}, \A x \in t : t \ {x} \in Q PROVE t \in Q
  <2> DEFINE x == Some(t)
  <2>0. x = Some(t)
    OBVIOUS
  <2> HIDE DEF x
  <2>1. x \in t /\ sum[t] = value[x] + sum[t \ {x}]
    BY ONLY <1>2, <2>0, IsSum(sum, value, S), SumStep
  <2>2. t \ {x} \in Q /\ value[x] \in Int
    BY <1>2, <2>1
  <2> QED
    BY <2>1, <2>2
<1> HIDE DEF Q
<1>3. s \in Q
  BY <1>1, <1>2, SubsetInduction
<1> QED
  BY <1>3 DEF Q

(* The order of the elements does not matter. *)
LEMMA SumRemove ==
    ASSUME NEW S, IsFiniteSet(S), NEW value, \A x \in S : value[x] \in Int,
           NEW sum, IsSum(sum, value, S), NEW s \in SUBSET S, NEW x \in s
    PROVE  sum[s] = value[x] + sum[s \ {x}]
<1> DEFINE Q == {t \in SUBSET S : \A y \in t : sum[t] = value[y] + sum[t \ {y}]}
<1>1. {} \in Q
  OBVIOUS
<1>2. ASSUME NEW t \in SUBSET S, t # {}, \A y \in t : t \ {y} \in Q PROVE t \in Q
  <2> SUFFICES ASSUME NEW y \in t PROVE sum[t] = value[y] + sum[t \ {y}]
    OBVIOUS
  <2> DEFINE z == Some(t)
  <2>0. z = Some(t)
    OBVIOUS
  <2> HIDE DEF z
  <2>1. z \in t /\ sum[t] = value[z] + sum[t \ {z}]
    BY ONLY <1>2, <2>0, IsSum(sum, value, S), SumStep
  <2>2. CASE y = z
    BY <2>1, <2>2
  <2>3. CASE y # z
    <3>1. y \in t \ {z} /\ z \in t \ {y} /\ t \ {y} \in Q /\ t \ {z} \in Q
      <4>1. t \ {y} \in Q /\ t \ {z} \in Q
        <5>1. y \in t /\ z \in t
          BY <2>1
        <5> HIDE DEF Q
        <5> QED
          BY ONLY <1>2, <5>1
      <4> QED
        BY <2>1, <2>3, <4>1
    <3>2. sum[t \ {z}] = value[y] + sum[(t \ {z}) \ {y}]
      BY <3>1
    <3>3. sum[t \ {y}] = value[z] + sum[(t \ {y}) \ {z}]
      BY <3>1
    <3>4. (t \ {z}) \ {y} = (t \ {y}) \ {z}
      OBVIOUS
    <3> DEFINE rest == sum[(t \ {y}) \ {z}]
    <3>5. rest \in Int /\ value[y] \in Int /\ value[z] \in Int
      <4>1. (t \ {y}) \ {z} \in SUBSET S /\ y \in S /\ z \in S
        BY <2>1
      <4> QED
        BY <4>1, SumTyped
    <3> HIDE DEF rest
    <3>6. sum[t] = value[z] + (value[y] + rest) /\ sum[t \ {y}] = value[z] + rest
      BY <2>1, <3>2, <3>3, <3>4 DEF rest
    <3> QED
      BY ONLY <3>5, <3>6
  <2> QED
    BY <2>2, <2>3
<1> HIDE DEF Q
<1>3. s \in Q
  BY <1>1, <1>2, SubsetInduction
<1> QED
  BY <1>3 DEF Q

(* A sum is of the values of its elements. *)
LEMMA SumsAgree ==
    ASSUME NEW S, IsFiniteSet(S), NEW value, NEW other,
           NEW f, IsSum(f, value, S), NEW g, IsSum(g, other, S),
           NEW s \in SUBSET S, \A x \in s : value[x] = other[x]
    PROVE  f[s] = g[s]
<1> DEFINE Q == {t \in SUBSET S : t \subseteq s => f[t] = g[t]}
<1>1. {} \in Q
  BY SumSteps
<1>2. ASSUME NEW t \in SUBSET S, t # {}, \A x \in t : t \ {x} \in Q PROVE t \in Q
  <2> SUFFICES ASSUME t \subseteq s PROVE f[t] = g[t]
    OBVIOUS
  <2> DEFINE x == Some(t)
  <2>0. x = Some(t)
    OBVIOUS
  <2> HIDE DEF x
  <2>1. x \in t /\ f[t] = value[x] + f[t \ {x}]
    BY ONLY <1>2, <2>0, IsSum(f, value, S), SumStep
  <2>2. g[t] = other[x] + g[t \ {x}]
    BY ONLY <1>2, <2>0, IsSum(g, other, S), SumStep
  <2>3. t \ {x} \in Q /\ t \ {x} \subseteq s /\ x \in s
    BY <1>2, <2>1
  <2>4. f[t \ {x}] = g[t \ {x}] /\ value[x] = other[x]
    BY <2>3
  <2> QED
    BY <2>1, <2>2, <2>4
<1> HIDE DEF Q
<1>3. s \in Q
  BY <1>1, <1>2, SubsetInduction
<1> QED
  BY <1>3 DEF Q

LEMMA SumBounds ==
    ASSUME NEW S, IsFiniteSet(S), NEW value, \A x \in S : value[x] \in Nat,
           NEW sum, IsSum(sum, value, S), NEW s \in SUBSET S
    PROVE  sum[s] \in Nat /\ \A x \in s : value[x] <= sum[s]
<1> DEFINE Q == {t \in SUBSET S : sum[t] \in Nat}
<1>1. {} \in Q
  BY SumSteps
<1>2. ASSUME NEW t \in SUBSET S, t # {}, \A x \in t : t \ {x} \in Q PROVE t \in Q
  <2>1. Some(t) \in t /\ sum[t] = value[Some(t)] + sum[t \ {Some(t)}]
    BY ONLY <1>2, IsSum(sum, value, S), SumStep
  <2> QED
    BY <1>2, <2>1
<1>3. ASSUME NEW t \in SUBSET S PROVE sum[t] \in Nat
  <2> HIDE DEF Q
  <2>1. t \in Q
    BY <1>1, <1>2, SubsetInduction
  <2> QED
    BY <2>1 DEF Q
<1>4. ASSUME NEW x \in s PROVE value[x] <= sum[s]
  <2>1. sum[s] = value[x] + sum[s \ {x}]
    <3>1. \A y \in S : value[y] \in Int
      OBVIOUS
    <3> QED
      BY <3>1, SumRemove
  <2>2. sum[s \ {x}] \in Nat /\ value[x] \in Nat
    BY <1>3
  <2> QED
    BY ONLY <2>1, <2>2
<1> QED
  BY <1>3, <1>4

(* Total is the sum of the values of the whole domain. *)
LEMMA TotalIsSum ==
    ASSUME NEW S, IsFiniteSet(S), NEW value, DOMAIN value = S
    PROVE  \E sum : IsSum(sum, value, S) /\ Total(value) = sum[S]
<1> DEFINE chosen == CHOOSE sum : sum = [s \in SUBSET S |->
                         IF s = {} THEN 0 ELSE value[Some(s)] + sum[s \ {Some(s)}]]
<1>1. \E sum : sum = [s \in SUBSET S |->
                         IF s = {} THEN 0 ELSE value[Some(s)] + sum[s \ {Some(s)}]]
  <2>1. \E sum : IsSum(sum, value, S)
    BY SumExists
  <2> QED
    BY <2>1 DEF IsSum, SumNext
<1>2. chosen = [s \in SUBSET S |->
                         IF s = {} THEN 0 ELSE value[Some(s)] + chosen[s \ {Some(s)}]]
  BY <1>1
<1>3. Total(value) = chosen[S]
  BY DEF Total, MapThenSumSet, MapThenFoldSet, Some
<1> HIDE DEF chosen
<1>4. IsSum(chosen, value, S)
  BY <1>2 DEF IsSum, SumNext
<1> QED
  BY <1>3, <1>4

LEMMA TotalBounds ==
    ASSUME NEW S, IsFiniteSet(S), NEW value \in [S -> Nat], NEW x \in S
    PROVE  Total(value) \in Nat /\ value[x] <= Total(value)
<1>1. PICK sum : IsSum(sum, value, S) /\ Total(value) = sum[S]
  BY TotalIsSum
<1>2. sum[S] \in Nat /\ \A y \in S : value[y] <= sum[S]
  <2>1. \A y \in S : value[y] \in Nat
    OBVIOUS
  <2>2. S \in SUBSET S
    OBVIOUS
  <2> QED
    BY ONLY <1>1, <2>1, <2>2, IsFiniteSet(S), SumBounds
<1> QED
  BY <1>1, <1>2

LEMMA TotalTyped ==
    ASSUME NEW S, IsFiniteSet(S), NEW value \in [S -> Int]
    PROVE  Total(value) \in Int
<1>1. PICK sum : IsSum(sum, value, S) /\ Total(value) = sum[S]
  BY TotalIsSum
<1>2. (\A x \in S : value[x] \in Int) /\ S \in SUBSET S
  OBVIOUS
<1>3. sum[S] \in Int
  BY ONLY <1>1, <1>2, IsFiniteSet(S), SumTyped
<1> QED
  BY <1>1, <1>3

LEMMA TotalOfZeros ==
    ASSUME NEW S, IsFiniteSet(S), NEW value, DOMAIN value = S, \A x \in S : value[x] = 0
    PROVE  Total(value) = 0
<1>1. PICK sum : IsSum(sum, value, S) /\ Total(value) = sum[S]
  BY TotalIsSum
<1> DEFINE Q == {t \in SUBSET S : sum[t] = 0}
<1>2. {} \in Q
  BY <1>1, SumSteps
<1>3. ASSUME NEW t \in SUBSET S, t # {}, \A y \in t : t \ {y} \in Q PROVE t \in Q
  <2> DEFINE y == Some(t)
  <2>1. y = Some(t)
    OBVIOUS
  <2> HIDE DEF y
  <2>2. y \in t /\ sum[t] = value[y] + sum[t \ {y}]
    BY ONLY <1>1, <1>3, <2>1, SumStep
  <2>3. value[y] = 0 /\ t \ {y} \in Q
    BY <1>3, <2>2
  <2> QED
    BY <2>2, <2>3
<1> HIDE DEF Q
<1>4. S \in Q
  <2>1. S \in SUBSET S
    OBVIOUS
  <2> QED
    BY ONLY <1>2, <1>3, <2>1, IsFiniteSet(S), SubsetInduction
<1> QED
  BY <1>1, <1>4 DEF Q

(* Another value for one element. *)
LEMMA TotalWith ==
    ASSUME NEW S, IsFiniteSet(S), NEW value \in [S -> Int], NEW other \in [S -> Int],
           NEW x \in S, \A y \in S \ {x} : value[y] = other[y]
    PROVE  Total(value) - value[x] = Total(other) - other[x]
<1>1. PICK f : IsSum(f, value, S) /\ Total(value) = f[S]
  BY TotalIsSum
<1>2. PICK g : IsSum(g, other, S) /\ Total(other) = g[S]
  BY TotalIsSum
<1>3. (\A y \in S : value[y] \in Int /\ other[y] \in Int) /\ S \in SUBSET S
  OBVIOUS
<1> DEFINE rest == S \ {x}
<1>4. f[S] = value[x] + f[rest] /\ g[S] = other[x] + g[rest]
  <2>1. f[S] = value[x] + f[rest]
    BY ONLY <1>1, <1>3, IsFiniteSet(S), x \in S, SumRemove
  <2>2. g[S] = other[x] + g[rest]
    BY ONLY <1>2, <1>3, IsFiniteSet(S), x \in S, SumRemove
  <2> QED
    BY ONLY <2>1, <2>2
<1>5. rest \in SUBSET S /\ \A y \in rest : value[y] = other[y]
  OBVIOUS
<1> HIDE DEF rest
<1>6. f[rest] = g[rest] /\ f[rest] \in Int /\ g[rest] \in Int
  <2>1. f[rest] = g[rest]
    BY ONLY <1>1, <1>2, <1>5, IsFiniteSet(S), SumsAgree
  <2>2. f[rest] \in Int
    BY ONLY <1>1, <1>3, <1>5, IsFiniteSet(S), SumTyped
  <2> QED
    BY ONLY <2>1, <2>2
<1> QED
  BY ONLY <1>1, <1>2, <1>3, <1>4, <1>6, x \in S

-----------------------------------------------------------------------------
(* Replay *)

(* The ledgers that a replay of n transactions goes through. *)
IsReplay(after, ledger, txs, n) ==
    after = [i \in 0 .. n |-> IF i = 0 THEN ledger ELSE Step(after[i - 1], txs[i])]

LEMMA ReplayIsRun ==
    ASSUME NEW ledger, NEW txs, NEW n, NEW after
    PROVE  IsReplay(after, ledger, txs, n) <=> R!IsRun(ReplayFrom(ledger, txs), after, n)
BY DEF IsReplay, R!IsRun, ReplayFrom, ReplayFirst, ReplayThen

LEMMA ReplaySteps ==
    ASSUME NEW ledger, NEW txs, NEW n \in Nat, NEW after, IsReplay(after, ledger, txs, n)
    PROVE  /\ after[0] = ledger
           /\ \A i \in 1 .. n : after[i] = Step(after[i - 1], txs[i])
<1> DEFINE loop == ReplayFrom(ledger, txs)
<1>1. R!IsRun(loop, after, n)
  BY ReplayIsRun
<1> HIDE DEF loop
<1>2. after[0] = ReplayFirst(loop) /\ \A i \in 1 .. n : after[i] = ReplayThen(loop, i, after[i - 1])
  BY <1>1, R!RunSteps
<1> QED
  BY <1>2 DEF loop, ReplayFrom, ReplayFirst, ReplayThen

LEMMA ReplayResult ==
    ASSUME NEW ledger, NEW txs, NEW n \in Nat, Len(txs) = n
    PROVE  \E after : IsReplay(after, ledger, txs, n) /\ Replay(ledger, txs) = after[n]
<1> DEFINE chosen == CHOOSE after : after = [i \in 0 .. Len(txs) |->
                         IF i = 0 THEN ledger ELSE Step(after[i - 1], txs[i])]
<1>1. \E after : after = [i \in 0 .. Len(txs) |->
                         IF i = 0 THEN ledger ELSE Step(after[i - 1], txs[i])]
  <2>1. \E after : R!IsRun(ReplayFrom(ledger, txs), after, Len(txs))
    BY R!RunExists
  <2>2. \E after : IsReplay(after, ledger, txs, Len(txs))
    BY <2>1, ReplayIsRun
  <2> QED
    BY <2>2 DEF IsReplay
<1>2. chosen = [i \in 0 .. Len(txs) |->
                         IF i = 0 THEN ledger ELSE Step(chosen[i - 1], txs[i])]
  BY <1>1
<1>3. Replay(ledger, txs) = chosen[Len(txs)]
  BY DEF Replay
<1> HIDE DEF chosen
<1> QED
  BY <1>2, <1>3 DEF IsReplay

(* Where two replays begin alike they go alike. *)
LEMMA ReplayAgrees ==
    ASSUME NEW ledger, NEW s, NEW t, NEW m \in Nat, NEW k \in Nat,
           NEW f, NEW g, IsReplay(f, ledger, s, m), IsReplay(g, ledger, t, k),
           NEW n \in Nat, n <= m, n <= k, \A i \in 1 .. n : s[i] = t[i]
    PROVE  f[n] = g[n]
<1> DEFINE c == ReplayFrom(ledger, s)
           d == ReplayFrom(ledger, t)
<1>1. R!IsRun(c, f, m) /\ R!IsRun(d, g, k)
  BY ReplayIsRun
<1>2. ReplayFirst(c) = ReplayFirst(d)
       /\ \A i \in 1 .. n : \A x : ReplayThen(c, i, x) = ReplayThen(d, i, x)
  BY DEF ReplayFrom, ReplayFirst, ReplayThen
<1> HIDE DEF c, d
<1> QED
  BY <1>1, <1>2, R!RunsAgree

LEMMA ReplayEmpty ==
    ASSUME NEW ledger, NEW txs, Len(txs) = 0
    PROVE  Replay(ledger, txs) = ledger
<1>1. PICK after : IsReplay(after, ledger, txs, 0) /\ Replay(ledger, txs) = after[0]
  BY ReplayResult
<1>2. IsReplay(after, ledger, txs, 0) /\ 0 \in Nat
  BY <1>1
<1>3. after[0] = ledger
  BY ONLY <1>2, ReplaySteps
<1> QED
  BY <1>1, <1>3

LEMMA ReplayAppend ==
    ASSUME NEW ledger, NEW S, NEW txs \in Seq(S), NEW tx
    PROVE  Replay(ledger, Append(txs, tx)) = Step(Replay(ledger, txs), tx)
<1> DEFINE n    == Len(txs)
           more == Append(txs, tx)
<1>1. n \in Nat /\ Len(more) = n + 1 /\ more[n + 1] = tx
       /\ \A i \in 1 .. n : txs[i] = more[i]
  OBVIOUS
<1>2. PICK f : IsReplay(f, ledger, txs, n) /\ Replay(ledger, txs) = f[n]
  BY ReplayResult, <1>1
<1> HIDE DEF n, more
<1>3. PICK g : IsReplay(g, ledger, more, n + 1) /\ Replay(ledger, more) = g[n + 1]
  <2>1. n + 1 \in Nat
    BY <1>1
  <2> QED
    BY <2>1, <1>1, ReplayResult
<1>4. f[n] = g[n]
  <2>1. n \in Nat /\ n + 1 \in Nat /\ n <= n /\ n <= n + 1
    BY <1>1
  <2>2. IsReplay(f, ledger, txs, n) /\ IsReplay(g, ledger, more, n + 1)
    BY <1>2, <1>3
  <2>3. \A i \in 1 .. n : txs[i] = more[i]
    BY <1>1
  <2> QED
    BY ONLY <2>1, <2>2, <2>3, ReplayAgrees
<1>5. g[n + 1] = Step(g[n], tx)
  <2>1. n + 1 \in Nat /\ n + 1 \in 1 .. n + 1 /\ (n + 1) - 1 = n
    BY <1>1
  <2>2. \A i \in 1 .. n + 1 : g[i] = Step(g[i - 1], more[i])
    BY ONLY <2>1, <1>3, ReplaySteps
  <2> QED
    BY <2>1, <2>2, <1>1
<1> QED
  BY <1>2, <1>3, <1>4, <1>5 DEF more

LEMMA ReplayConcat ==
    ASSUME NEW ledger, NEW S, NEW s \in Seq(S), NEW t \in Seq(S)
    PROVE  Replay(ledger, s \o t) = Replay(Replay(ledger, s), t)
<1> DEFINE m == Len(s)
           n == Len(t)
           both == s \o t
           total == m + n
<1>1. m \in Nat /\ n \in Nat /\ total \in Nat /\ total = m + n /\ Len(both) = total
  OBVIOUS
<1>2. (\A i \in 1 .. m : s[i] = both[i]) /\ \A i \in 1 .. n : both[m + i] = t[i]
  BY ConcatProperties
<1> HIDE DEF m, n, both, total
<1>3. PICK f : IsReplay(f, ledger, s, m) /\ Replay(ledger, s) = f[m]
  BY <1>1, ReplayResult DEF m
<1>4. PICK g : IsReplay(g, Replay(ledger, s), t, n) /\ Replay(Replay(ledger, s), t) = g[n]
  BY <1>1, ReplayResult DEF n
<1>5. PICK h : IsReplay(h, ledger, both, total) /\ Replay(ledger, both) = h[total]
  BY <1>1, ReplayResult
<1>6. f[m] = h[m]
  <2>1. m \in Nat /\ total \in Nat /\ m <= m /\ m <= total
    BY <1>1
  <2>2. IsReplay(f, ledger, s, m) /\ IsReplay(h, ledger, both, total)
    BY <1>3, <1>5
  <2>3. \A i \in 1 .. m : s[i] = both[i]
    BY <1>2
  <2> QED
    BY ONLY <2>1, <2>2, <2>3, ReplayAgrees
<1>7. g[0] = f[m] /\ \A i \in 1 .. n : g[i] = Step(g[i - 1], t[i])
  BY ONLY <1>1, <1>3, <1>4, ReplaySteps
<1>8. \A i \in 1 .. total : h[i] = Step(h[i - 1], both[i])
  <2>1. IsReplay(h, ledger, both, total) /\ total \in Nat
    BY <1>1, <1>5
  <2> QED
    BY ONLY <2>1, ReplaySteps
<1> DEFINE P == {k \in Nat : k <= n => h[m + k] = g[k]}
<1>9. 0 \in P
  BY <1>1, <1>6, <1>7
<1>10. ASSUME NEW k \in Nat, k \in P PROVE k + 1 \in P
  <2> SUFFICES ASSUME k + 1 <= n PROVE h[m + (k + 1)] = g[k + 1]
    OBVIOUS
  <2>1. k + 1 \in 1 .. n /\ m + (k + 1) \in 1 .. total
         /\ (k + 1) - 1 = k /\ (m + (k + 1)) - 1 = m + k /\ k <= n
    BY <1>1
  <2>2. g[k + 1] = Step(g[k], t[k + 1])
    BY <2>1, <1>7
  <2>3. h[m + (k + 1)] = Step(h[m + k], both[m + (k + 1)])
    BY <2>1, <1>8
  <2>4. both[m + (k + 1)] = t[k + 1] /\ h[m + k] = g[k]
    BY <2>1, <1>2, <1>10
  <2> QED
    BY <2>2, <2>3, <2>4
<1> HIDE DEF P
<1>11. n \in P
  BY <1>1, <1>9, <1>10, R!Induction
<1> QED
  BY <1>1, <1>4, <1>5, <1>11 DEF P, both

(* An error stays. *)
LEMMA ReplayRejected ==
    ASSUME NEW txs, NEW n \in Nat, NEW ledger, NEW after, IsReplay(after, ledger, txs, n),
           NEW k \in 0 .. n, after[k] = Rejected
    PROVE  after[n] = Rejected
<1>1. \A i \in 1 .. n : after[i] = Step(after[i - 1], txs[i])
  BY ONLY ReplaySteps, IsReplay(after, ledger, txs, n), n \in Nat
<1> DEFINE P == {j \in Nat : k <= j /\ j <= n => after[j] = Rejected}
<1>2. 0 \in P
  OBVIOUS
<1>3. ASSUME NEW j \in Nat, j \in P PROVE j + 1 \in P
  <2> SUFFICES ASSUME k <= j + 1, j + 1 <= n PROVE after[j + 1] = Rejected
    OBVIOUS
  <2>1. CASE k = j + 1
    BY <2>1
  <2>2. CASE k # j + 1
    <3>1. after[j] = Rejected
      BY <2>2, <1>3
    <3>2. after[j + 1] = Step(after[j], txs[j + 1])
      BY <1>1
    <3> QED
      BY <3>1, <3>2 DEF Step
  <2> QED
    BY <2>1, <2>2
<1> HIDE DEF P
<1>4. n \in P
  BY <1>2, <1>3, R!Induction
<1> QED
  BY <1>4 DEF P

LEMMA RejectedStays ==
    ASSUME NEW S, NEW txs \in Seq(S)
    PROVE  Replay(Rejected, txs) = Rejected
<1>1. Len(txs) \in Nat
  OBVIOUS
<1>2. PICK after : IsReplay(after, Rejected, txs, Len(txs)) /\ Replay(Rejected, txs) = after[Len(txs)]
  BY <1>1, ReplayResult
<1>3. after[0] = Rejected
  BY ONLY <1>1, <1>2, ReplaySteps
<1> QED
  BY <1>1, <1>2, <1>3, ReplayRejected

-----------------------------------------------------------------------------
(* Nonces *)

IsLedger(ledger) ==
    /\ ledger = [balance |-> ledger.balance, nonce |-> ledger.nonce]
    /\ ledger.balance \in [Accounts -> Int]
    /\ ledger.nonce \in [Accounts -> Nat]

(* The sender and the amount of a transaction that a node may see. *)
IsSent(tx) == tx.sender \in Accounts \cup {Blank} /\ tx.amount \in Int

LEMMA CreditIsTyped ==
    ASSUME NEW balance \in [Accounts -> Int], NEW account, NEW amount \in Int
    PROVE  Credit(balance, account, amount) \in [Accounts -> Int]
<1>1. ASSUME NEW x \in Int PROVE Wrap(x) \in Int
  BY MaxIntAssumption DEF Wrap
<1>2. ASSUME account \in Accounts PROVE Wrap(balance[account] + amount) \in Int
  BY <1>1, <1>2
<1> DEFINE new == Wrap(balance[account] + amount)
<1>3. Credit(balance, account, amount) = [balance EXCEPT ![account] = new]
  BY DEF Credit
<1> HIDE DEF new
<1> QED
  BY <1>2, <1>3 DEF new

LEMMA LedgerIsNotRejected ==
    ASSUME NEW ledger, IsLedger(ledger)
    PROVE  ledger # Rejected
BY DEF IsLedger, Rejected

LEMMA NewLedgerIsLedger == IsLedger(NewLedger)
BY DEF IsLedger, NewLedger

(* What a step that is not rejected does to the nonces. *)
LEMMA StepNonces ==
    ASSUME NEW ledger, IsLedger(ledger), NEW tx, IsSent(tx), Step(ledger, tx) # Rejected
    PROVE  /\ IsLedger(Step(ledger, tx))
           /\ tx.sender = Faucet => Step(ledger, tx).nonce = ledger.nonce
           /\ tx.sender # Faucet =>
                 /\ tx.sender \in Accounts
                 /\ tx.nonce = ledger.nonce[tx.sender] + 1
                 /\ Step(ledger, tx).nonce = [ledger.nonce EXCEPT ![tx.sender] = tx.nonce]
<1>1. CanApply(ledger, tx) /\ Step(ledger, tx) = Apply(ledger, tx)
  BY DEF Step
<1>2. tx.sender \in Accounts
  BY <1>1 DEF CanApply, ValidTransaction, IsSent
<1>3. CASE tx.sender = Faucet
  <2> DEFINE balance == Credit(ledger.balance, tx.recipient, tx.amount)
  <2>1. Apply(ledger, tx) = [balance |-> balance, nonce |-> ledger.nonce]
    BY <1>3 DEF Apply, IsLedger
  <2>2. balance \in [Accounts -> Int]
    BY CreditIsTyped DEF IsLedger, IsSent
  <2> HIDE DEF balance
  <2> QED
    BY <2>1, <2>2, <1>1, <1>3 DEF IsLedger
<1>4. CASE tx.sender # Faucet
  <2> DEFINE balance == Credit(Credit(ledger.balance, tx.sender, -tx.amount),
                               tx.recipient, tx.amount)
             nonce == [ledger.nonce EXCEPT ![tx.sender] = tx.nonce]
  <2>1. Apply(ledger, tx) = [balance |-> balance, nonce |-> nonce]
    BY <1>4 DEF Apply
  <2>2. tx.nonce = ledger.nonce[tx.sender] + 1
    BY <1>1, <1>4 DEF CanApply, NextNonce
  <2>3. nonce \in [Accounts -> Nat]
    BY <2>2, <1>2 DEF IsLedger
  <2>4. Step(ledger, tx).nonce = nonce /\ IsLedger(Step(ledger, tx))
    <3>1. Credit(ledger.balance, tx.sender, -tx.amount) \in [Accounts -> Int]
      BY CreditIsTyped DEF IsLedger, IsSent
    <3>2. balance \in [Accounts -> Int]
      BY <3>1, CreditIsTyped DEF IsSent
    <3> HIDE DEF balance, nonce
    <3> QED
      BY <1>1, <2>1, <2>3, <3>2 DEF IsLedger
  <2> QED
    BY <1>2, <1>4, <2>2, <2>4
<1> QED
  BY <1>3, <1>4

(* The ledgers on the way are ledgers, when the last one is not rejected. *)
LEMMA ReplayLedgers ==
    ASSUME NEW ledger, IsLedger(ledger), NEW txs, NEW n \in Nat,
           \A i \in 1 .. n : IsSent(txs[i]),
           NEW after, IsReplay(after, ledger, txs, n), after[n] # Rejected
    PROVE  \A i \in 0 .. n : IsLedger(after[i])
<1>1. \A k \in 0 .. n : after[k] # Rejected
  BY ReplayRejected
<1>2. after[0] = ledger
  BY ONLY ReplaySteps, IsReplay(after, ledger, txs, n), n \in Nat
<1>3. \A i \in 1 .. n : after[i] = Step(after[i - 1], txs[i])
  BY ONLY ReplaySteps, IsReplay(after, ledger, txs, n), n \in Nat
<1> DEFINE P == {j \in Nat : j <= n => IsLedger(after[j])}
<1>4. 0 \in P
  BY <1>2
<1>5. ASSUME NEW j \in Nat, j \in P PROVE j + 1 \in P
  <2> SUFFICES ASSUME j + 1 <= n PROVE IsLedger(after[j + 1])
    OBVIOUS
  <2>1. j + 1 \in 1 .. n /\ (j + 1) - 1 = j /\ j \in 0 .. n /\ j + 1 \in 0 .. n
    OBVIOUS
  <2>2. after[j + 1] = Step(after[j], txs[j + 1]) /\ after[j + 1] # Rejected
    BY <2>1, <1>1, <1>3
  <2>3. IsLedger(after[j]) /\ IsSent(txs[j + 1])
    BY <2>1, <1>5
  <2>4. Step(after[j], txs[j + 1]) # Rejected
    BY ONLY <2>2
  <2>5. IsLedger(Step(after[j], txs[j + 1]))
    BY ONLY <2>3, <2>4, StepNonces
  <2> QED
    BY ONLY <2>2, <2>5
<1> HIDE DEF P
<1>6. \A i \in Nat : i \in P
  BY <1>4, <1>5, R!Induction
<1> QED
  BY <1>6 DEF P

(* What a transaction does to the nonces. *)
NonceStep(before, tx, after) ==
    /\ tx.sender = Faucet => after.nonce = before.nonce
    /\ tx.sender # Faucet =>
          /\ tx.sender \in Accounts
          /\ tx.nonce = before.nonce[tx.sender] + 1
          /\ after.nonce = [before.nonce EXCEPT ![tx.sender] = tx.nonce]

(* In a list that replays without error a sender's nonces increase. *)
THEOREM NoncesIncrease ==
    ASSUME NEW S, NEW txs \in Seq(S), \A i \in DOMAIN txs : IsSent(txs[i]),
           Replay(NewLedger, txs) # Rejected,
           NEW a \in DOMAIN txs, NEW b \in DOMAIN txs, a < b,
           txs[a].sender = txs[b].sender, txs[a].sender # Faucet
    PROVE  txs[a].nonce < txs[b].nonce
<1> DEFINE n == Len(txs)
           who == txs[a].sender
<1>1. n \in Nat /\ a \in 1 .. n /\ b \in 1 .. n /\ \A i \in 1 .. n : IsSent(txs[i])
  OBVIOUS
<1>2. PICK after : IsReplay(after, NewLedger, txs, n) /\ Replay(NewLedger, txs) = after[n]
  BY ReplayResult
<1> HIDE DEF n
<1>3. \A i \in 0 .. n : IsLedger(after[i])
  <2>1. after[n] # Rejected /\ IsLedger(NewLedger) /\ IsReplay(after, NewLedger, txs, n)
    BY <1>2, NewLedgerIsLedger
  <2> QED
    BY ONLY <2>1, <1>1, ReplayLedgers
<1>4. \A i \in 1 .. n : after[i] = Step(after[i - 1], txs[i])
  BY ONLY <1>1, <1>2, ReplaySteps
<1>5. ASSUME NEW i \in 1 .. n PROVE NonceStep(after[i - 1], txs[i], after[i])
  <2>1. i - 1 \in 0 .. n /\ i \in 0 .. n
    BY <1>1
  <2>2. IsLedger(after[i - 1]) /\ IsLedger(after[i]) /\ IsSent(txs[i])
    BY <2>1, <1>1, <1>3
  <2>3. Step(after[i - 1], txs[i]) = after[i] /\ after[i] # Rejected
    BY <2>2, <1>4, LedgerIsNotRejected
  <2>4. Step(after[i - 1], txs[i]) # Rejected
    BY ONLY <2>3
  <2> DEFINE next == Step(after[i - 1], txs[i])
  <2>5. NonceStep(after[i - 1], txs[i], next)
    BY ONLY <2>2, <2>4, StepNonces DEF NonceStep
  <2> HIDE DEF next
  <2>6. next = after[i]
    BY ONLY <2>3 DEF next
  <2> QED
    BY ONLY <2>5, <2>6
<1>6. \A i \in 0 .. n : after[i].nonce \in [Accounts -> Nat]
  BY <1>3 DEF IsLedger
<1>7. who \in Accounts /\ txs[a].nonce = after[a].nonce[who] /\ txs[a].nonce \in Nat
  <2>1. a \in 0 .. n /\ a - 1 \in 0 .. n
    BY <1>1
  <2>2. who \in Accounts /\ after[a].nonce = [after[a - 1].nonce EXCEPT ![who] = txs[a].nonce]
         /\ txs[a].nonce = after[a - 1].nonce[who] + 1
    <3>1. NonceStep(after[a - 1], txs[a], after[a])
      BY <1>1, <1>5
    <3> QED
      BY <3>1 DEF NonceStep
  <2> QED
    BY <2>1, <2>2, <1>6
<1> DEFINE P == {k \in Nat : a <= k /\ k <= n => after[k].nonce[who] >= txs[a].nonce}
<1>8. 0 \in P
  BY <1>1
<1>9. ASSUME NEW k \in Nat, k \in P PROVE k + 1 \in P
  <2> SUFFICES ASSUME a <= k + 1, k + 1 <= n PROVE after[k + 1].nonce[who] >= txs[a].nonce
    OBVIOUS
  <2>1. CASE a = k + 1
    BY <2>1, <1>7
  <2>2. CASE a # k + 1
    <3>1. k + 1 \in 1 .. n /\ (k + 1) - 1 = k /\ k \in 0 .. n
      BY <1>1
    <3>2. after[k].nonce[who] >= txs[a].nonce /\ after[k].nonce \in [Accounts -> Nat]
      BY <2>2, <3>1, <1>1, <1>6, <1>9
    <3>5. NonceStep(after[k], txs[k + 1], after[k + 1])
      <4>1. NonceStep(after[(k + 1) - 1], txs[k + 1], after[k + 1])
        BY ONLY <3>1, <1>5
      <4> QED
        BY ONLY <3>1, <4>1
    <3>3. CASE txs[k + 1].sender = who
      <4>1. txs[k + 1].nonce = after[k].nonce[who] + 1
             /\ after[k + 1].nonce = [after[k].nonce EXCEPT ![who] = txs[k + 1].nonce]
        <5>1. txs[k + 1].sender # Faucet
          BY <3>3
        <5> QED
          BY ONLY <5>1, <3>3, <3>5 DEF NonceStep
      <4>2. after[k + 1].nonce[who] = after[k].nonce[who] + 1
        BY <4>1, <3>2, <1>7
      <4> HIDE DEF who
      <4> QED
        BY <4>2, <3>2, <1>7
    <3>4. CASE txs[k + 1].sender # who
      <4>1. after[k + 1].nonce[who] = after[k].nonce[who]
        <5>1. CASE txs[k + 1].sender = Faucet
          BY <5>1, <3>5 DEF NonceStep
        <5>2. CASE txs[k + 1].sender # Faucet
          <6>1. after[k + 1].nonce = [after[k].nonce EXCEPT ![txs[k + 1].sender] = txs[k + 1].nonce]
            BY <5>2, <3>5 DEF NonceStep
          <6> HIDE DEF who
          <6> QED
            BY <6>1, <3>2, <3>4, <1>7
        <5> QED
          BY <5>1, <5>2
      <4> QED
        BY <4>1, <3>2
    <3> QED
      BY <3>3, <3>4
  <2> QED
    BY <2>1, <2>2
<1> HIDE DEF P, who
<1>10. b - 1 \in P /\ b - 1 \in Nat
  <2>1. b - 1 \in Nat
    BY <1>1
  <2> QED
    BY <2>1, <1>8, <1>9, R!Induction
<1>11. after[b - 1].nonce[who] >= txs[a].nonce /\ after[b - 1].nonce[who] \in Nat
  <2>1. b - 1 \in 0 .. n /\ a <= b - 1 /\ b - 1 <= n
    BY <1>1
  <2> QED
    BY <2>1, <1>6, <1>7, <1>10 DEF P
<1>12. txs[b].nonce = after[b - 1].nonce[who] + 1
  <2>1. NonceStep(after[b - 1], txs[b], after[b])
    BY <1>1, <1>5
  <2>2. txs[b].sender = who /\ txs[b].sender # Faucet
    BY DEF who
  <2> QED
    BY ONLY <2>1, <2>2 DEF NonceStep
<1> QED
  BY <1>7, <1>11, <1>12

-----------------------------------------------------------------------------
(* What was replayed *)

LEMMA ReplayedIsLedger ==
    ASSUME NEW S, NEW txs \in Seq(S), \A i \in DOMAIN txs : IsSent(txs[i]),
           Replay(NewLedger, txs) # Rejected
    PROVE  IsLedger(Replay(NewLedger, txs))
<1> DEFINE n == Len(txs)
<1>1. n \in Nat /\ n \in 0 .. n /\ \A i \in 1 .. n : IsSent(txs[i])
  OBVIOUS
<1>2. PICK after : IsReplay(after, NewLedger, txs, n) /\ Replay(NewLedger, txs) = after[n]
  BY ReplayResult
<1> HIDE DEF n
<1>3. after[n] # Rejected /\ IsLedger(NewLedger) /\ IsReplay(after, NewLedger, txs, n)
  BY <1>2, NewLedgerIsLedger
<1>4. \A i \in 0 .. n : IsLedger(after[i])
  BY ONLY <1>1, <1>3, ReplayLedgers
<1> QED
  BY <1>1, <1>2, <1>4

(* Every transaction of a list that replays without error is valid. *)
LEMMA ReplayedIsValid ==
    ASSUME NEW ledger, NEW S, NEW txs \in Seq(S), Replay(ledger, txs) # Rejected,
           NEW i \in DOMAIN txs
    PROVE  ValidTransaction(txs[i])
<1> DEFINE n == Len(txs)
<1>1. n \in Nat /\ i \in 1 .. n /\ i \in 0 .. n
  OBVIOUS
<1>2. PICK after : IsReplay(after, ledger, txs, n) /\ Replay(ledger, txs) = after[n]
  BY ReplayResult
<1> HIDE DEF n
<1>3. after[i] # Rejected
  BY ONLY <1>1, <1>2, Replay(ledger, txs) # Rejected, ReplayRejected
<1>4. \A k \in 1 .. n : after[k] = Step(after[k - 1], txs[k])
  BY ONLY <1>1, <1>2, ReplaySteps
<1>5. Step(after[i - 1], txs[i]) # Rejected
  BY <1>1, <1>3, <1>4
<1> QED
  BY <1>5 DEF Step, CanApply

LEMMA AppliedIsNotRejected ==
    ASSUME NEW ledger, IsLedger(ledger), NEW tx
    PROVE  Apply(ledger, tx) # Rejected
<1> DEFINE balance == Credit(ledger.balance, tx.recipient, tx.amount)
           other == Credit(Credit(ledger.balance, tx.sender, -tx.amount), tx.recipient, tx.amount)
           nonce == [ledger.nonce EXCEPT ![tx.sender] = tx.nonce]
<1>1. CASE tx.sender = Faucet
  <2>1. Apply(ledger, tx) = [balance |-> balance, nonce |-> ledger.nonce]
    BY <1>1 DEF Apply, IsLedger
  <2> HIDE DEF balance
  <2> QED
    BY <2>1 DEF Rejected
<1>2. CASE tx.sender # Faucet
  <2>1. Apply(ledger, tx) = [balance |-> other, nonce |-> nonce]
    BY <1>2 DEF Apply
  <2> HIDE DEF other, nonce
  <2> QED
    BY <2>1 DEF Rejected
<1> QED
  BY <1>1, <1>2

(* A transaction that applies to what was replayed can be appended to it. *)
LEMMA ReplayedMore ==
    ASSUME NEW S, NEW txs \in Seq(S), \A i \in DOMAIN txs : IsSent(txs[i]),
           Replay(NewLedger, txs) # Rejected, NEW tx, CanApply(Replay(NewLedger, txs), tx)
    PROVE  Replay(NewLedger, Append(txs, tx)) # Rejected
<1> DEFINE ledger == Replay(NewLedger, txs)
<1>1. IsLedger(ledger)
  BY ReplayedIsLedger
<1>2. Step(ledger, tx) = Apply(ledger, tx)
  <2> HIDE DEF ledger
  <2>1. CanApply(ledger, tx) /\ ledger # Rejected
    BY DEF ledger
  <2> QED
    BY <2>1 DEF Step
<1>3. Replay(NewLedger, Append(txs, tx)) = Step(ledger, tx)
  BY ReplayAppend
<1> HIDE DEF ledger
<1> QED
  BY <1>1, <1>2, <1>3, AppliedIsNotRejected
-----------------------------------------------------------------------------
(* Money *)

(* One more than MaxInt starts again at the least int64. *)
Period == 2 * (MaxInt + 1)

LEMMA WrapIsCongruent ==
    ASSUME NEW x \in Int
    PROVE  \E k \in Int : Wrap(x) = x + Period * k
<1>1. Period \in Nat \ {0} /\ x + MaxInt + 1 \in Int
  BY MaxIntAssumption DEF Period
<1> DEFINE y == x + MaxInt + 1
<1>2. PICK q \in Int : y = Period * q + (y % Period) /\ y % Period \in 0 .. Period - 1
  <2> HIDE DEF y
  <2>1. Period \in Nat \ {0} /\ y \in Int
    BY <1>1 DEF y
  <2> QED
    BY ONLY <2>1, Division
<1>3. Wrap(x) = (y % Period) - (MaxInt + 1)
  BY DEF Wrap, Period
<1> DEFINE m == Period * q
           r == y % Period
           p == Period
<1>4. m \in Int /\ r \in Int
  BY <1>1, <1>2
<1>5. m + Period * (-q) = 0
  BY <1>1
<1>6. y = m + r
  BY <1>2
<1>7. Wrap(x) = r - (MaxInt + 1)
  BY <1>3
<1> HIDE DEF m, r
<1> DEFINE back == Period * (-q)
<1>8. back \in Int /\ m + back = 0 /\ y = m + r /\ Wrap(x) = r - (MaxInt + 1)
  BY <1>1, <1>5, <1>6, <1>7
<1> HIDE DEF back
<1>9. Wrap(x) = x + back
  BY <1>4, <1>8, MaxIntAssumption
<1>10. -q \in Int
  OBVIOUS
<1> QED
  BY <1>9, <1>10 DEF back

LEMMA WrapOfCongruent ==
    ASSUME NEW x \in Int, NEW k \in Int
    PROVE  Wrap(x + Period * k) = Wrap(x)
<1> DEFINE y == x + MaxInt + 1
           z == x + Period * k + MaxInt + 1
           p == Period
<1>1. p \in Nat \ {0} /\ y \in Int /\ z \in Int
  BY MaxIntAssumption DEF Period
<1>2. Wrap(x) = (y % p) - (MaxInt + 1) /\ Wrap(x + Period * k) = (z % p) - (MaxInt + 1)
  BY DEF Wrap, Period
<1>3. z = y + p * k
  BY <1>1, MaxIntAssumption
<1> HIDE DEF y, z, p
<1>4. PICK q \in Int : y = p * q + (y % p) /\ y % p \in 0 .. p - 1
  BY ONLY <1>1, Division
<1> DEFINE r == y % p
<1>5. r \in 0 .. p - 1 /\ y = p * q + r
  BY <1>4
<1> HIDE DEF r
<1>6. z = p * (q + k) + r /\ q + k \in Int
  <2>1. p * (q + k) = p * q + p * k
    BY <1>1
  <2>2. p * q \in Int /\ p * k \in Int
    BY <1>1
  <2> QED
    BY <1>1, <1>3, <1>5, <2>1, <2>2
<1>7. z % p = r
  BY ONLY <1>1, <1>5, <1>6, Remainder
<1> QED
  BY <1>2, <1>7 DEF r

(* What crediting an account does to the total. *)
LEMMA CreditTotal ==
    ASSUME IsFiniteSet(Accounts), NEW balance \in [Accounts -> Int], NEW account \in Accounts,
           NEW amount \in Int
    PROVE  \E k \in Int : Total(Credit(balance, account, amount)) = Total(balance) + amount + Period * k
<1> DEFINE old == balance[account]
           new == Wrap(old + amount)
           credited == Credit(balance, account, amount)
<1>1. PICK k \in Int : new = old + amount + Period * k
  BY WrapIsCongruent
<1>2. credited \in [Accounts -> Int]
  BY CreditIsTyped
<1>3. credited[account] = new /\ \A a \in Accounts \ {account} : balance[a] = credited[a]
  BY DEF Credit
<1> HIDE DEF credited
<1>4. Total(balance) - balance[account] = Total(credited) - credited[account]
  BY ONLY <1>2, <1>3, IsFiniteSet(Accounts), balance \in [Accounts -> Int], account \in Accounts,
          TotalWith
<1>5. Total(balance) \in Int /\ Total(credited) \in Int
  BY ONLY <1>2, IsFiniteSet(Accounts), balance \in [Accounts -> Int], TotalTyped
<1> DEFINE shift == Period * k
<1>6. old \in Int /\ shift \in Int
  BY MaxIntAssumption DEF Period
<1>7. new = old + amount + shift
  BY <1>1
<1> HIDE DEF old, new, shift
<1>8. Total(balance) - old = Total(credited) - new
  BY <1>3, <1>4 DEF old
<1>9. Total(credited) = Total(balance) + amount + shift
  BY ONLY <1>5, <1>6, <1>7, <1>8, amount \in Int
<1> QED
  BY <1>9 DEF credited, shift

(* As long as an int64 holds all that there is, no credit wraps. *)
LEMMA CreditIsExact ==
    ASSUME IsFiniteSet(Accounts), NEW balance \in [Accounts -> Nat], NEW account \in Accounts,
           NEW amount \in Int, balance[account] + amount >= 0, Total(balance) + amount <= MaxInt
    PROVE  /\ Credit(balance, account, amount) \in [Accounts -> Nat]
           /\ Credit(balance, account, amount)[account] = balance[account] + amount
           /\ Total(Credit(balance, account, amount)) = Total(balance) + amount
<1> DEFINE old == balance[account]
           new == old + amount
           credited == Credit(balance, account, amount)
<1>1. old \in Nat /\ Total(balance) \in Nat /\ old <= Total(balance)
  BY TotalBounds
<1>2. new \in Nat /\ new <= MaxInt /\ new \in Int /\ -MaxInt <= new
  BY <1>1, MaxIntAssumption
<1>3. Wrap(new) = new
  <2> HIDE DEF new
  <2> QED
    BY ONLY <1>2, WrapIsExact
<1>4. credited = [balance EXCEPT ![account] = new]
  BY <1>3 DEF Credit
<1> HIDE DEF new, credited
<1>5. /\ credited \in [Accounts -> Nat] /\ credited[account] = new
      /\ \A a \in Accounts \ {account} : balance[a] = credited[a]
  BY <1>2, <1>4
<1>6. balance \in [Accounts -> Int] /\ credited \in [Accounts -> Int]
  BY <1>5
<1>7. Total(balance) - balance[account] = Total(credited) - credited[account]
  BY ONLY <1>5, <1>6, IsFiniteSet(Accounts), account \in Accounts, TotalWith
<1>8. Total(credited) \in Int
  BY ONLY <1>6, IsFiniteSet(Accounts), TotalTyped
<1>9. Total(credited) = Total(balance) + amount
  BY <1>1, <1>5, <1>7, <1>8 DEF new
<1> QED
  BY <1>5, <1>9 DEF new, credited

(* The balances hold what the faucet gave, as far as an int64 can. *)
Conserved(balance, minted) ==
    /\ \E k \in Int : Total(balance) = minted + Period * k
    /\ minted <= MaxInt => Total(balance) = minted /\ balance \in [Accounts -> Nat]

Given(tx) == IF tx.sender = Faucet THEN tx.amount ELSE 0

IsPayment(tx) == IsSent(tx) /\ tx.recipient \in Accounts \cup {Blank}

LEMMA FaucetConserves ==
    ASSUME IsFiniteSet(Accounts), NEW balance \in [Accounts -> Int], NEW minted \in Nat,
           Conserved(balance, minted), NEW account \in Accounts, NEW amount \in Nat
    PROVE  Conserved(Credit(balance, account, amount), minted + amount)
<1> DEFINE credited == Credit(balance, account, amount)
<1>1. PICK k \in Int : Total(balance) = minted + Period * k
  BY DEF Conserved
<1>2. PICK l \in Int : Total(credited) = Total(balance) + amount + Period * l
  <2>1. amount \in Int
    OBVIOUS
  <2> QED
    BY ONLY <2>1, IsFiniteSet(Accounts), balance \in [Accounts -> Int], account \in Accounts,
            CreditTotal
<1> HIDE DEF credited
<1>3. Total(credited) = minted + amount + Period * (k + l) /\ k + l \in Int
  <2> DEFINE one == Period * k
             two == Period * l
             both == Period * (k + l)
  <2>1. one \in Int /\ two \in Int /\ both = one + two
    BY MaxIntAssumption DEF Period
  <2>2. Total(balance) = minted + one /\ Total(credited) = Total(balance) + amount + two
    BY <1>1, <1>2
  <2> HIDE DEF one, two, both
  <2>3. Total(credited) = minted + amount + both
    BY ONLY <2>1, <2>2, minted \in Nat, amount \in Nat
  <2> QED
    BY <2>3 DEF both
<1>4. ASSUME minted + amount <= MaxInt
      PROVE  Total(credited) = minted + amount /\ credited \in [Accounts -> Nat]
  <2>1. minted <= MaxInt
    BY <1>4, MaxIntAssumption
  <2>2. Total(balance) = minted /\ balance \in [Accounts -> Nat]
    BY <2>1 DEF Conserved
  <2>3. balance[account] + amount >= 0 /\ Total(balance) + amount <= MaxInt /\ amount \in Int
    BY <1>4, <2>2
  <2>4. /\ Credit(balance, account, amount) \in [Accounts -> Nat]
        /\ Total(Credit(balance, account, amount)) = Total(balance) + amount
    BY ONLY <2>2, <2>3, IsFiniteSet(Accounts), account \in Accounts, CreditIsExact
  <2> QED
    BY <2>2, <2>4 DEF credited
<1> QED
  BY <1>3, <1>4 DEF Conserved, credited

LEMMA PaymentConserves ==
    ASSUME IsFiniteSet(Accounts), NEW balance \in [Accounts -> Int], NEW minted \in Nat,
           Conserved(balance, minted), NEW from \in Accounts, NEW to \in Accounts,
           NEW amount \in Nat, balance[from] >= amount
    PROVE  Conserved(Credit(Credit(balance, from, -amount), to, amount), minted)
<1> DEFINE debited == Credit(balance, from, -amount)
           credited == Credit(debited, to, amount)
<1>0. amount \in Int /\ -amount \in Int
  OBVIOUS
<1>1. PICK k \in Int : Total(balance) = minted + Period * k
  BY DEF Conserved
<1>2. PICK l \in Int : Total(debited) = Total(balance) + (-amount) + Period * l
  BY ONLY <1>0, IsFiniteSet(Accounts), balance \in [Accounts -> Int], from \in Accounts, CreditTotal
<1>3. debited \in [Accounts -> Int]
  BY <1>0, CreditIsTyped
<1>4. ASSUME minted <= MaxInt
      PROVE  /\ Total(debited) = minted - amount
             /\ debited \in [Accounts -> Nat]
  <2>2. Total(balance) = minted /\ balance \in [Accounts -> Nat]
    BY <1>4 DEF Conserved
  <2>3. balance[from] + (-amount) >= 0 /\ Total(balance) + (-amount) <= MaxInt
    BY <1>4, <2>2, MaxIntAssumption
  <2>4. /\ Credit(balance, from, -amount) \in [Accounts -> Nat]
        /\ Total(Credit(balance, from, -amount)) = Total(balance) + (-amount)
    BY ONLY <1>0, <2>2, <2>3, IsFiniteSet(Accounts), from \in Accounts, CreditIsExact
  <2> QED
    BY <2>2, <2>4
<1> HIDE DEF debited
<1>5. PICK m \in Int : Total(credited) = Total(debited) + amount + Period * m
  BY ONLY <1>0, <1>3, IsFiniteSet(Accounts), to \in Accounts, CreditTotal
<1>6. ASSUME minted <= MaxInt
      PROVE  Total(credited) = minted /\ credited \in [Accounts -> Nat]
  <2>1. Total(debited) = minted - amount /\ debited \in [Accounts -> Nat]
    BY <1>4, <1>6
  <2>2. debited[to] + amount >= 0 /\ Total(debited) + amount <= MaxInt
    BY <1>6, <2>1, MaxIntAssumption
  <2>3. /\ Credit(debited, to, amount) \in [Accounts -> Nat]
        /\ Total(Credit(debited, to, amount)) = Total(debited) + amount
    BY ONLY <1>0, <2>1, <2>2, IsFiniteSet(Accounts), to \in Accounts, CreditIsExact
  <2> QED
    BY <2>1, <2>3
<1> HIDE DEF credited
<1>7. Total(credited) = minted + Period * (k + l + m) /\ k + l + m \in Int
  <2> DEFINE one == Period * k
             two == Period * l
             three == Period * m
             all == Period * (k + l + m)
  <2>1. one \in Int /\ two \in Int /\ three \in Int /\ all = one + two + three
    BY MaxIntAssumption DEF Period
  <2>2. /\ Total(balance) = minted + one /\ Total(debited) = Total(balance) + (-amount) + two
        /\ Total(credited) = Total(debited) + amount + three
    BY <1>1, <1>2, <1>5
  <2> HIDE DEF one, two, three, all
  <2>3. Total(credited) = minted + all
    BY ONLY <2>1, <2>2, minted \in Nat, amount \in Nat
  <2> QED
    BY <2>3 DEF all
<1> QED
  BY <1>6, <1>7 DEF Conserved, credited, debited

LEMMA StepConserves ==
    ASSUME IsFiniteSet(Accounts), NEW ledger, IsLedger(ledger), NEW minted \in Nat,
           Conserved(ledger.balance, minted), NEW tx, IsPayment(tx), Step(ledger, tx) # Rejected
    PROVE  Given(tx) \in Nat /\ Conserved(Step(ledger, tx).balance, minted + Given(tx))
<1>1. CanApply(ledger, tx) /\ Step(ledger, tx) = Apply(ledger, tx)
  BY DEF Step
<1>2. tx.sender \in Accounts /\ tx.recipient \in Accounts /\ tx.amount \in Nat /\ tx.amount > 0
  BY <1>1 DEF CanApply, ValidTransaction, IsPayment, IsSent
<1>3. ledger.balance \in [Accounts -> Int]
  BY DEF IsLedger
<1>4. CASE tx.sender = Faucet
  <2> DEFINE balance == Credit(ledger.balance, tx.recipient, tx.amount)
  <2>1. Apply(ledger, tx) = [balance |-> balance, nonce |-> ledger.nonce]
    BY <1>4 DEF Apply, IsLedger
  <2>2. Conserved(balance, minted + tx.amount)
    BY ONLY <1>2, <1>3, IsFiniteSet(Accounts), minted \in Nat, Conserved(ledger.balance, minted),
            FaucetConserves
  <2>3. Given(tx) = tx.amount
    BY <1>4 DEF Given
  <2> HIDE DEF balance
  <2> QED
    BY <1>1, <1>2, <2>1, <2>2, <2>3
<1>5. CASE tx.sender # Faucet
  <2> DEFINE balance == Credit(Credit(ledger.balance, tx.sender, -tx.amount),
                               tx.recipient, tx.amount)
             nonce == [ledger.nonce EXCEPT ![tx.sender] = tx.nonce]
  <2>1. Apply(ledger, tx) = [balance |-> balance, nonce |-> nonce]
    BY <1>5 DEF Apply
  <2>2. ledger.balance[tx.sender] >= tx.amount
    BY <1>1, <1>5 DEF CanApply
  <2>3. Conserved(balance, minted)
    BY ONLY <1>2, <1>3, <2>2, IsFiniteSet(Accounts), minted \in Nat,
            Conserved(ledger.balance, minted), PaymentConserves
  <2>4. Given(tx) = 0 /\ minted + 0 = minted
    BY <1>5 DEF Given
  <2> HIDE DEF balance, nonce
  <2> QED
    BY <1>1, <2>1, <2>3, <2>4
<1> QED
  BY <1>4, <1>5

(* Replaying a list conserves money. *)
LEMMA ReplayConserves ==
    ASSUME IsFiniteSet(Accounts), NEW S, NEW txs \in Seq(S),
           \A i \in DOMAIN txs : IsPayment(txs[i]), Replay(NewLedger, txs) # Rejected
    PROVE  Minted(txs) \in Nat /\ Conserved(Replay(NewLedger, txs).balance, Minted(txs))
<1> DEFINE n == Len(txs)
           value == [i \in DOMAIN txs |-> IF txs[i].sender = Faucet THEN txs[i].amount ELSE 0]
<1>1. n \in Nat /\ DOMAIN txs = 1 .. n
  OBVIOUS
<1>2. DOMAIN value = 1 .. n /\ \A i \in 1 .. n : value[i] = Given(txs[i])
  BY <1>1 DEF Given
<1>3. Minted(txs) = Total(value)
  BY DEF Minted
<1>4. PICK after : IsReplay(after, NewLedger, txs, n) /\ Replay(NewLedger, txs) = after[n]
  BY ReplayResult
<1> HIDE DEF n, value
<1>5. IsFiniteSet(1 .. n)
  BY <1>1, FS_Interval
<1>6. PICK sum : IsSum(sum, value, 1 .. n) /\ Total(value) = sum[1 .. n]
  BY <1>2, <1>5, TotalIsSum
<1>7. \A i \in 1 .. n : value[i] \in Int
  BY <1>1, <1>2 DEF IsPayment, IsSent, Given
<1>8. \A i \in 0 .. n : IsLedger(after[i])
  <2>1. \A i \in 1 .. n : IsSent(txs[i])
    BY <1>1 DEF IsPayment
  <2>2. after[n] # Rejected /\ IsLedger(NewLedger) /\ IsReplay(after, NewLedger, txs, n)
    BY <1>4, NewLedgerIsLedger
  <2> QED
    BY ONLY <1>1, <2>1, <2>2, ReplayLedgers
<1>9. after[0] = NewLedger /\ \A i \in 1 .. n : after[i] = Step(after[i - 1], txs[i])
  BY ONLY <1>1, <1>4, ReplaySteps
<1> DEFINE P == {j \in Nat : j <= n => sum[1 .. j] \in Nat /\ Conserved(after[j].balance, sum[1 .. j])}
<1>10. 0 \in P
  <2>1. sum[{}] = 0
    BY ONLY <1>6, SumSteps
  <2>2. 1 .. 0 = {}
    OBVIOUS
  <2> DEFINE balance == NewLedger.balance
  <2>3. balance = [a \in Accounts |-> 0]
    BY DEF NewLedger
  <2> HIDE DEF balance
  <2>4. Total(balance) = 0
    <3>1. DOMAIN balance = Accounts /\ \A a \in Accounts : balance[a] = 0
      BY <2>3
    <3> QED
      BY ONLY <3>1, IsFiniteSet(Accounts), TotalOfZeros
  <2>5. \E k \in Int : 0 = 0 + Period * k
    <3>1. Period * 0 = 0
      BY MaxIntAssumption DEF Period
    <3> QED
      BY <3>1
  <2>6. Conserved(balance, 0)
    BY <2>3, <2>4, <2>5 DEF Conserved
  <2>7. after[0].balance = balance
    BY <1>9 DEF balance
  <2>8. sum[1 .. 0] = 0
    BY <2>1, <2>2
  <2> QED
    BY <2>6, <2>7, <2>8
<1>11. ASSUME NEW j \in Nat, j \in P PROVE j + 1 \in P
  <2> SUFFICES ASSUME j + 1 <= n
               PROVE  sum[1 .. j + 1] \in Nat /\ Conserved(after[j + 1].balance, sum[1 .. j + 1])
    OBVIOUS
  <2> DEFINE i == j + 1
             before == after[j]
             tx == txs[i]
             m == sum[1 .. j]
             up == 1 .. i
  <2>1. /\ i \in 1 .. n /\ i - 1 = j /\ j \in 0 .. n /\ i \in 0 .. n
        /\ up \in SUBSET (1 .. n) /\ i \in up /\ up \ {i} = 1 .. j
    BY <1>1
  <2>2. m \in Nat /\ Conserved(before.balance, m)
    BY <1>11, <2>1
  <2> HIDE DEF i
  <2>3. after[i] = Step(before, tx)
    BY <1>9, <2>1
  <2>4. IsLedger(before) /\ IsLedger(after[i]) /\ IsPayment(tx)
    BY <1>1, <1>8, <2>1
  <2>5. sum[up] = value[i] + m
    <3>1. sum[up] = value[i] + sum[up \ {i}]
      <4> DEFINE all == 1 .. n
      <4>1. /\ IsFiniteSet(all) /\ IsSum(sum, value, all) /\ \A k \in all : value[k] \in Int
            /\ up \in SUBSET all /\ i \in up
        BY <1>5, <1>6, <1>7, <2>1
      <4> HIDE DEF all, up
      <4> QED
        BY ONLY <4>1, SumRemove
    <3> QED
      BY <2>1, <3>1
  <2>6. value[i] = Given(tx)
    BY <1>2, <2>1
  <2> HIDE DEF before, tx, m, up
  <2>7. Step(before, tx) # Rejected
    BY <2>3, <2>4, LedgerIsNotRejected
  <2>8. Given(tx) \in Nat /\ Conserved(Step(before, tx).balance, m + Given(tx))
    BY ONLY <2>2, <2>4, <2>7, IsFiniteSet(Accounts), StepConserves
  <2>9. sum[up] = m + Given(tx)
    BY <2>2, <2>5, <2>6, <2>8
  <2>10. sum[up] \in Nat /\ Conserved(after[i].balance, sum[up])
    BY <2>2, <2>3, <2>8, <2>9
  <2> QED
    BY <2>10 DEF i, up
<1> HIDE DEF P
<1>12. n \in P
  BY <1>1, <1>10, <1>11, R!Induction
<1>13. sum[1 .. n] \in Nat /\ Conserved(after[n].balance, sum[1 .. n])
  BY <1>1, <1>12 DEF P
<1> QED
  BY <1>3, <1>4, <1>6, <1>13

LEMMA ConservedMeans ==
    ASSUME NEW balance, NEW minted \in Nat, Conserved(balance, minted)
    PROVE  /\ Wrap(Total(balance)) = Wrap(minted)
           /\ minted <= MaxInt => \A a \in Accounts : balance[a] >= 0
<1>1. PICK k \in Int : Total(balance) = minted + Period * k
  BY DEF Conserved
<1>2. Wrap(minted + Period * k) = Wrap(minted)
  <2>1. minted \in Int
    OBVIOUS
  <2> QED
    BY ONLY <2>1, k \in Int, WrapOfCongruent
<1>3. ASSUME minted <= MaxInt PROVE \A a \in Accounts : balance[a] >= 0
  BY <1>3 DEF Conserved
<1> QED
  BY <1>1, <1>2, <1>3

-----------------------------------------------------------------------------
(* Lists *)

IsList(s) == Len(s) \in Nat /\ s = [i \in 1 .. Len(s) |-> s[i]]

-----------------------------------------------------------------------------
(* Transactions *)

(* FlattenSeq is a loop too, which starts at the first sequence. *)
FlattenFirst(seqs) == <<>>
FlattenThen(seqs, i, before) == IF i = 1 THEN seqs[i] ELSE before \o seqs[i]

F == INSTANCE Recursion WITH First <- FlattenFirst, Then <- FlattenThen

IsFlatten(flat, seqs, n) ==
    flat = [i \in 1 .. n |-> IF i = 1 THEN seqs[i] ELSE flat[i - 1] \o seqs[i]]

LEMMA FlattenSteps ==
    ASSUME NEW seqs, NEW n \in Nat, NEW flat, IsFlatten(flat, seqs, n)
    PROVE  \A i \in 1 .. n : flat[i] = FlattenThen(seqs, i, flat[i - 1])
<1> DEFINE whole == [i \in 1 .. n |-> IF i = 1 THEN seqs[i] ELSE flat[i - 1] \o seqs[i]]
<1>1. flat = whole
  BY DEF IsFlatten
<1>2. \A i \in 1 .. n : whole[i] = FlattenThen(seqs, i, flat[i - 1])
  BY DEF FlattenThen
<1> HIDE DEF whole
<1> QED
  BY <1>1, <1>2

LEMMA FlattenResult ==
    ASSUME NEW seqs, NEW n \in Nat, Len(seqs) = n, n # 0
    PROVE  \E flat : IsFlatten(flat, seqs, n) /\ FlattenSeq(seqs) = flat[n]
<1> DEFINE chosen == CHOOSE flat : flat = [i \in 1 .. Len(seqs) |->
                         IF i = 1 THEN seqs[i] ELSE flat[i - 1] \o seqs[i]]
<1>1. \E flat : IsFlatten(flat, seqs, n)
  <2>1. PICK run : F!IsRun(seqs, run, n)
    BY F!RunExists
  <2>2. \A i \in 1 .. n : run[i] = FlattenThen(seqs, i, run[i - 1])
    BY <2>1, F!RunSteps
  <2> DEFINE flat == [i \in 1 .. n |-> run[i]]
             again == [i \in 1 .. n |-> IF i = 1 THEN seqs[i] ELSE flat[i - 1] \o seqs[i]]
  <2>3. \A i \in 1 .. n : flat[i] = again[i]
    <3> SUFFICES ASSUME NEW i \in 1 .. n PROVE flat[i] = again[i]
      OBVIOUS
    <3>1. CASE i = 1
      BY <3>1, <2>2 DEF FlattenThen
    <3>2. CASE i # 1
      <4>1. i - 1 \in 1 .. n
        BY <3>2
      <4>2. flat[i] = run[i] /\ flat[i - 1] = run[i - 1]
        BY <4>1
      <4>3. again[i] = flat[i - 1] \o seqs[i]
        BY <3>2
      <4>4. run[i] = run[i - 1] \o seqs[i]
        BY <3>2, <2>2 DEF FlattenThen
      <4> HIDE DEF flat, again
      <4> QED
        BY <4>2, <4>3, <4>4
    <3> QED
      BY <3>1, <3>2
  <2>4. flat = [i \in 1 .. n |-> flat[i]] /\ again = [i \in 1 .. n |-> again[i]]
    OBVIOUS
  <2>5. flat = again
    <3> HIDE DEF flat, again
    <3> QED
      BY <2>3, <2>4
  <2>6. IsFlatten(flat, seqs, n)
    BY <2>5 DEF IsFlatten
  <2> QED
    BY <2>6
<1>2. chosen = [i \in 1 .. Len(seqs) |->
                         IF i = 1 THEN seqs[i] ELSE chosen[i - 1] \o seqs[i]]
  BY <1>1 DEF IsFlatten
<1>3. FlattenSeq(seqs) = chosen[Len(seqs)]
  BY DEF FlattenSeq
<1> HIDE DEF chosen
<1> QED
  BY <1>2, <1>3 DEF IsFlatten

LEMMA FlattenAgrees ==
    ASSUME NEW s, NEW t, NEW m \in Nat, NEW k \in Nat, NEW f, NEW g,
           IsFlatten(f, s, m), IsFlatten(g, t, k),
           NEW n \in Nat, n # 0, n <= m, n <= k, \A i \in 1 .. n : s[i] = t[i]
    PROVE  f[n] = g[n]
<1>1. \A i \in 1 .. m : f[i] = FlattenThen(s, i, f[i - 1])
  BY ONLY FlattenSteps, m \in Nat, IsFlatten(f, s, m)
<1>2. \A i \in 1 .. k : g[i] = FlattenThen(t, i, g[i - 1])
  BY ONLY FlattenSteps, k \in Nat, IsFlatten(g, t, k)
<1> DEFINE P == {j \in Nat : j # 0 /\ j <= n => f[j] = g[j]}
<1>3. 0 \in P
  OBVIOUS
<1>4. ASSUME NEW j \in Nat, j \in P PROVE j + 1 \in P
  <2> SUFFICES ASSUME j + 1 <= n PROVE f[j + 1] = g[j + 1]
    OBVIOUS
  <2>1. j + 1 \in 1 .. m /\ j + 1 \in 1 .. k /\ j + 1 \in 1 .. n /\ (j + 1) - 1 = j
    OBVIOUS
  <2>2. f[j + 1] = FlattenThen(s, j + 1, f[j]) /\ g[j + 1] = FlattenThen(t, j + 1, g[j])
    BY <2>1, <1>1, <1>2
  <2>3. s[j + 1] = t[j + 1]
    BY <2>1
  <2>4. j # 0 => f[j] = g[j]
    BY <1>4
  <2> QED
    BY <2>2, <2>3, <2>4 DEF FlattenThen
<1> HIDE DEF P
<1>5. n \in P
  BY <1>3, <1>4, R!Induction
<1> QED
  BY <1>5 DEF P

LEMMA FlattenTyped ==
    ASSUME NEW S, NEW seqs, NEW n \in Nat, Len(seqs) = n, seqs = [i \in 1 .. n |-> seqs[i]],
           \A i \in 1 .. n : seqs[i] \in Seq(S)
    PROVE  FlattenSeq(seqs) \in Seq(S)
<1>1. CASE n = 0
  <2>1. seqs = <<>>
    BY <1>1
  <2>2. FlattenSeq(seqs) = seqs
    BY <1>1 DEF FlattenSeq
  <2> QED
    BY <2>1, <2>2, EmptySeq
<1>2. CASE n # 0
  <2>1. PICK flat : IsFlatten(flat, seqs, n) /\ FlattenSeq(seqs) = flat[n]
    BY <1>2, FlattenResult
  <2>2. \A i \in 1 .. n : flat[i] = FlattenThen(seqs, i, flat[i - 1])
    BY ONLY FlattenSteps, n \in Nat, <2>1
  <2> DEFINE P == {j \in Nat : j # 0 /\ j <= n => flat[j] \in Seq(S)}
  <2>3. 0 \in P
    OBVIOUS
  <2>4. ASSUME NEW j \in Nat, j \in P PROVE j + 1 \in P
    <3> SUFFICES ASSUME j + 1 <= n PROVE flat[j + 1] \in Seq(S)
      OBVIOUS
    <3>1. j + 1 \in 1 .. n /\ (j + 1) - 1 = j
      BY ONLY n \in Nat, j \in Nat, j + 1 <= n
    <3>2. flat[j + 1] = FlattenThen(seqs, j + 1, flat[j]) /\ seqs[j + 1] \in Seq(S)
      BY <3>1, <2>2
    <3>3. j # 0 => flat[j] \in Seq(S)
      BY <2>4
    <3>4. CASE j = 0
      BY <3>2, <3>4 DEF FlattenThen
    <3>5. CASE j # 0
      <4>1. flat[j + 1] = flat[j] \o seqs[j + 1]
        <5>1. j + 1 # 1
          BY ONLY j \in Nat, <3>5
        <5> QED
          BY ONLY <5>1, <3>2 DEF FlattenThen
      <4> QED
        BY <4>1, <3>2, <3>3, <3>5, ConcatProperties
    <3> QED
      BY <3>4, <3>5
  <2> HIDE DEF P
  <2>5. n \in P
    BY <2>3, <2>4, R!Induction
  <2> QED
    BY <2>1, <2>5, <1>2 DEF P
<1> QED
  BY <1>1, <1>2

LEMMA FlattenAppend ==
    ASSUME NEW S, NEW n \in Nat, NEW s, NEW t, Len(s) = n, Len(t) = n + 1,
           \A i \in 1 .. n : s[i] = t[i], IsList(s),
           NEW last \in Seq(S), t[n + 1] = last
    PROVE  FlattenSeq(t) = FlattenSeq(s) \o last
<1>1. n + 1 \in Nat /\ n + 1 # 0
  OBVIOUS
<1>2. PICK g : IsFlatten(g, t, n + 1) /\ FlattenSeq(t) = g[n + 1]
  BY <1>1, FlattenResult
<1>3. \A i \in 1 .. n + 1 : g[i] = FlattenThen(t, i, g[i - 1])
  BY ONLY FlattenSteps, <1>1, <1>2
<1>4. g[n + 1] = FlattenThen(t, n + 1, g[n])
  BY <1>3
<1>5. CASE n = 0
  <2>1. s = <<>>
    BY <1>5 DEF IsList
  <2>2. FlattenSeq(s) = <<>>
    BY <2>1, <1>5 DEF FlattenSeq
  <2>3. FlattenSeq(t) = t[n + 1]
    BY <1>2, <1>4, <1>5 DEF FlattenThen
  <2> QED
    BY <2>2, <2>3, ConcatEmptySeq
<1>6. CASE n # 0
  <2>1. PICK f : IsFlatten(f, s, n) /\ FlattenSeq(s) = f[n]
    BY <1>6, FlattenResult
  <2>2. f[n] = g[n]
    <3>1. n <= n /\ n <= n + 1 /\ n # 0 /\ IsFlatten(f, s, n) /\ IsFlatten(g, t, n + 1)
      BY <1>2, <1>6, <2>1
    <3>2. \A i \in 1 .. n : s[i] = t[i]
      OBVIOUS
    <3> QED
      BY ONLY <3>1, <3>2, <1>1, n \in Nat, FlattenAgrees
  <2>3. g[n + 1] = g[n] \o t[n + 1]
    <3>1. n + 1 # 1
      BY ONLY n \in Nat, <1>6
    <3> QED
      BY ONLY <3>1, <1>4 DEF FlattenThen
  <2> QED
    BY <1>2, <2>1, <2>2, <2>3
<1> QED
  BY <1>5, <1>6

-----------------------------------------------------------------------------
(* Difficulty *)

D == INSTANCE Recursion WITH First <- FirstDifficulty, Then <- DifficultyAfter

LEMMA DifficultyIsRun ==
    ASSUME NEW c, NEW h \in Nat
    PROVE  \E run : D!IsRun(c, run, h) /\ ExpectedDifficulty(c, h) = run[h]
<1> DEFINE chosen == CHOOSE run : run = [i \in 0 .. h |->
                         IF i = 0 THEN FirstDifficulty(c) ELSE DifficultyAfter(c, i, run[i - 1])]
<1>1. \E run : D!IsRun(c, run, h)
  BY D!RunExists
<1>2. chosen = [i \in 0 .. h |->
                  IF i = 0 THEN FirstDifficulty(c) ELSE DifficultyAfter(c, i, chosen[i - 1])]
  BY <1>1 DEF D!IsRun
<1>3. ExpectedDifficulty(c, h) = chosen[h]
  BY DEF ExpectedDifficulty
<1> HIDE DEF chosen
<1> QED
  BY <1>2, <1>3 DEF D!IsRun

(* What is expected of a height depends on the rules and times below it. *)
LEMMA ExpectedAgrees ==
    ASSUME NEW c, NEW d, NEW h \in Nat, FirstDifficulty(c) = FirstDifficulty(d),
           \A i \in 1 .. h : \A x : DifficultyAfter(c, i, x) = DifficultyAfter(d, i, x)
    PROVE  ExpectedDifficulty(c, h) = ExpectedDifficulty(d, h)
<1>1. PICK f : D!IsRun(c, f, h) /\ ExpectedDifficulty(c, h) = f[h]
  BY DifficultyIsRun
<1>2. PICK g : D!IsRun(d, g, h) /\ ExpectedDifficulty(d, h) = g[h]
  BY DifficultyIsRun
<1>3. h <= h
  OBVIOUS
<1>4. f[h] = g[h]
  BY <1>1, <1>2, <1>3, D!RunsAgree
<1> QED
  BY <1>1, <1>2, <1>4

LEMMA ExpectedFirst ==
    ASSUME NEW c
    PROVE  ExpectedDifficulty(c, 0) = FirstDifficulty(c)
<1>1. 0 \in Nat
  OBVIOUS
<1>2. PICK f : D!IsRun(c, f, 0) /\ ExpectedDifficulty(c, 0) = f[0]
  BY <1>1, DifficultyIsRun
<1>3. f[0] = FirstDifficulty(c)
  BY ONLY <1>1, <1>2, D!RunSteps
<1> QED
  BY <1>2, <1>3

LEMMA ExpectedAfter ==
    ASSUME NEW c, NEW h \in Nat
    PROVE  ExpectedDifficulty(c, h + 1) = DifficultyAfter(c, h + 1, ExpectedDifficulty(c, h))
<1>1. h + 1 \in Nat /\ h + 1 \in 1 .. h + 1 /\ (h + 1) - 1 = h /\ h <= h /\ h <= h + 1
  OBVIOUS
<1>2. PICK f : D!IsRun(c, f, h) /\ ExpectedDifficulty(c, h) = f[h]
  BY DifficultyIsRun
<1>3. PICK g : D!IsRun(c, g, h + 1) /\ ExpectedDifficulty(c, h + 1) = g[h + 1]
  BY ONLY <1>1, DifficultyIsRun
<1>4. f[h] = g[h]
  BY ONLY <1>1, <1>2, <1>3, h \in Nat, D!RunsAgree
<1>5. \A i \in 1 .. h + 1 : g[i] = DifficultyAfter(c, i, g[i - 1])
  BY ONLY <1>1, <1>3, D!RunSteps
<1>6. g[h + 1] = DifficultyAfter(c, h + 1, g[h])
  BY <1>1, <1>5
<1> QED
  BY <1>2, <1>3, <1>4, <1>6

(* A rule for a height is there in both schedules and the same, or in none. *)
SameRule(c, d, h) ==
    /\ h \in DOMAIN c.schedule <=> h \in DOMAIN d.schedule
    /\ h \in DOMAIN c.schedule => c.schedule[h] = d.schedule[h]

LEMMA AfterAgrees ==
    ASSUME NEW c, NEW d, NEW h \in Nat \ {0}, SameRule(c, d, h), c.retarget = d.retarget,
           c.retarget.interval \in Nat \ {0},
           Len(c.blocks) \in Nat, Len(d.blocks) \in Nat, h <= Len(c.blocks), h <= Len(d.blocks),
           \A k \in 1 .. h : c.blocks[k].time = d.blocks[k].time,
           NEW x
    PROVE  DifficultyAfter(c, h, x) = DifficultyAfter(d, h, x)
<1> DEFINE interval == c.retarget.interval
<1>1. ShouldRetarget(c, h) = ShouldRetarget(d, h)
  BY DEF ShouldRetarget
<1>2. RetargetDifficulty(c, h, x) = RetargetDifficulty(d, h, x)
  <2>1. CASE h - interval < 1
    BY <2>1 DEF RetargetDifficulty
  <2>2. CASE ~(h - interval < 1)
    <3>1. h \in 1 .. h /\ (h - interval) + 1 \in 1 .. h /\ (h - 1) + 1 = h
      BY <2>2
    <3>2. BlockAt(c, h - 1).time = BlockAt(d, h - 1).time
           /\ BlockAt(c, h - interval).time = BlockAt(d, h - interval).time
      BY <3>1 DEF BlockAt
    <3>3. ActualSeconds(c, h) = ActualSeconds(d, h)
      BY <3>2 DEF ActualSeconds
    <3> QED
      BY <2>2, <3>3 DEF RetargetDifficulty
  <2> QED
    BY <2>1, <2>2
<1> QED
  BY <1>1, <1>2 DEF DifficultyAfter, SameRule

LEMMA ExpectedSame ==
    ASSUME NEW c, NEW d, NEW h \in Nat, \A i \in 0 .. h : SameRule(c, d, i),
           c.retarget = d.retarget, c.retarget.interval \in Nat \ {0},
           Len(c.blocks) \in Nat, Len(d.blocks) \in Nat, h <= Len(c.blocks), h <= Len(d.blocks),
           \A k \in 1 .. h : c.blocks[k].time = d.blocks[k].time
    PROVE  ExpectedDifficulty(c, h) = ExpectedDifficulty(d, h)
<1>1. FirstDifficulty(c) = FirstDifficulty(d)
  <2>1. SameRule(c, d, 0)
    OBVIOUS
  <2> QED
    BY ONLY <2>1 DEF SameRule, FirstDifficulty
<1>2. ASSUME NEW i \in 1 .. h, NEW x PROVE DifficultyAfter(c, i, x) = DifficultyAfter(d, i, x)
  <2>1. i \in Nat \ {0} /\ SameRule(c, d, i) /\ i <= Len(c.blocks) /\ i <= Len(d.blocks)
         /\ \A k \in 1 .. i : c.blocks[k].time = d.blocks[k].time
    OBVIOUS
  <2> QED
    BY ONLY <2>1, AfterAgrees, c.retarget = d.retarget, c.retarget.interval \in Nat \ {0},
            Len(c.blocks) \in Nat, Len(d.blocks) \in Nat
<1> QED
  BY <1>1, <1>2, ExpectedAgrees

(* A rule keeps the difficulty in the range that MeetsDifficulty accepts. *)
LEMMA ClampedInBounds ==
    ASSUME NEW r, r.min \in Int, r.max \in Int, r.min <= r.max, NEW x \in Int
    PROVE  Clamped(r, x) \in r.min .. r.max
BY DEF Clamped

LEMMA AdjustedByOne ==
    ASSUME NEW r, NEW actual, NEW x \in Int
    PROVE  Adjusted(r, actual, x) \in {x - 1, x, x + 1}
BY DEF Adjusted

LEMMA AfterInRange ==
    ASSUME NEW c, NEW h, NEW x \in 0 .. MaxDifficulty64, ValidRetarget(c.retarget),
           h \in DOMAIN c.schedule => c.schedule[h] \in 0 .. MaxDifficulty64
    PROVE  DifficultyAfter(c, h, x) \in 0 .. MaxDifficulty64
<1> DEFINE r == c.retarget
           adjusted == Adjusted(r, ActualSeconds(c, h), x)
<1>1. r.min \in 0 .. MaxDifficulty64 /\ r.max \in 0 .. MaxDifficulty64 /\ r.min <= r.max
  BY DEF ValidRetarget
<1>2. adjusted \in Int
  BY AdjustedByOne DEF MaxDifficulty64
<1>3. Clamped(r, adjusted) \in 0 .. MaxDifficulty64
  <2> HIDE DEF adjusted, r
  <2>1. Clamped(r, adjusted) \in r.min .. r.max
    BY <1>1, <1>2, ClampedInBounds DEF MaxDifficulty64
  <2> QED
    BY <1>1, <2>1 DEF MaxDifficulty64
<1> HIDE DEF adjusted
<1>4. RetargetDifficulty(c, h, x) \in {x, Clamped(r, adjusted)}
  BY DEF RetargetDifficulty, adjusted
<1> QED
  BY <1>3, <1>4 DEF DifficultyAfter

LEMMA ExpectedInRange ==
    ASSUME NEW c, NEW h \in Nat, ValidRetarget(c.retarget),
           \A i \in DOMAIN c.schedule : c.schedule[i] \in 0 .. MaxDifficulty64
    PROVE  ExpectedDifficulty(c, h) \in 0 .. MaxDifficulty64
<1> DEFINE P == {k \in Nat : ExpectedDifficulty(c, k) \in 0 .. MaxDifficulty64}
<1>1. 0 \in P
  <2>1. FirstDifficulty(c) \in 0 .. MaxDifficulty64
    BY DEF FirstDifficulty, DefaultDifficulty, MaxDifficulty64
  <2> QED
    BY <2>1, ExpectedFirst
<1>2. ASSUME NEW k \in Nat, k \in P PROVE k + 1 \in P
  <2>1. ExpectedDifficulty(c, k) \in 0 .. MaxDifficulty64
    BY <1>2
  <2>2. DifficultyAfter(c, k + 1, ExpectedDifficulty(c, k)) \in 0 .. MaxDifficulty64
    BY <2>1, AfterInRange
  <2> QED
    BY <2>2, ExpectedAfter
<1> HIDE DEF P
<1>3. h \in P
  BY <1>1, <1>2, R!Induction
<1> QED
  BY <1>3 DEF P

-----------------------------------------------------------------------------
(* Sequences and records, as far as nothing is known of what they hold *)

IsTransaction(tx) ==
    /\ tx = [sender |-> tx.sender, recipient |-> tx.recipient, amount |-> tx.amount,
             nonce |-> tx.nonce, signature |-> tx.signature]
    /\ tx.sender \in Accounts \cup {Blank}
    /\ tx.recipient \in Accounts \cup {Blank}
    /\ tx.amount \in Int

IsBlock(b) ==
    b = [height |-> b.height, time |-> b.time, transactions |-> b.transactions,
         root |-> b.root, prev |-> b.prev, difficulty |-> b.difficulty,
         nonce |-> b.nonce, hash |-> b.hash]

IsChain(c) ==
    c = [blocks |-> c.blocks, pending |-> c.pending, schedule |-> c.schedule,
         retarget |-> c.retarget, maxTx |-> c.maxTx]

LEMMA ListIsSeq ==
    ASSUME NEW s, IsList(s)
    PROVE  s \in Seq({s[i] : i \in 1 .. Len(s)})
<1> DEFINE n == Len(s)
           S == {s[i] : i \in 1 .. n}
<1>1. n \in Nat /\ s = [i \in 1 .. n |-> s[i]]
  BY DEF IsList
<1>2. \A i \in 1 .. n : s[i] \in S
  OBVIOUS
<1> HIDE DEF n, S
<1>3. [i \in 1 .. n |-> s[i]] \in [1 .. n -> S]
  BY <1>2
<1>4. s \in [1 .. n -> S]
  BY ONLY <1>1, <1>3
<1>5. s \in Seq(S)
  BY <1>1, <1>4, SeqDef
<1> QED
  BY <1>5 DEF n, S

LEMMA SeqIsList ==
    ASSUME NEW S, NEW s \in Seq(S)
    PROVE  IsList(s) /\ DOMAIN s = 1 .. Len(s)
BY LenProperties DEF IsList

LEMMA ListAppend ==
    ASSUME NEW s, IsList(s), NEW e
    PROVE  /\ IsList(Append(s, e))
           /\ Len(Append(s, e)) = Len(s) + 1
           /\ \A i \in 1 .. Len(s) : Append(s, e)[i] = s[i]
           /\ Append(s, e)[Len(s) + 1] = e
<1> DEFINE elements == {s[i] : i \in 1 .. Len(s)}
           S == elements \cup {e}
           more == Append(s, e)
<1>1. s \in Seq(elements)
  BY ListIsSeq
<1> HIDE DEF elements
<1>2. elements \subseteq S /\ e \in S
  OBVIOUS
<1> HIDE DEF S
<1>3. s \in Seq(S)
  BY ONLY <1>1, <1>2, SeqMonotonic
<1>4. /\ more \in Seq(S)
      /\ Len(more) = Len(s) + 1
      /\ \A i \in 1 .. Len(s) : more[i] = s[i]
      /\ more[Len(s) + 1] = e
  BY <1>2, <1>3, AppendProperties
<1> HIDE DEF more
<1>5. IsList(more)
  BY ONLY <1>4, SeqIsList
<1> QED
  BY <1>4, <1>5 DEF more

LEMMA ListOf ==
    ASSUME NEW n \in Nat, NEW s, s = [i \in 1 .. n |-> s[i]]
    PROVE  Len(s) = n /\ IsList(s)
<1> DEFINE S == {s[i] : i \in 1 .. n}
<1>1. \A i \in 1 .. n : s[i] \in S
  OBVIOUS
<1> HIDE DEF S
<1>2. [i \in 1 .. n |-> s[i]] \in [1 .. n -> S]
  BY <1>1
<1>3. s \in [1 .. n -> S]
  BY ONLY <1>2, s = [i \in 1 .. n |-> s[i]]
<1>4. s \in Seq(S)
  BY ONLY <1>3, n \in Nat, SeqDef
<1>5. Len(s) = n
  BY ONLY <1>3, <1>4, n \in Nat, LenProperties
<1> QED
  BY ONLY <1>4, <1>5, SeqIsList

-----------------------------------------------------------------------------
(* The transactions of a chain *)

LEMMA TransactionsTyped ==
    ASSUME NEW S, NEW blocks, IsList(blocks),
           \A i \in 1 .. Len(blocks) : blocks[i].transactions \in Seq(S)
    PROVE  Transactions(blocks) \in Seq(S)
<1> DEFINE n == Len(blocks)
           seqs == [i \in DOMAIN blocks |-> blocks[i].transactions]
<1>1. n \in Nat /\ DOMAIN blocks = 1 .. n /\ blocks = [i \in 1 .. n |-> blocks[i]]
  BY DEF IsList
<1>2. seqs = [i \in 1 .. n |-> seqs[i]] /\ \A i \in 1 .. n : seqs[i] = blocks[i].transactions
  BY <1>1
<1>3. Transactions(blocks) = FlattenSeq(seqs)
  BY DEF Transactions
<1>4. \A i \in 1 .. n : seqs[i] \in Seq(S)
  BY <1>2
<1> HIDE DEF seqs, n
<1>5. Len(seqs) = n
  BY ONLY <1>1, <1>2, ListOf
<1>6. FlattenSeq(seqs) \in Seq(S)
  BY ONLY <1>1, <1>2, <1>4, <1>5, FlattenTyped
<1> QED
  BY <1>3, <1>6

LEMMA TransactionsAppend ==
    ASSUME NEW S, NEW blocks, IsList(blocks), NEW b, b.transactions \in Seq(S)
    PROVE  Transactions(Append(blocks, b)) = Transactions(blocks) \o b.transactions
<1> DEFINE n == Len(blocks)
           more == Append(blocks, b)
           s == [i \in DOMAIN blocks |-> blocks[i].transactions]
           t == [i \in DOMAIN more |-> more[i].transactions]
<1>1. n \in Nat /\ DOMAIN blocks = 1 .. n /\ blocks = [i \in 1 .. n |-> blocks[i]]
  BY DEF IsList
<1>2. /\ IsList(more)
      /\ Len(more) = n + 1
      /\ \A i \in 1 .. n : more[i] = blocks[i]
      /\ more[n + 1] = b
  BY ListAppend
<1>3. Transactions(blocks) = FlattenSeq(s) /\ Transactions(more) = FlattenSeq(t)
  BY DEF Transactions
<1>4. s = [i \in 1 .. n |-> s[i]] /\ \A i \in 1 .. n : s[i] = blocks[i].transactions
  BY <1>1
<1> HIDE DEF n, more
<1>5. DOMAIN more = 1 .. n + 1
  BY <1>2 DEF IsList
<1>6. t = [i \in 1 .. n + 1 |-> t[i]] /\ \A i \in 1 .. n + 1 : t[i] = more[i].transactions
  BY <1>5
<1> HIDE DEF s, t
<1>7. n + 1 \in Nat /\ n + 1 \in 1 .. n + 1 /\ \A i \in 1 .. n : i \in 1 .. n + 1
  BY <1>1
<1>8. Len(s) = n /\ Len(t) = n + 1
  BY ONLY <1>1, <1>4, <1>6, <1>7, ListOf
<1>9. t[n + 1] = b.transactions /\ \A i \in 1 .. n : s[i] = t[i]
  BY ONLY <1>2, <1>4, <1>6, <1>7
<1>10. FlattenSeq(t) = FlattenSeq(s) \o b.transactions
  <2>1. n \in Nat /\ Len(s) = n /\ Len(t) = n + 1
    BY ONLY <1>1, <1>8
  <2>2. IsList(s)
    BY ONLY <1>1, <1>4, ListOf
  <2>3. \A i \in 1 .. n : s[i] = t[i]
    BY ONLY <1>9
  <2>4. t[n + 1] = b.transactions
    BY ONLY <1>9
  <2> DEFINE last == b.transactions
  <2>5. t[n + 1] = last /\ last \in Seq(S)
    BY <2>4
  <2> HIDE DEF last
  <2>6. FlattenSeq(t) = FlattenSeq(s) \o last
    BY ONLY <2>1, <2>2, <2>3, <2>5, FlattenAppend, Zenon
  <2> QED
    BY <2>6 DEF last
<1> QED
  BY <1>3, <1>10 DEF more

(* A chain whose blocks and pool hold transactions of S. *)
Holds(S, c) ==
    /\ IsChain(c)
    /\ IsList(c.blocks)
    /\ \A i \in 1 .. Len(c.blocks) : c.blocks[i].transactions \in Seq(S)
    /\ c.pending \in Seq(S)

LEMMA PendingIsReplayed ==
    ASSUME NEW S, NEW c, Holds(S, c)
    PROVE  PendingLedger(c) = Replay(Rebuild(c.blocks), c.pending)
<1>1. Transactions(c.blocks) \in Seq(S) /\ c.pending \in Seq(S)
  BY TransactionsTyped DEF Holds
<1> QED
  BY <1>1, ReplayConcat DEF PendingLedger, Rebuild

LEMMA BlocksAreReplayed ==
    ASSUME NEW S, NEW c, Holds(S, c), PendingLedger(c) # Rejected
    PROVE  Rebuild(c.blocks) # Rejected
<1>1. c.pending \in Seq(S)
  BY DEF Holds
<1> QED
  BY <1>1, PendingIsReplayed, RejectedStays

(* Mining moves transactions from the pool to the chain and leaves the rest. *)
LEMMA MinedLedger ==
    ASSUME NEW S, NEW c, Holds(S, c), c.maxTx \in Nat, NEW time, NEW nonce
    PROVE  /\ Holds(S, Mined(c, time, nonce))
           /\ Transactions(Mined(c, time, nonce).blocks) \o Mined(c, time, nonce).pending
                = Transactions(c.blocks) \o c.pending
           /\ PendingLedger(Mined(c, time, nonce)) = PendingLedger(c)
           /\ Batch(c) \in Seq(S) /\ Len(Batch(c)) <= c.maxTx
<1> DEFINE b == NewBlock(c, time, nonce)
           d == Mined(c, time, nonce)
           k == IF Len(c.pending) > c.maxTx THEN c.maxTx ELSE Len(c.pending)
           n == Len(c.pending)
           p == c.pending
           batch == SubSeq(p, 1, k)
           rest == SubSeq(p, k + 1, n)
<1>1. p \in Seq(S) /\ n \in Nat /\ k \in 0 .. n /\ k <= c.maxTx
  BY DEF Holds
<1>2. Batch(c) = batch
  BY DEF Batch
<1>3. \A i \in 1 .. n : p[i] \in S
  BY <1>1, ElementOfSeq
<1>4. batch \in Seq(S) /\ Len(batch) = k
  <2> HIDE DEF k, n, p
  <2>1. 1 \in Int /\ k \in Int /\ \A i \in 1 .. k : p[i] \in S
    BY <1>1, <1>3
  <2>2. /\ SubSeq(p, 1, k) \in Seq(S)
        /\ Len(SubSeq(p, 1, k)) = IF 1 <= k THEN k - 1 + 1 ELSE 0
    BY <2>1, SubSeqProperties
  <2> QED
    BY <2>2, <1>1
<1>5. rest \in Seq(S)
  <2> HIDE DEF k, n, p
  <2>1. k + 1 \in Int /\ n \in Int /\ \A i \in k + 1 .. n : p[i] \in S
    BY <1>1, <1>3
  <2> QED
    BY <2>1, SubSeqProperties
<1>6. batch \o rest = p
  <2> HIDE DEF k, n, p
  <2>1. 1 \in 1 .. n + 1 /\ k \in 1 - 1 .. n /\ n \in k .. n /\ 1 - 1 = 0
    BY <1>1
  <2>2. n = Len(p)
    BY DEF n, p
  <2>3. SubSeq(p, 1, k) \o SubSeq(p, k + 1, n) = SubSeq(p, 1, n)
    BY <2>1, <2>2, <1>1, ConcatAdjacentSubSeq
  <2> QED
    BY <2>2, <2>3, <1>1, SubSeqFull
<1> HIDE DEF k, n, p, batch, rest
<1>7. b.transactions = batch
  BY <1>2 DEF NewBlock, Sealed
<1>8. d.blocks = Append(c.blocks, b) /\ d.pending = rest /\ IsChain(d)
  <2>1. rest = SubSeq(c.pending, Len(Batch(c)) + 1, Len(c.pending))
    BY <1>2, <1>4 DEF rest, n, p
  <2> HIDE DEF b
  <2>2. d = [c EXCEPT !.blocks = Append(@, b), !.pending = rest]
    BY <2>1 DEF Mined, b
  <2>3. c = [blocks |-> c.blocks, pending |-> c.pending, schedule |-> c.schedule,
             retarget |-> c.retarget, maxTx |-> c.maxTx]
    BY DEF Holds, IsChain
  <2>4. d = [blocks |-> Append(c.blocks, b), pending |-> rest, schedule |-> c.schedule,
             retarget |-> c.retarget, maxTx |-> c.maxTx]
    BY ONLY <2>2, <2>3
  <2> HIDE DEF d
  <2> QED
    BY ONLY <2>4 DEF IsChain
<1> HIDE DEF b, d
<1>9. Holds(S, d)
  <2>1. IsList(c.blocks) /\ \A i \in 1 .. Len(c.blocks) : c.blocks[i].transactions \in Seq(S)
    BY DEF Holds
  <2>2. /\ IsList(d.blocks)
        /\ Len(d.blocks) = Len(c.blocks) + 1
        /\ \A i \in 1 .. Len(c.blocks) : d.blocks[i] = c.blocks[i]
        /\ d.blocks[Len(c.blocks) + 1] = b
    BY ONLY <1>8, <2>1, ListAppend
  <2>3. ASSUME NEW i \in 1 .. Len(d.blocks) PROVE d.blocks[i].transactions \in Seq(S)
    <3>1. i \in 1 .. Len(c.blocks) \/ i = Len(c.blocks) + 1
      BY <2>1, <2>2 DEF IsList
    <3> QED
      BY <3>1, <2>1, <2>2, <1>4, <1>7
  <2> QED
    BY <1>5, <1>8, <2>2, <2>3 DEF Holds
<1>10. Transactions(d.blocks) \o d.pending = Transactions(c.blocks) \o c.pending
  <2> DEFINE T == Transactions(c.blocks)
  <2>1. T \in Seq(S) /\ IsList(c.blocks)
    BY TransactionsTyped DEF Holds
  <2>2. Transactions(d.blocks) = T \o batch
    <3>1. b.transactions \in Seq(S)
      BY <1>4, <1>7
    <3>2. Transactions(Append(c.blocks, b)) = T \o b.transactions
      BY ONLY <3>1, <2>1, TransactionsAppend
    <3> QED
      BY ONLY <3>2, <1>7, <1>8
  <2> HIDE DEF T
  <2>3. (T \o batch) \o rest = T \o (batch \o rest)
    BY <2>1, <1>4, <1>5, ConcatAssociative
  <2> QED
    BY <2>2, <2>3, <1>6, <1>8 DEF T, p
<1>11. PendingLedger(d) = PendingLedger(c)
  BY <1>10 DEF PendingLedger
<1> QED
  BY <1>1, <1>2, <1>4, <1>9, <1>10, <1>11 DEF d

-----------------------------------------------------------------------------
(* The pending pool *)

(* The chain c with another pool. *)
WithPool(c, pool) == [c EXCEPT !.pending = pool]

LEMMA WithPoolFields ==
    ASSUME NEW S, NEW c, Holds(S, c), NEW pool \in Seq(S)
    PROVE  /\ Holds(S, WithPool(c, pool))
           /\ WithPool(c, pool) = [blocks |-> c.blocks, pending |-> pool, schedule |-> c.schedule,
                                   retarget |-> c.retarget, maxTx |-> c.maxTx]
<1>1. c = [blocks |-> c.blocks, pending |-> c.pending, schedule |-> c.schedule,
           retarget |-> c.retarget, maxTx |-> c.maxTx]
  BY DEF Holds, IsChain
<1> DEFINE d == WithPool(c, pool)
<1>2. d = [blocks |-> c.blocks, pending |-> pool, schedule |-> c.schedule,
           retarget |-> c.retarget, maxTx |-> c.maxTx]
  BY ONLY <1>1 DEF WithPool
<1> HIDE DEF d
<1>3. d.blocks = c.blocks /\ d.pending = pool /\ IsChain(d)
  BY ONLY <1>2 DEF IsChain
<1>4. Holds(S, d)
  BY <1>3 DEF Holds
<1> QED
  BY <1>2, <1>4 DEF d

(* A transaction that is accepted leaves a pool that replays. *)
LEMMA PoolGrows ==
    ASSUME NEW S, \A tx \in S : IsTransaction(tx), NEW c, Holds(S, c),
           NEW tx \in S, CanAdd(c, tx)
    PROVE  /\ PendingLedger(WithPool(c, Append(c.pending, tx))) # Rejected
           /\ Holds(S, WithPool(c, Append(c.pending, tx)))
<1> DEFINE T == Transactions(c.blocks)
           p == c.pending
           more == Append(p, tx)
           all == T \o p
<1>1. T \in Seq(S) /\ p \in Seq(S)
  BY TransactionsTyped DEF Holds
<1> HIDE DEF T, p
<1>2. more \in Seq(S) /\ all \in Seq(S)
  BY <1>1, AppendProperties, ConcatProperties
<1>3. T \o more = Append(all, tx)
  <2>1. more = p \o <<tx>>
    BY <1>1, AppendIsConcat
  <2>2. <<tx>> \in Seq(S)
    OBVIOUS
  <2>3. Append(all, tx) = all \o <<tx>>
    BY <1>2, AppendIsConcat
  <2>4. (T \o p) \o <<tx>> = T \o (p \o <<tx>>)
    BY ONLY <1>1, <2>2, ConcatAssociative
  <2> HIDE DEF more
  <2> QED
    BY <2>1, <2>3, <2>4 DEF all
<1>4. PendingLedger(c) = Replay(NewLedger, all)
  BY DEF PendingLedger, T, p
<1>5. Replay(NewLedger, all) # Rejected /\ CanApply(Replay(NewLedger, all), tx)
  BY <1>4 DEF CanAdd
<1>6. \A i \in DOMAIN all : IsSent(all[i])
  <2> HIDE DEF all
  <2> SUFFICES ASSUME NEW i \in DOMAIN all PROVE IsSent(all[i])
    OBVIOUS
  <2>1. i \in 1 .. Len(all)
    BY <1>2, LenProperties
  <2>2. all[i] \in S
    BY <2>1, <1>2, ElementOfSeq
  <2>3. IsTransaction(all[i])
    BY <2>2
  <2> QED
    BY <2>3 DEF IsSent, IsTransaction
<1> HIDE DEF all, more
<1>7. Replay(NewLedger, Append(all, tx)) # Rejected
  BY ONLY <1>2, <1>5, <1>6, ReplayedMore
<1>8. /\ Holds(S, WithPool(c, more))
      /\ WithPool(c, more).blocks = c.blocks
      /\ WithPool(c, more).pending = more
  BY <1>2, WithPoolFields
<1>9. PendingLedger(WithPool(c, more)) = Replay(NewLedger, T \o more)
  BY <1>8 DEF PendingLedger, T
<1> QED
  BY <1>3, <1>7, <1>8, <1>9 DEF more, p

-----------------------------------------------------------------------------
(* Saving and loading *)

LEMMA NameReadTwice == \A name : NameRead(NameRead(name)) = NameRead(name)
BY ReadBackAssumption DEF NameRead

LEMMA NameReadIsName ==
    ASSUME NEW name \in Accounts \cup {Blank}
    PROVE  NameRead(name) \in Accounts \cup {Blank}
BY ReadBackAssumption DEF NameRead

LEMMA TransactionReadFields ==
    ASSUME NEW tx, IsTransaction(tx)
    PROVE  /\ TransactionRead(tx) =
                [sender |-> NameRead(tx.sender), recipient |-> NameRead(tx.recipient),
                 amount |-> tx.amount, nonce |-> tx.nonce, signature |-> tx.signature]
           /\ IsTransaction(TransactionRead(tx))
<1> DEFINE d == TransactionRead(tx)
<1>1. tx = [sender |-> tx.sender, recipient |-> tx.recipient, amount |-> tx.amount,
            nonce |-> tx.nonce, signature |-> tx.signature]
  BY DEF IsTransaction
<1>2. d = [sender |-> NameRead(tx.sender), recipient |-> NameRead(tx.recipient),
           amount |-> tx.amount, nonce |-> tx.nonce, signature |-> tx.signature]
  <2> DEFINE sender == NameRead(tx.sender)
             recipient == NameRead(tx.recipient)
  <2>1. d = [tx EXCEPT !.sender = sender, !.recipient = recipient]
    BY <1>1 DEF TransactionRead
  <2> HIDE DEF sender, recipient, d
  <2>2. d = [sender |-> sender, recipient |-> recipient, amount |-> tx.amount,
             nonce |-> tx.nonce, signature |-> tx.signature]
    BY ONLY <1>1, <2>1
  <2> QED
    BY <2>1, <2>2 DEF sender, recipient
<1> HIDE DEF d
<1>3. /\ tx.sender \in Accounts \cup {Blank} /\ tx.recipient \in Accounts \cup {Blank}
      /\ tx.amount \in Int
  BY DEF IsTransaction
<1>4. IsTransaction(d)
  BY ONLY <1>2, <1>3, NameReadIsName DEF IsTransaction
<1> QED
  BY <1>2, <1>4 DEF d

LEMMA TransactionReadTwice ==
    ASSUME NEW tx, IsTransaction(tx)
    PROVE  TransactionRead(TransactionRead(tx)) = TransactionRead(tx)
<1> DEFINE d == TransactionRead(tx)
<1>1. /\ d = [sender |-> NameRead(tx.sender), recipient |-> NameRead(tx.recipient),
              amount |-> tx.amount, nonce |-> tx.nonce, signature |-> tx.signature]
      /\ IsTransaction(d)
  BY TransactionReadFields
<1> HIDE DEF d
<1>2. TransactionRead(d) =
        [sender |-> NameRead(d.sender), recipient |-> NameRead(d.recipient),
         amount |-> d.amount, nonce |-> d.nonce, signature |-> d.signature]
  BY <1>1, TransactionReadFields
<1>3. TransactionRead(d) = d
  BY <1>1, <1>2, NameReadTwice
<1> QED
  BY <1>3 DEF d

(* What is read of a list of transactions. *)
Read(txs) == [i \in DOMAIN txs |-> TransactionRead(txs[i])]

LEMMA ReadTyped ==
    ASSUME NEW S, \A tx \in S : IsTransaction(tx) /\ TransactionRead(tx) \in S,
           NEW txs \in Seq(S)
    PROVE  Read(txs) \in Seq(S) /\ Len(Read(txs)) = Len(txs) /\ Read(Read(txs)) = Read(txs)
<1> DEFINE n == Len(txs)
           once == Read(txs)
           twice == Read(once)
<1>1. n \in Nat /\ DOMAIN txs = 1 .. n /\ \A i \in 1 .. n : txs[i] \in S
  BY LenProperties, ElementOfSeq
<1> HIDE DEF n
<1>2. once = [i \in 1 .. n |-> once[i]] /\ \A i \in 1 .. n : once[i] = TransactionRead(txs[i])
  BY <1>1 DEF Read
<1>3. once \in [1 .. n -> S]
  BY <1>1 DEF Read
<1> HIDE DEF once
<1>4. once \in Seq(S)
  BY <1>1, <1>3, SeqDef
<1>5. Len(once) = n /\ DOMAIN once = 1 .. n
  BY <1>1, <1>3, <1>4, LenProperties
<1>6. twice = [i \in 1 .. n |-> twice[i]] /\ \A i \in 1 .. n : twice[i] = TransactionRead(once[i])
  BY <1>5 DEF Read
<1> HIDE DEF twice
<1>7. \A i \in 1 .. n : twice[i] = once[i]
  BY <1>1, <1>2, <1>6, TransactionReadTwice
<1>8. twice = once
  BY ONLY <1>2, <1>6, <1>7
<1> QED
  BY <1>4, <1>5, <1>8 DEF n, once, twice

LEMMA BlockReadFields ==
    ASSUME NEW b, IsBlock(b)
    PROVE  BlockRead(b) =
             [height |-> b.height, time |-> b.time, transactions |-> Read(b.transactions),
              root |-> b.root, prev |-> b.prev, difficulty |-> b.difficulty,
              nonce |-> b.nonce, hash |-> b.hash]
<1> DEFINE txs == Read(b.transactions)
<1>1. BlockRead(b) = [b EXCEPT !.transactions = txs]
  BY DEF BlockRead, Read
<1>2. b = [height |-> b.height, time |-> b.time, transactions |-> b.transactions,
           root |-> b.root, prev |-> b.prev, difficulty |-> b.difficulty,
           nonce |-> b.nonce, hash |-> b.hash]
  BY DEF IsBlock
<1> HIDE DEF txs
<1>3. [b EXCEPT !.transactions = txs] =
             [height |-> b.height, time |-> b.time, transactions |-> txs,
              root |-> b.root, prev |-> b.prev, difficulty |-> b.difficulty,
              nonce |-> b.nonce, hash |-> b.hash]
  BY ONLY <1>2
<1> QED
  BY <1>1, <1>3 DEF txs

(* Transactions that stay among these when they are saved and loaded. *)
IsClosed(S) == \A tx \in S : IsTransaction(tx) /\ TransactionRead(tx) \in S

LEMMA BlockReadTwice ==
    ASSUME NEW S, IsClosed(S), NEW b, IsBlock(b), b.transactions \in Seq(S)
    PROVE  /\ IsBlock(BlockRead(b))
           /\ BlockRead(b).transactions \in Seq(S)
           /\ Len(BlockRead(b).transactions) = Len(b.transactions)
           /\ BlockRead(BlockRead(b)) = BlockRead(b)
<1> DEFINE txs == Read(b.transactions)
           d == BlockRead(b)
<1>1. txs \in Seq(S) /\ Len(txs) = Len(b.transactions) /\ Read(txs) = txs
  BY ReadTyped DEF IsClosed
<1> HIDE DEF txs
<1>2. d = [height |-> b.height, time |-> b.time, transactions |-> txs,
           root |-> b.root, prev |-> b.prev, difficulty |-> b.difficulty,
           nonce |-> b.nonce, hash |-> b.hash]
  BY BlockReadFields DEF txs
<1> HIDE DEF d
<1>3. IsBlock(d) /\ d.transactions = txs
  BY ONLY <1>2 DEF IsBlock
<1>4. BlockRead(d) =
             [height |-> d.height, time |-> d.time, transactions |-> Read(d.transactions),
              root |-> d.root, prev |-> d.prev, difficulty |-> d.difficulty,
              nonce |-> d.nonce, hash |-> d.hash]
  BY ONLY <1>3, BlockReadFields
<1>5. BlockRead(d) = d
  BY ONLY <1>1, <1>2, <1>3, <1>4
<1> QED
  BY <1>1, <1>3, <1>5 DEF d

LEMMA RoundTripFields ==
    ASSUME NEW S, IsClosed(S), NEW c, Holds(S, c), \A i \in 1 .. Len(c.blocks) : IsBlock(c.blocks[i])
    PROVE  /\ Holds(S, RoundTrip(c))
           /\ Len(RoundTrip(c).blocks) = Len(c.blocks)
           /\ \A i \in 1 .. Len(c.blocks) : RoundTrip(c).blocks[i] = BlockRead(c.blocks[i])
           /\ RoundTrip(c).pending = Read(c.pending)
           /\ RoundTrip(c).schedule = c.schedule
           /\ RoundTrip(c).retarget = c.retarget
           /\ RoundTrip(c).maxTx = c.maxTx
<1> DEFINE n == Len(c.blocks)
           blocks == [i \in DOMAIN c.blocks |-> BlockRead(c.blocks[i])]
           pool == Read(c.pending)
           d == RoundTrip(c)
<1>1. n \in Nat /\ DOMAIN c.blocks = 1 .. n /\ c.blocks = [i \in 1 .. n |-> c.blocks[i]]
  BY DEF Holds, IsList
<1>2. blocks = [i \in 1 .. n |-> blocks[i]] /\ \A i \in 1 .. n : blocks[i] = BlockRead(c.blocks[i])
  BY <1>1
<1>3. d = [c EXCEPT !.blocks = blocks, !.pending = pool]
  BY DEF RoundTrip, Read
<1>4. pool \in Seq(S)
  BY ReadTyped DEF Holds, IsClosed
<1> HIDE DEF blocks, pool, d, n
<1>5. c = [blocks |-> c.blocks, pending |-> c.pending, schedule |-> c.schedule,
           retarget |-> c.retarget, maxTx |-> c.maxTx]
  BY DEF Holds, IsChain
<1>6. d = [blocks |-> blocks, pending |-> pool, schedule |-> c.schedule,
           retarget |-> c.retarget, maxTx |-> c.maxTx]
  BY ONLY <1>3, <1>5
<1>7. Len(blocks) = n /\ IsList(blocks)
  BY ONLY <1>1, <1>2, ListOf
<1>8. \A i \in 1 .. n : blocks[i].transactions \in Seq(S)
  <2> SUFFICES ASSUME NEW i \in 1 .. n PROVE blocks[i].transactions \in Seq(S)
    OBVIOUS
  <2>1. IsBlock(c.blocks[i]) /\ c.blocks[i].transactions \in Seq(S)
    BY DEF Holds, n
  <2>2. BlockRead(c.blocks[i]).transactions \in Seq(S)
    BY <2>1, BlockReadTwice
  <2> QED
    BY <1>2, <2>2
<1>9. d.blocks = blocks /\ d.pending = pool /\ IsChain(d) /\ d.schedule = c.schedule
       /\ d.retarget = c.retarget /\ d.maxTx = c.maxTx
  BY ONLY <1>6 DEF IsChain
<1>10. Holds(S, d)
  BY ONLY <1>4, <1>7, <1>8, <1>9 DEF Holds
<1> QED
  BY <1>2, <1>7, <1>9, <1>10 DEF d, n, pool

(* A chain that was loaded stays the same when it is saved and loaded again. *)
LEMMA RoundTripTwice ==
    ASSUME NEW S, IsClosed(S), NEW c, Holds(S, c), \A i \in 1 .. Len(c.blocks) : IsBlock(c.blocks[i])
    PROVE  RoundTrip(RoundTrip(c)).blocks = RoundTrip(c).blocks
<1> DEFINE n == Len(c.blocks)
           d == RoundTrip(c)
           e == RoundTrip(d)
<1>1. /\ Holds(S, d)
      /\ Len(d.blocks) = n
      /\ \A i \in 1 .. n : d.blocks[i] = BlockRead(c.blocks[i])
  BY RoundTripFields
<1> HIDE DEF d
<1>2. ASSUME NEW i \in 1 .. n
      PROVE  IsBlock(d.blocks[i]) /\ BlockRead(d.blocks[i]) = d.blocks[i]
  <2>1. IsBlock(c.blocks[i]) /\ c.blocks[i].transactions \in Seq(S)
    BY DEF Holds
  <2>2. IsBlock(BlockRead(c.blocks[i])) /\ BlockRead(BlockRead(c.blocks[i])) = BlockRead(c.blocks[i])
    BY <2>1, BlockReadTwice
  <2> QED
    BY <1>1, <2>2
<1>3. /\ Holds(S, e)
      /\ Len(e.blocks) = n
      /\ \A i \in 1 .. n : e.blocks[i] = BlockRead(d.blocks[i])
  BY <1>1, <1>2, RoundTripFields
<1> HIDE DEF e, n
<1>4. d.blocks = [i \in 1 .. n |-> d.blocks[i]] /\ e.blocks = [i \in 1 .. n |-> e.blocks[i]]
  BY <1>1, <1>3 DEF Holds, IsList
<1>5. \A i \in 1 .. n : e.blocks[i] = d.blocks[i]
  BY <1>2, <1>3
<1>6. e.blocks = d.blocks
  BY ONLY <1>4, <1>5
<1> QED
  BY <1>6 DEF d, e

(* A chain whose names are all UTF-8 is read as it was written. *)
ReadableTransaction(tx) == tx.sender \notin Unreadable /\ tx.recipient \notin Unreadable

ReadableChain(c) ==
    /\ \A i \in 1 .. Len(c.blocks) :
          \A j \in DOMAIN c.blocks[i].transactions : ReadableTransaction(c.blocks[i].transactions[j])
    /\ \A j \in DOMAIN c.pending : ReadableTransaction(c.pending[j])

LEMMA ReadableAreRead ==
    ASSUME NEW S, IsClosed(S), NEW txs \in Seq(S), \A j \in DOMAIN txs : ReadableTransaction(txs[j])
    PROVE  Read(txs) = txs
<1>1. ASSUME NEW tx, IsTransaction(tx), ReadableTransaction(tx) PROVE TransactionRead(tx) = tx
  <2>1. NameRead(tx.sender) = tx.sender /\ NameRead(tx.recipient) = tx.recipient
    BY <1>1 DEF ReadableTransaction, NameRead
  <2>2. TransactionRead(tx) =
                [sender |-> NameRead(tx.sender), recipient |-> NameRead(tx.recipient),
                 amount |-> tx.amount, nonce |-> tx.nonce, signature |-> tx.signature]
    BY <1>1, TransactionReadFields
  <2> QED
    BY <1>1, <2>1, <2>2 DEF IsTransaction
<1>2. ASSUME NEW j \in DOMAIN txs PROVE TransactionRead(txs[j]) = txs[j]
  <2> DEFINE tx == txs[j]
  <2>1. tx \in S /\ ReadableTransaction(tx)
    OBVIOUS
  <2> HIDE DEF tx
  <2>2. IsTransaction(tx)
    BY <2>1 DEF IsClosed
  <2>3. TransactionRead(tx) = tx
    BY ONLY <1>1, <2>1, <2>2
  <2> QED
    BY <2>3 DEF tx
<1>3. txs = [j \in DOMAIN txs |-> txs[j]]
  OBVIOUS
<1> QED
  BY ONLY <1>2, <1>3 DEF Read

LEMMA RoundTripOfReadable ==
    ASSUME NEW S, IsClosed(S), NEW c, Holds(S, c), \A i \in 1 .. Len(c.blocks) : IsBlock(c.blocks[i]),
           ReadableChain(c)
    PROVE  RoundTrip(c) = c
<1> DEFINE n == Len(c.blocks)
           d == RoundTrip(c)
<1>1. /\ Holds(S, d)
      /\ Len(d.blocks) = n
      /\ \A i \in 1 .. n : d.blocks[i] = BlockRead(c.blocks[i])
      /\ d.pending = Read(c.pending)
      /\ d.schedule = c.schedule
      /\ d.retarget = c.retarget
      /\ d.maxTx = c.maxTx
  BY RoundTripFields
<1> HIDE DEF d
<1>2. d.pending = c.pending
  <2>1. Read(c.pending) = c.pending
    BY ReadableAreRead DEF ReadableChain, Holds
  <2> QED
    BY <1>1, <2>1
<1>3. ASSUME NEW i \in 1 .. n PROVE d.blocks[i] = c.blocks[i]
  <2> DEFINE b == c.blocks[i]
             txs == b.transactions
  <2>1. IsBlock(b) /\ txs \in Seq(S) /\ \A j \in DOMAIN txs : ReadableTransaction(txs[j])
    BY DEF Holds, ReadableChain
  <2>2. Read(txs) = txs
    <3> HIDE DEF txs
    <3> QED
      BY ONLY <2>1, IsClosed(S), ReadableAreRead
  <2> HIDE DEF b
  <2>3. BlockRead(b) =
             [height |-> b.height, time |-> b.time, transactions |-> Read(b.transactions),
              root |-> b.root, prev |-> b.prev, difficulty |-> b.difficulty,
              nonce |-> b.nonce, hash |-> b.hash]
    BY ONLY <2>1, BlockReadFields
  <2>4. BlockRead(b) = b
    BY ONLY <2>1, <2>2, <2>3 DEF IsBlock
  <2> QED
    BY <1>1, <2>4 DEF b
<1> HIDE DEF n
<1>4. d.blocks = c.blocks
  <2>1. d.blocks = [i \in 1 .. n |-> d.blocks[i]] /\ c.blocks = [i \in 1 .. n |-> c.blocks[i]]
    BY <1>1 DEF Holds, IsList, n
  <2> QED
    BY ONLY <1>3, <2>1
<1>5. /\ c = [blocks |-> c.blocks, pending |-> c.pending, schedule |-> c.schedule,
              retarget |-> c.retarget, maxTx |-> c.maxTx]
      /\ d = [blocks |-> d.blocks, pending |-> d.pending, schedule |-> d.schedule,
              retarget |-> d.retarget, maxTx |-> d.maxTx]
  BY <1>1 DEF Holds, IsChain
<1>6. d = c
  BY ONLY <1>1, <1>2, <1>4, <1>5
<1> QED
  BY <1>6 DEF d

-----------------------------------------------------------------------------
(* The pool after an adoption *)

Offers(c, txs) == [chain |-> c, txs |-> txs]
OffersFirst(offers) == <<>>
OffersThen(offers, i, pool) == OfferedOnce(offers.chain, offers.txs, i, pool)

P == INSTANCE Recursion WITH First <- OffersFirst, Then <- OffersThen

LEMMA RevalidatedIsRun ==
    ASSUME NEW c, NEW txs, NEW n \in Nat, Len(txs) = n
    PROVE  \E run : P!IsRun(Offers(c, txs), run, n) /\ Revalidated(c, txs) = run[n]
<1> DEFINE chosen == CHOOSE run : run = [i \in 0 .. Len(txs) |->
                         IF i = 0 THEN <<>> ELSE OfferedOnce(c, txs, i, run[i - 1])]
<1>1. \E run : run = [i \in 0 .. Len(txs) |->
                         IF i = 0 THEN <<>> ELSE OfferedOnce(c, txs, i, run[i - 1])]
  <2>1. \E run : P!IsRun(Offers(c, txs), run, n)
    BY P!RunExists
  <2> QED
    BY <2>1 DEF P!IsRun, Offers, OffersFirst, OffersThen
<1>2. chosen = [i \in 0 .. Len(txs) |->
                         IF i = 0 THEN <<>> ELSE OfferedOnce(c, txs, i, chosen[i - 1])]
  BY <1>1
<1>3. Revalidated(c, txs) = chosen[Len(txs)]
  BY DEF Revalidated
<1> HIDE DEF chosen
<1>4. P!IsRun(Offers(c, txs), chosen, n)
  BY <1>2 DEF P!IsRun, Offers, OffersFirst, OffersThen
<1> QED
  BY <1>3, <1>4

(* The pool of an adopted chain replays. *)
LEMMA RevalidatedReplays ==
    ASSUME NEW S, IsClosed(S), NEW c, Holds(S, c), Rebuild(c.blocks) # Rejected, NEW txs \in Seq(S)
    PROVE  /\ Revalidated(c, txs) \in Seq(S)
           /\ PendingLedger(WithPool(c, Revalidated(c, txs))) # Rejected
<1> DEFINE n == Len(txs)
           offers == Offers(c, txs)
           Good(pool) == pool \in Seq(S) /\ PendingLedger(WithPool(c, pool)) # Rejected
<1>1. n \in Nat /\ \A i \in 1 .. n : txs[i] \in S
  BY LenProperties, ElementOfSeq
<1>2. PICK run : P!IsRun(offers, run, n) /\ Revalidated(c, txs) = run[n]
  BY <1>1, RevalidatedIsRun
<1> HIDE DEF n, offers
<1>3. run[0] = OffersFirst(offers) /\ \A i \in 1 .. n : run[i] = OffersThen(offers, i, run[i - 1])
  BY ONLY <1>1, <1>2, P!RunSteps
<1>4. run[0] = <<>> /\ \A i \in 1 .. n : run[i] = OfferedOnce(c, txs, i, run[i - 1])
  BY <1>3 DEF offers, Offers, OffersFirst, OffersThen
<1>5. Good(<<>>)
  <2>1. <<>> \in Seq(S)
    BY EmptySeq
  <2>2. WithPool(c, <<>>).blocks = c.blocks /\ WithPool(c, <<>>).pending = <<>>
    <3> DEFINE none == <<>>
    <3>1. none \in Seq(S)
      BY <2>1
    <3> HIDE DEF none
    <3>2. WithPool(c, none) = [blocks |-> c.blocks, pending |-> none, schedule |-> c.schedule,
                               retarget |-> c.retarget, maxTx |-> c.maxTx]
      BY <3>1, WithPoolFields
    <3>3. WithPool(c, none).blocks = c.blocks /\ WithPool(c, none).pending = none
      BY ONLY <3>2
    <3> QED
      BY <3>3 DEF none
  <2>3. Transactions(c.blocks) \o <<>> = Transactions(c.blocks)
    BY TransactionsTyped, ConcatEmptySeq DEF Holds
  <2>4. PendingLedger(WithPool(c, <<>>)) = Rebuild(c.blocks)
    BY <2>2, <2>3 DEF PendingLedger, Rebuild
  <2> QED
    BY <2>1, <2>4
<1>6. ASSUME NEW pool, Good(pool), NEW tx \in S PROVE Good(Offered(c, pool, tx))
  <2> DEFINE d == WithPool(c, pool)
             more == Append(pool, tx)
  <2>1. CASE ~CanAdd(d, tx)
    <3>1. Offered(c, pool, tx) = pool
      BY <2>1 DEF Offered, WithPool
    <3> QED
      BY <3>1, <1>6
  <2>2. CASE CanAdd(d, tx)
    <3>1. Offered(c, pool, tx) = more
      BY <2>2 DEF Offered, WithPool
    <3>2. pool \in Seq(S)
      BY <1>6
    <3>3. /\ d = [blocks |-> c.blocks, pending |-> pool, schedule |-> c.schedule,
                  retarget |-> c.retarget, maxTx |-> c.maxTx]
          /\ Holds(S, d)
      BY <3>2, WithPoolFields
    <3>4. more \in Seq(S)
      BY <3>2, AppendProperties
    <3> HIDE DEF d, more
    <3>5. d.pending = pool
      BY ONLY <3>3
    <3>6. PendingLedger(WithPool(d, Append(d.pending, tx))) # Rejected
      BY <2>2, <3>3, PoolGrows DEF IsClosed
    <3>7. WithPool(d, more) = WithPool(c, more)
      <4>1. WithPool(d, more) = [blocks |-> d.blocks, pending |-> more, schedule |-> d.schedule,
                                 retarget |-> d.retarget, maxTx |-> d.maxTx]
        BY <3>3, <3>4, WithPoolFields
      <4>2. WithPool(c, more) = [blocks |-> c.blocks, pending |-> more, schedule |-> c.schedule,
                                 retarget |-> c.retarget, maxTx |-> c.maxTx]
        BY <3>4, WithPoolFields
      <4> QED
        BY <4>1, <4>2, <3>3
    <3>8. PendingLedger(WithPool(c, more)) # Rejected
      BY <3>5, <3>6, <3>7 DEF more
    <3> QED
      BY <3>1, <3>4, <3>8
  <2> QED
    BY <2>1, <2>2
<1> HIDE DEF Good
<1> DEFINE Q == {k \in Nat : k <= n => Good(run[k])}
<1>7. 0 \in Q
  BY <1>4, <1>5
<1>8. ASSUME NEW k \in Nat, k \in Q PROVE k + 1 \in Q
  <2> SUFFICES ASSUME k + 1 <= n PROVE Good(run[k + 1])
    OBVIOUS
  <2>1. k + 1 \in 1 .. n /\ (k + 1) - 1 = k /\ k <= n
    BY <1>1
  <2>2. run[k + 1] = OfferedOnce(c, txs, k + 1, run[k]) /\ txs[k + 1] \in S /\ Good(run[k])
    BY <2>1, <1>1, <1>4, <1>8
  <2>3. run[k + 1] \in {run[k], Offered(c, run[k], txs[k + 1])}
    BY ONLY <2>2 DEF OfferedOnce
  <2> QED
    BY <2>2, <2>3, <1>6
<1> HIDE DEF Q
<1>9. n \in Q
  BY <1>1, <1>7, <1>8, R!Induction
<1>10. Good(run[n])
  BY <1>1, <1>9 DEF Q
<1> QED
  BY <1>2, <1>10 DEF Good

(* A pool after an adoption holds what was offered, and nothing twice. *)
LEMMA RevalidatedOnce ==
    ASSUME NEW S, NEW c, NEW txs \in Seq(S)
    PROVE  LET pool == Revalidated(c, txs) IN
           /\ pool \in Seq(S)
           /\ \A i \in 1 .. Len(pool) : \E j \in 1 .. Len(txs) : pool[i] = txs[j]
           /\ \A i, j \in 1 .. Len(pool) : pool[i] = pool[j] => i = j
<1> DEFINE n == Len(txs)
           offers == Offers(c, txs)
           Good(pool, k) ==
               /\ pool \in Seq(S)
               /\ \A i \in 1 .. Len(pool) : \E j \in 1 .. k : pool[i] = txs[j]
               /\ \A i, j \in 1 .. Len(pool) : pool[i] = pool[j] => i = j
<1>1. n \in Nat /\ \A i \in 1 .. n : txs[i] \in S
  BY LenProperties, ElementOfSeq
<1>2. PICK run : P!IsRun(offers, run, n) /\ Revalidated(c, txs) = run[n]
  BY <1>1, RevalidatedIsRun
<1> HIDE DEF n, offers
<1>3. run[0] = OffersFirst(offers) /\ \A i \in 1 .. n : run[i] = OffersThen(offers, i, run[i - 1])
  BY ONLY <1>1, <1>2, P!RunSteps
<1>4. run[0] = <<>> /\ \A i \in 1 .. n : run[i] = OfferedOnce(c, txs, i, run[i - 1])
  BY <1>3 DEF offers, Offers, OffersFirst, OffersThen
<1>5. Good(<<>>, 0)
  <2>1. <<>> \in Seq(S) /\ Len(<<>>) = 0
    BY EmptySeq
  <2> QED
    BY <2>1
<1>6. ASSUME NEW k \in Nat, k + 1 <= n, NEW pool, Good(pool, k)
      PROVE  Good(OfferedOnce(c, txs, k + 1, pool), k + 1)
  <2> DEFINE tx == txs[k + 1]
             more == Append(pool, tx)
  <2>1. Len(pool) \in Nat /\ k + 1 \in 1 .. n /\ tx \in S
    BY <1>1, <1>6, LenProperties
  <2>2. Good(pool, k + 1)
    BY <1>6
  <2>3. CASE OfferedOnce(c, txs, k + 1, pool) = pool
    BY <2>2, <2>3
  <2>4. CASE OfferedOnce(c, txs, k + 1, pool) # pool
    <3>1. OfferedOnce(c, txs, k + 1, pool) = more
      BY <2>4 DEF OfferedOnce, Offered
    <3>2. \A j \in 1 .. k : txs[j] # tx
      <4>1. ~ \E j \in 1 .. (k + 1) - 1 : TransactionText(txs[j]) = TransactionText(txs[k + 1])
        BY <2>4 DEF OfferedOnce
      <4> QED
        BY <4>1
    <3> HIDE DEF tx
    <3>3. /\ more \in Seq(S) /\ Len(more) = Len(pool) + 1
          /\ \A i \in 1 .. Len(pool) : more[i] = pool[i]
          /\ more[Len(pool) + 1] = tx
      BY <1>6, <2>1, AppendProperties
    <3> HIDE DEF more
    <3>4. \A i \in 1 .. Len(pool) : pool[i] # tx
      BY <1>6, <3>2
    <3>5. ASSUME NEW i \in 1 .. Len(more) PROVE \E j \in 1 .. k + 1 : more[i] = txs[j]
      <4>1. CASE i = Len(pool) + 1
        BY <2>1, <3>3, <4>1 DEF tx
      <4>2. CASE i # Len(pool) + 1
        <5>1. i \in 1 .. Len(pool)
          BY <2>1, <3>3, <4>2
        <5> QED
          BY <2>2, <3>3, <5>1
      <4> QED
        BY <4>1, <4>2
    <3>6. ASSUME NEW i \in 1 .. Len(more), NEW j \in 1 .. Len(more), more[i] = more[j] PROVE i = j
      <4>1. i \in 1 .. Len(pool) \/ i = Len(pool) + 1
        BY <2>1, <3>3
      <4>2. j \in 1 .. Len(pool) \/ j = Len(pool) + 1
        BY <2>1, <3>3
      <4> QED
        BY <1>6, <3>3, <3>4, <3>6, <4>1, <4>2
    <3> QED
      BY <3>1, <3>3, <3>5, <3>6
  <2> QED
    BY <2>3, <2>4
<1> HIDE DEF Good
<1> DEFINE Q == {k \in Nat : k <= n => Good(run[k], k)}
<1>7. 0 \in Q
  BY <1>4, <1>5
<1>8. ASSUME NEW k \in Nat, k \in Q PROVE k + 1 \in Q
  <2> SUFFICES ASSUME k + 1 <= n PROVE Good(run[k + 1], k + 1)
    OBVIOUS
  <2>1. k + 1 \in 1 .. n /\ (k + 1) - 1 = k /\ k <= n
    BY <1>1
  <2>2. run[k + 1] = OfferedOnce(c, txs, k + 1, run[k]) /\ Good(run[k], k)
    BY <2>1, <1>4, <1>8
  <2> QED
    BY <2>2, <1>6
<1> HIDE DEF Q
<1>9. n \in Q
  BY <1>1, <1>7, <1>8, R!Induction
<1>10. Good(run[n], n)
  BY <1>1, <1>9 DEF Q
<1> QED
  BY <1>2, <1>10 DEF Good, n
============================================================================
