---------------------------- MODULE MerkleProofs ----------------------------
(***************************************************************************)
(* Lemmas about Merkle trees (Merkle.tla) over lists of every length: the  *)
(* shape of the levels that are built one on the other, and what two lists *)
(* have in common whose roots are the same.                                *)
(*                                                                         *)
(* Hashes nest to any depth and have no common type, so a level is known   *)
(* to be a list (IsSeq) and nothing is said of its elements.               *)
(***************************************************************************)
EXTENDS Merkle, SequenceTheorems, TLAPS

(* CalculateMerkleRoot is a loop that starts at the leaves. *)
BuildFirst(txs) == Leaves(txs)
BuildThen(txs, k, before) == IF Len(before) > 1 THEN Parents(before) ELSE before

B == INSTANCE Recursion WITH First <- BuildFirst, Then <- BuildThen

IsSeq(s) == s \in Seq({s[i] : i \in DOMAIN s})

-----------------------------------------------------------------------------
(* Lists *)

(* What is given element by element is a list.                              *)
LEMMA SeqByElements ==
    ASSUME NEW n \in Nat, NEW s, s = [i \in 1 .. n |-> s[i]]
    PROVE  IsSeq(s) /\ Len(s) = n /\ DOMAIN s = 1 .. n
<1> DEFINE S == {s[i] : i \in DOMAIN s}
<1>1. DOMAIN s = 1 .. n
  OBVIOUS
<1>2. s \in [1 .. n -> S]
  BY <1>1
<1>3. s \in Seq(S)
  BY <1>2, SeqDef
<1> QED
  BY <1>1, <1>3, LenProperties DEF IsSeq

(* A list is given by its length and its elements.                          *)
LEMMA SeqShape ==
    ASSUME NEW s, IsSeq(s)
    PROVE  Len(s) \in Nat /\ DOMAIN s = 1 .. Len(s) /\ s = [i \in 1 .. Len(s) |-> s[i]]
BY LenProperties DEF IsSeq

LEMMA SeqsEqual ==
    ASSUME NEW s, NEW t, IsSeq(s), IsSeq(t), Len(s) = Len(t),
           \A i \in 1 .. Len(s) : s[i] = t[i]
    PROVE  s = t
BY SeqShape

LEMMA SeqAppend ==
    ASSUME NEW s, IsSeq(s), NEW e
    PROVE  /\ IsSeq(Append(s, e))
           /\ Len(Append(s, e)) = Len(s) + 1
           /\ \A i \in 1 .. Len(s) : Append(s, e)[i] = s[i]
           /\ Append(s, e)[Len(s) + 1] = e
<1> DEFINE S == {s[i] : i \in DOMAIN s} \cup {e}
           a == Append(s, e)
<1>1. s \in Seq(S) /\ e \in S
  BY SeqMonotonic DEF IsSeq
<1>2. /\ a \in Seq(S) /\ Len(a) = Len(s) + 1
      /\ \A i \in 1 .. Len(s) : a[i] = s[i]
      /\ a[Len(s) + 1] = e
  BY <1>1, AppendProperties
<1>3. Len(a) \in Nat /\ a = [i \in 1 .. Len(a) |-> a[i]]
  BY <1>2, LenProperties
<1> QED
  BY <1>2, <1>3, SeqByElements

-----------------------------------------------------------------------------
(* Levels of a tree *)

LEMMA LeavesShape ==
    ASSUME NEW S, NEW txs \in Seq(S)
    PROVE  /\ IsSeq(Leaves(txs)) /\ Len(Leaves(txs)) = Len(txs)
           /\ \A i \in 1 .. Len(txs) : Leaves(txs)[i] = <<txs[i]>>
<1>1. Len(txs) \in Nat
  BY LenProperties
<1>2. Leaves(txs) = [i \in 1 .. Len(txs) |-> Leaves(txs)[i]]
  BY DEF Leaves
<1>3. \A i \in 1 .. Len(txs) : Leaves(txs)[i] = <<txs[i]>>
  BY DEF Leaves, TransactionHash
<1> QED
  BY <1>1, <1>2, <1>3, SeqByElements

(* Padding makes the length even and repeats the last hash.                 *)
LEMMA PaddedShape ==
    ASSUME NEW level, IsSeq(level), Len(level) > 0
    PROVE  /\ IsSeq(Padded(level))
           /\ Len(Padded(level)) = 2 * ((Len(level) + 1) \div 2)
           /\ \A i \in 1 .. Len(level) : Padded(level)[i] = level[i]
           /\ \A i \in 1 .. Len(Padded(level)) : i > Len(level) =>
                 i = Len(level) + 1 /\ Padded(level)[i] = level[Len(level)]
<1>1. Len(level) \in Nat
  BY SeqShape
<1>2. CASE Len(level) % 2 = 0
  <2>1. Padded(level) = level
    BY <1>2 DEF Padded
  <2>2. Len(level) = 2 * ((Len(level) + 1) \div 2)
    BY <1>1, <1>2
  <2> QED
    BY <1>1, <2>1, <2>2
<1>3. CASE Len(level) % 2 # 0
  <2>1. Padded(level) = Append(level, level[Len(level)])
    BY <1>3 DEF Padded
  <2>2. Len(level) + 1 = 2 * ((Len(level) + 1) \div 2)
    BY <1>1, <1>3
  <2> HIDE DEF Padded
  <2>3. /\ IsSeq(Padded(level))
        /\ Len(Padded(level)) = Len(level) + 1
        /\ \A i \in 1 .. Len(level) : Padded(level)[i] = level[i]
        /\ Padded(level)[Len(level) + 1] = level[Len(level)]
    BY <2>1, SeqAppend
  <2> QED
    BY <1>1, <2>2, <2>3
<1> QED
  BY <1>2, <1>3

(* The level above a level of n hashes has n / 2 hashes, rounded up.        *)
LEMMA ParentsShape ==
    ASSUME NEW level, IsSeq(level), Len(level) > 0
    PROVE  /\ IsSeq(Parents(level))
           /\ Len(Parents(level)) = (Len(level) + 1) \div 2
           /\ \A j \in 1 .. (Len(level) + 1) \div 2 :
                 Parents(level)[j] = <<Padded(level)[2 * j - 1], Padded(level)[2 * j]>>
<1> DEFINE n == (Len(level) + 1) \div 2
<1>1. Len(level) \in Nat /\ n \in Nat
  BY SeqShape
<1>2. Len(Padded(level)) \div 2 = n
  <2>1. Len(Padded(level)) = 2 * n
    BY PaddedShape
  <2> HIDE DEF n
  <2> QED
    BY <1>1, <2>1
<1>3. Parents(level) =
        [j \in 1 .. n |-> <<Padded(level)[2 * j - 1], Padded(level)[2 * j]>>]
  BY <1>2 DEF Parents, HashPair
<1>4. Parents(level) = [j \in 1 .. n |-> Parents(level)[j]]
  BY <1>3
<1>5. IsSeq(Parents(level)) /\ Len(Parents(level)) = n
  BY <1>1, <1>4, SeqByElements
<1> QED
  BY <1>3, <1>5

(* A parent is the pair of its two children.                                *)
LEMMA ParentOf ==
    ASSUME NEW level, IsSeq(level), Len(level) > 0, NEW position \in 0 .. Len(level) - 1
    PROVE  /\ position \div 2 \in 0 .. Len(Parents(level)) - 1
           /\ position % 2 = 0 => Parents(level)[position \div 2 + 1]
                                    = <<level[position + 1], Padded(level)[position + 2]>>
           /\ position % 2 # 0 => Parents(level)[position \div 2 + 1]
                                    = <<Padded(level)[position], level[position + 1]>>
<1> DEFINE j == position \div 2 + 1
<1>1. Len(level) \in Nat
  BY SeqShape
<1>2. /\ j \in 1 .. (Len(level) + 1) \div 2
      /\ position % 2 = 0 => 2 * j - 1 = position + 1 /\ 2 * j = position + 2
      /\ position % 2 # 0 => 2 * j - 1 = position /\ 2 * j = position + 1
  BY <1>1
<1>3. /\ Len(Parents(level)) = (Len(level) + 1) \div 2
      /\ Parents(level)[j] = <<Padded(level)[2 * j - 1], Padded(level)[2 * j]>>
  BY <1>2, ParentsShape
<1>4. Padded(level)[position + 1] = level[position + 1]
  BY <1>1, PaddedShape
<1>5. position \div 2 \in 0 .. Len(Parents(level)) - 1
  BY <1>1, <1>3
<1>6. ASSUME position % 2 = 0
      PROVE  Parents(level)[j] = <<level[position + 1], Padded(level)[position + 2]>>
  <2>1. 2 * j - 1 = position + 1 /\ 2 * j = position + 2
    BY <1>2, <1>6
  <2> HIDE DEF j
  <2> QED
    BY <1>3, <1>4, <2>1
<1>7. ASSUME position % 2 # 0
      PROVE  Parents(level)[j] = <<Padded(level)[position], level[position + 1]>>
  <2>1. 2 * j - 1 = position /\ 2 * j = position + 1
    BY <1>2, <1>7
  <2> HIDE DEF j
  <2> QED
    BY <1>3, <1>4, <2>1
<1> QED
  BY <1>5, <1>6, <1>7

LEMMA PairsEqual ==
    ASSUME NEW a, NEW b, NEW c, NEW d
    PROVE  <<a, b>> = <<c, d>> <=> a = c /\ b = d
OBVIOUS

(* Levels of the same length with the same parents are the same.            *)
LEMMA ParentsInjective ==
    ASSUME NEW l, NEW m, IsSeq(l), IsSeq(m), Len(l) > 0, Len(l) = Len(m),
           Parents(l) = Parents(m)
    PROVE  l = m
<1>1. Len(l) \in Nat
  BY SeqShape
<1>2. SUFFICES ASSUME NEW i \in 1 .. Len(l)
               PROVE  l[i] = m[i]
  BY SeqsEqual
<1> DEFINE p == i - 1
<1>3. p \in 0 .. Len(l) - 1 /\ p + 1 = i
  BY <1>1
<1> HIDE DEF p
<1>4. CASE p % 2 = 0
  <2>1. <<l[p + 1], Padded(l)[p + 2]>> = <<m[p + 1], Padded(m)[p + 2]>>
    BY <1>3, <1>4, ParentOf
  <2> QED
    BY <1>3, <2>1
<1>5. CASE p % 2 # 0
  <2>1. <<Padded(l)[p], l[p + 1]>> = <<Padded(m)[p], m[p + 1]>>
    BY <1>3, <1>5, ParentOf
  <2> QED
    BY <1>3, <2>1
<1> QED
  BY <1>3, <1>4, <1>5

LEMMA LeavesInjective ==
    ASSUME NEW S, NEW txs \in Seq(S), NEW block \in Seq(S), Len(txs) = Len(block)
    PROVE  Leaves(txs) = Leaves(block) <=> txs = block
<1>1. ASSUME Leaves(txs) = Leaves(block)
      PROVE  txs = block
  <2>1. \A i \in 1 .. Len(txs) : txs[i] = block[i]
    <3>1. \A i \in 1 .. Len(txs) : <<txs[i]>> = <<block[i]>>
      BY <1>1, LeavesShape
    <3> QED
      BY <3>1
  <2> QED
    BY <2>1, SeqEqual
<1> QED
  BY <1>1

-----------------------------------------------------------------------------
(* Towers of levels *)

(* The levels that a loop has built over a list.                            *)
Tower(tower, list) ==
    /\ IsSeq(tower) /\ Len(tower) >= 1
    /\ tower[1] = Leaves(list)
    /\ \A k \in 1 .. Len(tower) : IsSeq(tower[k])
    /\ \A k \in 1 .. Len(tower) - 1 : Len(tower[k]) > 1 /\ tower[k + 1] = Parents(tower[k])

LEMMA TopIsList ==
    ASSUME NEW tower, NEW list, Tower(tower, list)
    PROVE  IsSeq(Top(tower))
<1>1. Len(tower) \in Nat /\ Len(tower) >= 1
  BY SeqShape DEF Tower
<1> QED
  BY <1>1 DEF Tower, Top

(* A tower grows by the parents of its top.                                 *)
LEMMA TowerGrows ==
    ASSUME NEW tower, NEW list, Tower(tower, list), Len(Top(tower)) > 1
    PROVE  LET t == Append(tower, Parents(Top(tower)))
           IN  /\ Tower(t, list)
               /\ Len(t) = Len(tower) + 1
               /\ \A k \in 1 .. Len(tower) : t[k] = tower[k]
               /\ t[Len(tower) + 1] = Parents(Top(tower))
<1> DEFINE t == Append(tower, Parents(Top(tower)))
           n == Len(tower)
<1>1. n \in Nat /\ n >= 1 /\ IsSeq(tower) /\ Top(tower) = tower[n] /\ IsSeq(Top(tower))
  BY SeqShape DEF Tower, Top
<1>2. /\ IsSeq(t) /\ Len(t) = n + 1
      /\ \A k \in 1 .. n : t[k] = tower[k]
      /\ t[n + 1] = Parents(Top(tower))
  BY <1>1, SeqAppend
<1>3. IsSeq(Parents(Top(tower)))
  BY <1>1, ParentsShape
<1> HIDE DEF t, n
<1>4. \A k \in 1 .. n - 1 : Len(tower[k]) > 1 /\ tower[k + 1] = Parents(tower[k])
  BY DEF Tower, n
<1>5. tower[1] = Leaves(list) /\ \A k \in 1 .. n : IsSeq(tower[k])
  BY DEF Tower, n
<1>6. \A k \in 1 .. n + 1 : IsSeq(t[k])
  BY <1>1, <1>2, <1>3, <1>5
<1>7. \A k \in 1 .. n : Len(t[k]) > 1 /\ t[k + 1] = Parents(t[k])
  <2> SUFFICES ASSUME NEW k \in 1 .. n
               PROVE  Len(t[k]) > 1 /\ t[k + 1] = Parents(t[k])
    OBVIOUS
  <2>1. CASE k = n
    BY <1>1, <1>2, <2>1
  <2>2. CASE k # n
    <3>1. k \in 1 .. n - 1 /\ k + 1 \in 1 .. n
      BY <1>1, <2>2
    <3> QED
      BY <1>2, <1>4, <3>1
  <2> QED
    BY <2>1, <2>2
<1>8. Tower(t, list)
  BY <1>1, <1>2, <1>5, <1>6, <1>7 DEF Tower
<1> QED
  BY <1>2, <1>8 DEF t, n

(* The empty list and the list of one element.                              *)
LEMMA SmallLists ==
    /\ IsSeq(<<>>) /\ Len(<<>>) = 0
    /\ \A e : IsSeq(<<e>>) /\ Len(<<e>>) = 1 /\ <<e>>[1] = e
<1>1. IsSeq(<<>>) /\ Len(<<>>) = 0
  BY DEF IsSeq
<1>2. ASSUME NEW e
      PROVE  IsSeq(<<e>>) /\ Len(<<e>>) = 1 /\ <<e>>[1] = e
  <2>1. <<e>> = [i \in 1 .. 1 |-> <<e>>[i]]
    OBVIOUS
  <2> QED
    BY <2>1, SeqByElements
<1> QED
  BY <1>1, <1>2

LEMMA FirstLevel ==
    ASSUME NEW S, NEW list \in Seq(S)
    PROVE  Tower(<<Leaves(list)>>, list)
<1>1. IsSeq(Leaves(list))
  BY LeavesShape
<1>2. /\ IsSeq(<<Leaves(list)>>) /\ Len(<<Leaves(list)>>) = 1
      /\ <<Leaves(list)>>[1] = Leaves(list)
  BY SmallLists
<1> QED
  BY <1>1, <1>2 DEF Tower

(* No level of a list with an element is empty.                             *)
LEMMA LevelNotEmpty ==
    ASSUME NEW S, NEW list \in Seq(S), Len(list) > 0,
           NEW tower, Tower(tower, list), NEW k \in 1 .. Len(tower)
    PROVE  IsSeq(tower[k]) /\ Len(tower[k]) > 0 /\ Len(tower[k]) \in Nat
<1>1. Len(tower) \in Nat /\ Len(tower) >= 1 /\ IsSeq(tower[k])
  BY SeqShape DEF Tower
<1>2. CASE k = 1
  BY <1>1, <1>2, LeavesShape, SeqShape DEF Tower
<1>3. CASE k # 1
  <2>1. k - 1 \in 1 .. Len(tower) - 1 /\ k - 1 \in 1 .. Len(tower) /\ (k - 1) + 1 = k
    BY <1>1, <1>3
  <2>2. IsSeq(tower[k - 1]) /\ Len(tower[k - 1]) > 1 /\ tower[k] = Parents(tower[k - 1])
    BY <2>1 DEF Tower
  <2> DEFINE below == tower[k - 1]
  <2>3. Len(below) \in Nat /\ Len(below) > 0 /\ Len(below) > 1
    BY <2>2, SeqShape
  <2> HIDE DEF below
  <2>4. IsSeq(below) /\ tower[k] = Parents(below)
    BY <2>2 DEF below
  <2>5. Len(tower[k]) = (Len(below) + 1) \div 2
    BY <2>3, <2>4, ParentsShape
  <2>6. Len(tower[k]) \in Nat /\ Len(tower[k]) > 0
    BY <2>3, <2>5
  <2> QED
    BY <1>1, <2>6
<1> QED
  BY <1>2, <1>3

(* Padding adds no hash that the level does not have.                       *)
LEMMA PaddedElements ==
    ASSUME NEW level, IsSeq(level), Len(level) > 0, NEW i \in 1 .. Len(Padded(level))
    PROVE  \E j \in 1 .. Len(level) : Padded(level)[i] = level[j]
<1>1. Len(level) \in Nat
  BY SeqShape
<1>2. CASE i <= Len(level)
  BY <1>1, <1>2, PaddedShape
<1>3. CASE i > Len(level)
  <2>1. Padded(level)[i] = level[Len(level)]
    BY <1>3, PaddedShape
  <2> QED
    BY <1>1, <2>1
<1> QED
  BY <1>1, <1>2, <1>3

(* A parent is the pair of two hashes of the level below.                   *)
LEMMA ParentIsPair ==
    ASSUME NEW level, IsSeq(level), Len(level) > 0, NEW j \in 1 .. Len(Parents(level))
    PROVE  \E a, b \in 1 .. Len(level) : Parents(level)[j] = <<level[a], level[b]>>
<1> DEFINE n == (Len(level) + 1) \div 2
<1>1. Len(level) \in Nat /\ n \in Nat /\ Len(Parents(level)) = n /\ Len(Padded(level)) = 2 * n
  BY SeqShape, ParentsShape, PaddedShape
<1>2. Parents(level)[j] = <<Padded(level)[2 * j - 1], Padded(level)[2 * j]>>
  BY <1>1, ParentsShape
<1> HIDE DEF n
<1>3. 2 * j - 1 \in 1 .. Len(Padded(level)) /\ 2 * j \in 1 .. Len(Padded(level))
  BY <1>1
<1>4. PICK a \in 1 .. Len(level) : Padded(level)[2 * j - 1] = level[a]
  BY <1>3, PaddedElements
<1>5. PICK b \in 1 .. Len(level) : Padded(level)[2 * j] = level[b]
  BY <1>3, PaddedElements
<1> QED
  BY <1>2, <1>4, <1>5

(* The hash of a transaction is no pair.                                    *)
LEMMA LeafIsNoPair ==
    \A x, a, b : /\ <<x>> # <<a, b>> /\ <<x>> # <<>> /\ <<a, b>> # <<>>
OBVIOUS

(* The nodes of a tree: on the first level the hashes of transactions, on   *)
(* every other pairs of nodes of the level below.                           *)
LEMMA NodeShape ==
    ASSUME NEW S, NEW list \in Seq(S), Len(list) > 0, NEW tower, Tower(tower, list),
           NEW k \in 1 .. Len(tower), NEW i \in 1 .. Len(tower[k])
    PROVE  /\ k = 1 => i \in 1 .. Len(list) /\ tower[k][i] = <<list[i]>>
           /\ k # 1 => /\ k - 1 \in 1 .. Len(tower)
                       /\ \E a, b \in 1 .. Len(tower[k - 1]) :
                             tower[k][i] = <<tower[k - 1][a], tower[k - 1][b]>>
<1>1. Len(tower) \in Nat
  BY SeqShape DEF Tower
<1>2. CASE k = 1
  BY <1>2, LeavesShape DEF Tower
<1>3. CASE k # 1
  <2>1. k - 1 \in 1 .. Len(tower) - 1 /\ k - 1 \in 1 .. Len(tower) /\ (k - 1) + 1 = k
    BY <1>1, <1>3
  <2>2. IsSeq(tower[k - 1]) /\ Len(tower[k - 1]) > 0
    BY <2>1, LevelNotEmpty
  <2>3. tower[k] = Parents(tower[k - 1])
    BY <2>1 DEF Tower
  <2> DEFINE below == tower[k - 1]
  <2>4. IsSeq(below) /\ Len(below) > 0 /\ i \in 1 .. Len(Parents(below))
    BY <2>2, <2>3
  <2> HIDE DEF below
  <2>5. \E a, b \in 1 .. Len(below) : Parents(below)[i] = <<below[a], below[b]>>
    BY <2>4, ParentIsPair
  <2> QED
    BY <1>3, <2>1, <2>3, <2>5 DEF below
<1> QED
  BY <1>2, <1>3

(* The first node of a level tells whether the level is the first.          *)
LEMMA FirstNode ==
    ASSUME NEW S, NEW list \in Seq(S), Len(list) > 0, NEW tower, Tower(tower, list),
           NEW k \in 1 .. Len(tower)
    PROVE  /\ k = 1 => tower[k][1] = <<list[1]>>
           /\ k # 1 => \E a, b : tower[k][1] = <<a, b>>
<1>1. 1 \in 1 .. Len(tower[k])
  BY LevelNotEmpty
<1>2. k = 1 => tower[k][1] = <<list[1]>>
  BY <1>1, NodeShape
<1>3. k # 1 => \E a, b : tower[k][1] = <<a, b>>
  BY <1>1, NodeShape
<1> QED
  BY <1>2, <1>3

-----------------------------------------------------------------------------
(* What a root says of a list *)

(* One list goes on where the other ends, with elements of the other.       *)
Agree(s, t) ==
    /\ \A i \in 1 .. Len(s) : i <= Len(t) => s[i] = t[i]
    /\ \A i \in 1 .. Len(s) : \E j \in 1 .. Len(t) : s[i] = t[j]
    /\ \A j \in 1 .. Len(t) : \E i \in 1 .. Len(s) : t[j] = s[i]

LEMMA AgreeSymmetric ==
    ASSUME NEW s, NEW t, Len(s) \in Nat, Len(t) \in Nat, Agree(s, t)
    PROVE  Agree(t, s)
<1>1. \A i \in 1 .. Len(t) : i <= Len(s) => t[i] = s[i]
  BY DEF Agree
<1> QED
  BY <1>1 DEF Agree

(* A level has the hashes of another when its parents are the other's.      *)
LEMMA ElementsBelow ==
    ASSUME NEW l, NEW m, IsSeq(l), IsSeq(m), Len(l) > 0, Len(m) > 0,
           \A i \in 1 .. Len(Parents(l)) :
               \E j \in 1 .. Len(Parents(m)) : Parents(l)[i] = Parents(m)[j],
           NEW i \in 1 .. Len(l)
    PROVE  \E j \in 1 .. Len(m) : l[i] = m[j]
<1> DEFINE p == i - 1
           up == p \div 2 + 1
<1>1. p \in 0 .. Len(l) - 1 /\ p + 1 = i
  BY SeqShape
<1> HIDE DEF p
<1>2. p \div 2 \in 0 .. Len(Parents(l)) - 1 /\ Len(Parents(l)) \in Nat
  BY <1>1, ParentOf, ParentsShape, SeqShape
<1>3. up \in 1 .. Len(Parents(l))
  BY <1>2
<1>4. \/ Parents(l)[up] = <<l[i], Padded(l)[p + 2]>>
      \/ Parents(l)[up] = <<Padded(l)[p], l[i]>>
  BY <1>1, ParentOf
<1> HIDE DEF up
<1>5. PICK j \in 1 .. Len(Parents(m)) : Parents(l)[up] = Parents(m)[j]
  BY <1>3
<1>6. PICK a, b \in 1 .. Len(m) : Parents(m)[j] = <<m[a], m[b]>>
  BY ParentIsPair
<1>7. l[i] = m[a] \/ l[i] = m[b]
  BY <1>4, <1>5, <1>6, PairsEqual
<1> QED
  BY <1>7

LEMMA ParentsAgree ==
    ASSUME NEW l, NEW m, IsSeq(l), IsSeq(m), Len(l) > 0, Len(m) > 0,
           Agree(Parents(l), Parents(m))
    PROVE  Agree(l, m)
<1>1. ASSUME NEW i \in 1 .. Len(l), i <= Len(m) PROVE l[i] = m[i]
  <2> DEFINE p == i - 1
             up == p \div 2 + 1
  <2>1. p \in 0 .. Len(l) - 1 /\ p \in 0 .. Len(m) - 1 /\ p + 1 = i
    BY <1>1, SeqShape
  <2> HIDE DEF p
  <2>2. /\ p \div 2 \in 0 .. Len(Parents(l)) - 1 /\ Len(Parents(l)) \in Nat
        /\ p \div 2 \in 0 .. Len(Parents(m)) - 1 /\ Len(Parents(m)) \in Nat
    BY <2>1, ParentOf, ParentsShape, SeqShape
  <2>3. up \in 1 .. Len(Parents(l)) /\ up <= Len(Parents(m))
    BY <2>2
  <2>4. Parents(l)[up] = Parents(m)[up]
    BY <2>3 DEF Agree
  <2>5. CASE p % 2 = 0
    <3>1. /\ Parents(l)[up] = <<l[i], Padded(l)[p + 2]>>
          /\ Parents(m)[up] = <<m[i], Padded(m)[p + 2]>>
      BY <2>1, <2>5, ParentOf
    <3>2. <<l[i], Padded(l)[p + 2]>> = <<m[i], Padded(m)[p + 2]>>
      BY <2>4, <3>1
    <3> QED
      BY <3>2
  <2>6. CASE p % 2 # 0
    <3>1. /\ Parents(l)[up] = <<Padded(l)[p], l[i]>>
          /\ Parents(m)[up] = <<Padded(m)[p], m[i]>>
      BY <2>1, <2>6, ParentOf
    <3>2. <<Padded(l)[p], l[i]>> = <<Padded(m)[p], m[i]>>
      BY <2>4, <3>1
    <3> QED
      BY <3>2
  <2> QED
    BY <2>5, <2>6
<1>2. \A i \in 1 .. Len(l) : \E j \in 1 .. Len(m) : l[i] = m[j]
  BY ElementsBelow DEF Agree
<1>3. \A j \in 1 .. Len(m) : \E i \in 1 .. Len(l) : m[j] = l[i]
  BY ElementsBelow DEF Agree
<1> QED
  BY <1>1, <1>2, <1>3 DEF Agree

LEMMA LeavesAgree ==
    ASSUME NEW S, NEW s \in Seq(S), NEW t \in Seq(S), Agree(Leaves(s), Leaves(t))
    PROVE  Agree(s, t)
<1>1. /\ Len(Leaves(s)) = Len(s) /\ Len(Leaves(t)) = Len(t)
      /\ \A i \in 1 .. Len(s) : Leaves(s)[i] = <<s[i]>>
      /\ \A i \in 1 .. Len(t) : Leaves(t)[i] = <<t[i]>>
  BY LeavesShape
<1>2. \A x, y : <<x>> = <<y>> <=> x = y
  OBVIOUS
<1>3. Len(s) \in Nat /\ Len(t) \in Nat
  BY LenProperties
<1>4. \A i \in 1 .. Len(s) : i <= Len(t) => s[i] = t[i]
  BY <1>1, <1>2, <1>3 DEF Agree
<1>5. \A i \in 1 .. Len(s) : \E j \in 1 .. Len(t) : s[i] = t[j]
  BY <1>1, <1>2 DEF Agree
<1>6. \A j \in 1 .. Len(t) : \E i \in 1 .. Len(s) : t[j] = s[i]
  BY <1>1, <1>2 DEF Agree
<1> QED
  BY <1>4, <1>5, <1>6 DEF Agree

(* Two levels of which each has the hashes of the other belong to lists     *)
(* which each have the transactions of the other.                           *)
LEMMA LevelsAgree ==
    ASSUME NEW S, NEW list \in Seq(S), Len(list) > 0, NEW other \in Seq(S), Len(other) > 0,
           NEW s, Tower(s, list), NEW t, Tower(t, other),
           NEW k \in 1 .. Len(s), NEW l \in 1 .. Len(t), Agree(s[k], t[l])
    PROVE  Agree(list, other)
<1> DEFINE P == {i \in Nat : i \in 1 .. Len(s) =>
                     \A j \in 1 .. Len(t) : Agree(s[i], t[j]) => Agree(list, other)}
<1>1. Len(s) \in Nat /\ Len(t) \in Nat
  BY SeqShape DEF Tower
<1>2. 0 \in P
  BY <1>1
<1>3. ASSUME NEW i \in Nat, i \in P PROVE i + 1 \in P
  <2> SUFFICES ASSUME i + 1 \in 1 .. Len(s), NEW j \in 1 .. Len(t), Agree(s[i + 1], t[j])
               PROVE  Agree(list, other)
    OBVIOUS
  <2> DEFINE h == i + 1
  <2>1. h \in 1 .. Len(s) /\ (h = 1 <=> i = 0) /\ h - 1 = i
    OBVIOUS
  <2>2. /\ IsSeq(s[h]) /\ Len(s[h]) > 0 /\ Len(s[h]) \in Nat
        /\ IsSeq(t[j]) /\ Len(t[j]) > 0 /\ Len(t[j]) \in Nat
    <3> HIDE DEF h
    <3>1. IsSeq(s[h]) /\ Len(s[h]) > 0 /\ Len(s[h]) \in Nat
      BY <2>1, LevelNotEmpty
    <3>2. IsSeq(t[j]) /\ Len(t[j]) > 0 /\ Len(t[j]) \in Nat
      BY LevelNotEmpty
    <3> QED
      BY <3>1, <3>2
  <2>3. Agree(s[h], t[j])
    OBVIOUS
  <2> HIDE DEF h
  <2>4. 1 \in 1 .. Len(s[h]) /\ 1 \in 1 .. Len(t[j]) /\ 1 <= Len(t[j])
    BY <2>2
  <2>5. s[h][1] = t[j][1]
    BY <2>3, <2>4 DEF Agree
  <2>6. /\ h = 1 => s[h][1] = <<list[1]>>
        /\ h # 1 => \E a, b : s[h][1] = <<a, b>>
    BY <2>1, FirstNode
  <2>7. /\ j = 1 => t[j][1] = <<other[1]>>
        /\ j # 1 => \E a, b : t[j][1] = <<a, b>>
    BY FirstNode
  <2>8. h = 1 <=> j = 1
    BY <2>5, <2>6, <2>7, LeafIsNoPair
  <2>9. CASE h = 1
    <3>1. s[h] = Leaves(list) /\ t[j] = Leaves(other)
      BY <2>8, <2>9 DEF Tower
    <3> QED
      BY <2>3, <3>1, LeavesAgree
  <2>10. CASE h # 1
    <3>1. /\ i \in 1 .. Len(s) - 1 /\ i \in 1 .. Len(s) /\ i + 1 = h
          /\ j - 1 \in 1 .. Len(t) - 1 /\ j - 1 \in 1 .. Len(t) /\ (j - 1) + 1 = j
      BY <1>1, <2>1, <2>8, <2>10
    <3>2. s[h] = Parents(s[i]) /\ t[j] = Parents(t[j - 1])
      BY <3>1 DEF Tower
    <3>3. IsSeq(s[i]) /\ Len(s[i]) > 0
      BY <3>1, LevelNotEmpty
    <3>4. IsSeq(t[j - 1]) /\ Len(t[j - 1]) > 0
      BY <3>1, LevelNotEmpty
    <3> DEFINE below == t[j - 1]
    <3>5. IsSeq(below) /\ Len(below) > 0 /\ t[j] = Parents(below)
      BY <3>2, <3>4
    <3> HIDE DEF below
    <3>6. Agree(s[i], below)
      BY <2>3, <3>2, <3>3, <3>5, ParentsAgree
    <3> QED
      BY <1>3, <3>1, <3>6 DEF below
  <2> QED
    BY <2>9, <2>10
<1> HIDE DEF P
<1>4. k \in Nat
  BY <1>1
<1>5. k \in P
  BY <1>2, <1>3, <1>4, B!Induction
<1> QED
  BY <1>5 DEF P

LEMMA TopsAgree ==
    ASSUME NEW S, NEW list \in Seq(S), Len(list) > 0, NEW other \in Seq(S), Len(other) > 0,
           NEW s, Tower(s, list), NEW t, Tower(t, other),
           Len(Top(s)) = 1, Len(Top(t)) = 1, Top(s)[1] = Top(t)[1]
    PROVE  Agree(list, other)
<1>1. /\ Len(s) \in 1 .. Len(s) /\ Top(s) = s[Len(s)]
      /\ Len(t) \in 1 .. Len(t) /\ Top(t) = t[Len(t)]
  BY SeqShape DEF Tower, Top
<1>2. Agree(s[Len(s)], t[Len(t)])
  BY <1>1 DEF Agree
<1> QED
  BY <1>1, <1>2, LevelsAgree

(* Over one list there is one tower that cannot grow any more.              *)
LEMMA TopsEqual ==
    ASSUME NEW list, NEW s, Tower(s, list), NEW t, Tower(t, list),
           Len(Top(s)) <= 1, Len(Top(t)) <= 1
    PROVE  Top(s) = Top(t)
<1> DEFINE P == {k \in Nat : k + 1 \in 1 .. Len(s) /\ k + 1 \in 1 .. Len(t) => s[k + 1] = t[k + 1]}
<1>1. /\ Len(s) \in Nat /\ Len(s) >= 1 /\ Top(s) = s[Len(s)]
      /\ Len(t) \in Nat /\ Len(t) >= 1 /\ Top(t) = t[Len(t)]
  BY SeqShape DEF Tower, Top
<1>2. 0 \in P
  BY DEF Tower
<1>3. ASSUME NEW k \in Nat, k \in P PROVE k + 1 \in P
  <2> SUFFICES ASSUME k + 1 + 1 \in 1 .. Len(s), k + 1 + 1 \in 1 .. Len(t)
               PROVE  s[k + 1 + 1] = t[k + 1 + 1]
    OBVIOUS
  <2> DEFINE h == k + 1
  <2>1. h \in 1 .. Len(s) - 1 /\ h \in 1 .. Len(s) /\ h \in 1 .. Len(t) - 1 /\ h \in 1 .. Len(t)
    BY <1>1
  <2>2. s[h] = t[h]
    BY <1>3, <2>1
  <2> HIDE DEF h
  <2>3. s[h + 1] = Parents(s[h]) /\ t[h + 1] = Parents(t[h])
    BY <2>1 DEF Tower
  <2> QED
    BY <2>2, <2>3 DEF h
<1> HIDE DEF P
<1>4. \A k \in Nat : k \in P
  BY <1>2, <1>3, B!Induction
<1>5. \A h \in 1 .. Len(s) : h \in 1 .. Len(t) => s[h] = t[h]
  <2> SUFFICES ASSUME NEW h \in 1 .. Len(s), h \in 1 .. Len(t) PROVE s[h] = t[h]
    OBVIOUS
  <2>1. h - 1 \in Nat /\ (h - 1) + 1 = h
    BY <1>1
  <2>2. h - 1 \in P
    BY <1>4, <2>1
  <2> QED
    BY <2>1, <2>2 DEF P
<1>6. /\ \A h \in 1 .. Len(s) - 1 : Len(s[h]) > 1
      /\ \A h \in 1 .. Len(t) - 1 : Len(t[h]) > 1
  BY DEF Tower
<1>7. IsSeq(s[Len(s)]) /\ IsSeq(t[Len(t)]) /\ Len(s[Len(s)]) \in Nat /\ Len(t[Len(t)]) \in Nat
  BY <1>1, SeqShape DEF Tower
<1>8. Len(s) = Len(t)
  <2>1. CASE Len(s) < Len(t)
    <3>1. Len(s) \in 1 .. Len(t) - 1 /\ Len(s) \in 1 .. Len(t) /\ Len(s) \in 1 .. Len(s)
      BY <1>1, <2>1
    <3>2. s[Len(s)] = t[Len(s)] /\ Len(t[Len(s)]) > 1
      BY <1>5, <1>6, <3>1
    <3> QED
      BY <1>1, <1>7, <3>2
  <2>2. CASE Len(t) < Len(s)
    <3>1. Len(t) \in 1 .. Len(s) - 1 /\ Len(t) \in 1 .. Len(s) /\ Len(t) \in 1 .. Len(t)
      BY <1>1, <2>2
    <3>2. s[Len(t)] = t[Len(t)] /\ Len(s[Len(t)]) > 1
      BY <1>5, <1>6, <3>1
    <3> QED
      BY <1>1, <1>7, <3>2
  <2> QED
    BY <1>1, <2>1, <2>2
<1>9. Len(s) \in 1 .. Len(s) /\ Len(s) \in 1 .. Len(t)
  BY <1>1, <1>8
<1> QED
  BY <1>1, <1>5, <1>8, <1>9

(* CalculateMerkleRoot comes down to one hash: a level of more than one has *)
(* more hashes than the level above it.                                     *)
LEMMA RootOfTower ==
    ASSUME NEW S, NEW list \in Seq(S), list # <<>>
    PROVE  \E tower : /\ Tower(tower, list) /\ Len(Top(tower)) = 1
                      /\ CalculateMerkleRoot(list) = Top(tower)[1]
<1> DEFINE n == Len(list)
           chosen == CHOOSE level : level = [k \in 0 .. n |->
                         IF k = 0 THEN Leaves(list)
                         ELSE IF Len(level[k - 1]) > 1 THEN Parents(level[k - 1])
                         ELSE level[k - 1]]
<1>1. n \in Nat /\ n > 0
  BY LenProperties, EmptySeq
<1>2. CalculateMerkleRoot(list) = chosen[n][1]
  BY DEF CalculateMerkleRoot
<1>3. \E level : B!IsRun(list, level, n)
  BY <1>1, B!RunExists
<1>4. B!IsRun(list, chosen, n)
  <2>1. \A level : B!IsRun(list, level, n) <=>
            level = [k \in 0 .. n |->
                         IF k = 0 THEN Leaves(list)
                         ELSE IF Len(level[k - 1]) > 1 THEN Parents(level[k - 1])
                         ELSE level[k - 1]]
    BY DEF B!IsRun, BuildFirst, BuildThen
  <2> QED
    BY <1>3, <2>1
<1> HIDE DEF chosen
<1>5. /\ chosen[0] = Leaves(list)
      /\ \A k \in 1 .. n : chosen[k] = BuildThen(list, k, chosen[k - 1])
  <2>1. chosen[0] = BuildFirst(list)
        /\ \A k \in 1 .. n : chosen[k] = BuildThen(list, k, chosen[k - 1])
    BY ONLY <1>1, <1>4, B!RunSteps
  <2> QED
    BY <2>1 DEF BuildFirst
<1> DEFINE Reached(k) == \E tower : /\ Tower(tower, list) /\ chosen[k] = Top(tower)
                                    /\ Len(chosen[k]) <= 1 \/ Len(chosen[k]) + k <= n
           P == {k \in Nat : k <= n => Reached(k)}
<1>6. 0 \in P
  <2>1. Tower(<<Leaves(list)>>, list) /\ Top(<<Leaves(list)>>) = Leaves(list)
    BY FirstLevel DEF Top
  <2>2. Len(Leaves(list)) = n
    BY LeavesShape
  <2> QED
    BY <1>1, <1>5, <2>1, <2>2
<1>7. ASSUME NEW k \in Nat, k \in P PROVE k + 1 \in P
  <2> HIDE DEF Reached
  <2> SUFFICES ASSUME k + 1 <= n PROVE Reached(k + 1)
    OBVIOUS
  <2>1. Reached(k)
    BY <1>1, <1>7
  <2> USE DEF Reached
  <2>2. PICK tower : /\ Tower(tower, list) /\ chosen[k] = Top(tower)
                     /\ Len(chosen[k]) <= 1 \/ Len(chosen[k]) + k <= n
    BY <2>1
  <2>3. IsSeq(chosen[k]) /\ Len(chosen[k]) \in Nat
    BY <2>2, TopIsList, SeqShape
  <2>4. chosen[k + 1] = BuildThen(list, k + 1, chosen[k])
    BY <1>1, <1>5
  <2>5. CASE Len(chosen[k]) > 1
    <3>1. chosen[k + 1] = Parents(chosen[k])
      BY <2>4, <2>5 DEF BuildThen
    <3>2. Len(chosen[k + 1]) = (Len(chosen[k]) + 1) \div 2
      <4>1. Len(chosen[k]) > 0
        BY <2>3, <2>5
      <4> QED
        BY <2>3, <3>1, <4>1, ParentsShape
    <3>3. Len(chosen[k + 1]) + (k + 1) <= n
      BY <1>1, <2>2, <2>3, <2>5, <3>2
    <3> DEFINE more == Append(tower, Parents(Top(tower)))
    <3>4. Tower(more, list) /\ Top(more) = chosen[k + 1]
      <4>1. /\ Tower(more, list) /\ Len(more) = Len(tower) + 1
            /\ more[Len(tower) + 1] = Parents(Top(tower))
        BY <2>2, <2>5, TowerGrows
      <4> HIDE DEF more
      <4> QED
        BY <2>2, <3>1, <4>1 DEF Top
    <3> HIDE DEF more
    <3> QED
      BY <3>3, <3>4
  <2>6. CASE ~(Len(chosen[k]) > 1)
    <3>1. chosen[k + 1] = chosen[k] /\ Len(chosen[k + 1]) <= 1
      BY <2>3, <2>4, <2>6 DEF BuildThen
    <3> QED
      BY <2>2, <3>1
  <2> QED
    BY <2>5, <2>6
<1>8. n \in P
  <2> HIDE DEF P
  <2> QED
    BY <1>1, <1>6, <1>7, B!Induction
<1>9. PICK tower : /\ Tower(tower, list) /\ chosen[n] = Top(tower)
                   /\ Len(chosen[n]) <= 1 \/ Len(chosen[n]) + n <= n
  BY <1>1, <1>8
<1>10. Len(Top(tower)) > 0 /\ Len(Top(tower)) \in Nat
  <2>1. Len(tower) \in 1 .. Len(tower)
    BY <1>9, SeqShape DEF Tower
  <2> QED
    BY <1>1, <1>9, <2>1, LevelNotEmpty DEF Top
<1>11. Len(Top(tower)) = 1
  <2> DEFINE size == Len(Top(tower))
  <2>1. size \in Nat /\ size > 0 /\ (size <= 1 \/ size + n <= n)
    BY <1>9, <1>10
  <2> HIDE DEF size, n
  <2>2. size = 1
    BY <1>1, <2>1
  <2> QED
    BY <2>2 DEF size
<1> QED
  BY <1>2, <1>9, <1>11

(* The root of a list is a hash of one or of two, and the empty root is of  *)
(* none.                                                                    *)
LEMMA RootOfElements ==
    ASSUME NEW S, NEW list \in Seq(S), list # <<>>
    PROVE  CalculateMerkleRoot(list) # EmptyRoot
<1>1. PICK tower : /\ Tower(tower, list) /\ Len(Top(tower)) = 1
                   /\ CalculateMerkleRoot(list) = Top(tower)[1]
  BY RootOfTower
<1>2. Len(list) > 0
  BY LenProperties, EmptySeq
<1>3. Len(tower) \in 1 .. Len(tower) /\ Top(tower) = tower[Len(tower)]
  BY <1>1, SeqShape DEF Tower, Top
<1> DEFINE k == Len(tower)
<1>4. /\ k = 1 => tower[k][1] = <<list[1]>>
      /\ k # 1 => \E a, b : tower[k][1] = <<a, b>>
  <2> HIDE DEF k
  <2> QED
    BY <1>1, <1>2, <1>3, FirstNode DEF k
<1> QED
  BY <1>1, <1>3, <1>4, LeafIsNoPair DEF EmptyRoot

(* Lists that have a root in common differ only in how often the longer one *)
(* repeats what the shorter one has.                                        *)
THEOREM RootsAgree ==
    ASSUME NEW S, NEW list \in Seq(S), NEW other \in Seq(S),
           CalculateMerkleRoot(list) = CalculateMerkleRoot(other)
    PROVE  Agree(list, other)
<1>1. CalculateMerkleRoot(<<>>) = EmptyRoot
  BY DEF CalculateMerkleRoot
<1>2. list = <<>> <=> other = <<>>
  BY <1>1, RootOfElements
<1>3. CASE list = <<>>
  BY <1>2, <1>3, EmptySeq DEF Agree
<1>4. CASE list # <<>>
  <2>1. PICK s : Tower(s, list) /\ Len(Top(s)) = 1 /\ CalculateMerkleRoot(list) = Top(s)[1]
    BY <1>4, RootOfTower
  <2>2. PICK t : Tower(t, other) /\ Len(Top(t)) = 1 /\ CalculateMerkleRoot(other) = Top(t)[1]
    BY <1>2, <1>4, RootOfTower
  <2>3. Len(list) > 0 /\ Len(other) > 0
    BY <1>2, <1>4, LenProperties, EmptySeq
  <2> QED
    BY <2>1, <2>2, <2>3, TopsAgree
<1> QED
  BY <1>3, <1>4

(* A root stands for one list of a length,                                  *)
THEOREM RootNamesList ==
    ASSUME NEW S, NEW list \in Seq(S), NEW other \in Seq(S), Len(list) = Len(other)
    PROVE  CalculateMerkleRoot(list) = CalculateMerkleRoot(other) <=> list = other
<1> SUFFICES ASSUME CalculateMerkleRoot(list) = CalculateMerkleRoot(other)
             PROVE  list = other
  OBVIOUS
<1>1. Agree(list, other) /\ Len(list) \in Nat
  BY RootsAgree, LenProperties
<1>2. \A i \in 1 .. Len(list) : list[i] = other[i]
  BY <1>1 DEF Agree
<1> QED
  BY <1>2, SeqEqual

(* and for one list that has no element twice.                              *)
THEOREM RootNamesSet ==
    ASSUME NEW S, NEW list \in Seq(S), NEW other \in Seq(S),
           \A i, j \in 1 .. Len(list) : list[i] = list[j] => i = j,
           \A i, j \in 1 .. Len(other) : other[i] = other[j] => i = j
    PROVE  CalculateMerkleRoot(list) = CalculateMerkleRoot(other) <=> list = other
<1> SUFFICES ASSUME CalculateMerkleRoot(list) = CalculateMerkleRoot(other)
             PROVE  list = other
  OBVIOUS
<1>1. Agree(list, other) /\ Len(list) \in Nat /\ Len(other) \in Nat
  BY RootsAgree, LenProperties
<1>2. ASSUME Len(list) < Len(other) PROVE FALSE
  <2> DEFINE j == Len(list) + 1
  <2>1. j \in 1 .. Len(other) /\ j > Len(list)
    BY <1>1, <1>2
  <2> HIDE DEF j
  <2>2. PICK i \in 1 .. Len(list) : other[j] = list[i]
    BY <1>1, <2>1 DEF Agree
  <2>3. i \in 1 .. Len(other) /\ i # j /\ list[i] = other[i]
    BY <1>1, <1>2, <2>1 DEF Agree
  <2> QED
    BY <2>1, <2>2, <2>3
<1>3. ASSUME Len(other) < Len(list) PROVE FALSE
  <2> DEFINE j == Len(other) + 1
  <2>1. j \in 1 .. Len(list) /\ j > Len(other)
    BY <1>1, <1>3
  <2> HIDE DEF j
  <2>2. PICK i \in 1 .. Len(other) : list[j] = other[i]
    BY <1>1, <2>1 DEF Agree
  <2>3. i \in 1 .. Len(list) /\ i # j /\ list[i] = other[i]
    BY <1>1, <1>3, <2>1 DEF Agree
  <2> QED
    BY <2>1, <2>2, <2>3
<1> QED
  BY <1>1, <1>2, <1>3, RootNamesList
=============================================================================
