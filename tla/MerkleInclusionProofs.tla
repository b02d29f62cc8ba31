----------------------- MODULE MerkleInclusionProofs -----------------------
(***************************************************************************)
(* Theorems about MerkleInclusion: for lists of every length, a proof      *)
(* verifies exactly for the transaction it was made for, what is accepted  *)
(* is in the block, lists with the same root differ by repetitions at the  *)
(* end at most, and the loop computes the root of the reference tree.      *)
(*                                                                         *)
(* Hashes nest to any depth and have no common type, so a level is known   *)
(* to be a list (IsSeq) and nothing is said of its elements.               *)
(***************************************************************************)
EXTENDS MerkleInclusion, MerkleProofs

-----------------------------------------------------------------------------
(* A step of VerifyMerkleProof *)

(* A step of a proof leads to the parent from the node it was made for and  *)
(* from no other hash.                                                      *)
LEMMA ClimbToParent ==
    ASSUME NEW level, IsSeq(level), Len(level) > 0, NEW position \in 0 .. Len(level) - 1,
           NEW hash
    PROVE  Climb(hash, ProofStep(level, position)) = Parents(level)[position \div 2 + 1]
             <=> hash = level[position + 1]
<1>1. CASE position % 2 = 0
  <2>1. Climb(hash, ProofStep(level, position)) = <<hash, Padded(level)[position + 2]>>
    BY <1>1 DEF Climb, ProofStep, HashPair
  <2>2. Parents(level)[position \div 2 + 1]
          = <<level[position + 1], Padded(level)[position + 2]>>
    BY <1>1, ParentOf
  <2> QED
    BY <2>1, <2>2, PairsEqual
<1>2. CASE position % 2 # 0
  <2>1. Climb(hash, ProofStep(level, position)) = <<Padded(level)[position], hash>>
    BY <1>2 DEF Climb, ProofStep, HashPair
  <2>2. Parents(level)[position \div 2 + 1] = <<Padded(level)[position], level[position + 1]>>
    BY <1>2, ParentOf
  <2> QED
    BY <2>1, <2>2, PairsEqual
<1> QED
  BY <1>1, <1>2

LEMMA OneElement ==
    ASSUME NEW n \in Nat, n <= 1, NEW position \in 0 .. n - 1
    PROVE  n = 1 /\ position = 0
OBVIOUS

-----------------------------------------------------------------------------
(* The inductive invariant *)

Typed ==
    /\ call \in CallSet
    /\ pc \in {"root", "prove", "refused", "path", "verify", "done"}
    /\ verdict \in BOOLEAN
    /\ checked \in 0 .. Len(proof)
    /\ IsSeq(proof) /\ Len(proof) \in Nat
    /\ pc \in {"root", "prove", "refused", "path"} => checked = 0
    /\ pc \in {"root", "prove", "refused"} => proof = <<>>

RootTower ==
    /\ Tower(rootLevels, call.block)
    /\ pc # "root" =>
          /\ Len(Top(rootLevels)) <= 1
          /\ root = IF call.block = <<>> THEN EmptyRoot ELSE Top(rootLevels)[1]

Proving == pc \in {"path", "verify", "done"}

(* The proof has the sibling of each position on the path.                  *)
ProofTower ==
    Proving =>
        /\ InRange(call.index, call.txs)
        /\ Tower(levels, call.txs)
        /\ IsSeq(path) /\ Len(path) = Len(levels) /\ Len(levels) = Len(proof) + 1
        /\ path[1] = call.index
        /\ \A k \in 1 .. Len(path) : path[k] \in 0 .. Len(levels[k]) - 1
        /\ \A k \in 1 .. Len(proof) : /\ path[k + 1] = path[k] \div 2
                                       /\ proof[k] = ProofStep(levels[k], path[k])

(* The client is on the path exactly when it asked for the right transaction. *)
OnPath == current = levels[checked + 1][path[checked + 1] + 1]
Claimed == call.claimed = call.txs[call.index + 1]

Climbed ==
    /\ pc \in {"verify", "done"} => Len(Top(levels)) <= 1 /\ (OnPath <=> Claimed)
    /\ pc = "done" => checked = Len(proof) /\ (verdict <=> current = root)

(* Lists of one length have trees of one shape, equal where the lists are.  *)
Aligned ==
    Proving /\ Len(call.txs) = Len(call.block) =>
        \A k \in 1 .. Len(levels) : k <= Len(rootLevels) =>
            /\ Len(levels[k]) = Len(rootLevels[k])
            /\ levels[k] = rootLevels[k] <=> call.txs = call.block

(* Whichever nodes a proof names, a client that has come to a node of the   *)
(* block's tree has come from one of its leaves.                            *)
IsIncluded == \E j \in 1 .. Len(call.block) : call.block[j] = call.claimed

Included ==
    pc \in {"verify", "done"} =>
        /\ current # EmptyRoot
        /\ \A k \in 1 .. Len(rootLevels) : \A i \in 1 .. Len(rootLevels[k]) :
              rootLevels[k][i] = current => IsIncluded

IInv == Typed /\ RootTower /\ ProofTower /\ Climbed /\ Aligned /\ Included

LEMMA CallLists ==
    ASSUME call \in CallSet
    PROVE  call.block \in Seq(Claims) /\ call.txs \in Seq(Claims) /\ call.index \in Int
BY ListsAssumption, IndicesAssumption DEF CallSet

LEMMA Initially ==
    Init => IInv
<1> SUFFICES ASSUME Init
             PROVE  IInv
  OBVIOUS
<1>1. call \in CallSet /\ call.block \in Seq(Claims)
  BY CallLists DEF Init
<1>2. Typed
  <2>1. proof = <<>> /\ Len(proof) = 0 /\ IsSeq(proof) /\ checked \in 0 .. Len(proof)
    <3>1. proof = <<>> /\ Len(proof) = 0 /\ IsSeq(proof) /\ checked = 0
      BY SmallLists DEF Init
    <3> QED
      BY <3>1
  <2> QED
    BY <1>1, <2>1 DEF Init, Typed
<1>3. RootTower
  BY <1>1, FirstLevel DEF Init, RootTower
<1>4. ProofTower /\ Climbed /\ Aligned /\ Included
  BY DEF Init, ProofTower, Climbed, Aligned, Included, Proving
<1> QED
  BY <1>2, <1>3, <1>4 DEF IInv

-----------------------------------------------------------------------------
(* One lemma for each action *)

LEMMA RootLevelKeeps ==
    IInv /\ RootLevel => IInv'
<1> SUFFICES ASSUME IInv, RootLevel
             PROVE  IInv'
  OBVIOUS
<1> USE DEF RootLevel
<1>1. Typed'
  BY DEF IInv, Typed
<1>2. RootTower'
  BY TowerGrows DEF IInv, RootTower
<1>3. ProofTower' /\ Climbed' /\ Aligned' /\ Included'
  BY DEF ProofTower, Climbed, Aligned, Included, Proving
<1> QED
  BY <1>1, <1>2, <1>3 DEF IInv

LEMMA RootReturnKeeps ==
    IInv /\ RootReturn => IInv'
<1> SUFFICES ASSUME IInv, RootReturn
             PROVE  IInv'
  OBVIOUS
<1> USE DEF RootReturn
<1>1. Typed'
  BY DEF IInv, Typed
<1>2. RootTower'
  BY DEF IInv, RootTower
<1>3. ProofTower' /\ Climbed' /\ Aligned' /\ Included'
  BY DEF ProofTower, Climbed, Aligned, Included, Proving
<1> QED
  BY <1>1, <1>2, <1>3 DEF IInv

LEMMA ProofRefusedKeeps ==
    IInv /\ ProofRefused => IInv'
<1> SUFFICES ASSUME IInv, ProofRefused
             PROVE  IInv'
  OBVIOUS
<1> USE DEF ProofRefused
<1>1. Typed'
  BY DEF IInv, Typed
<1>2. RootTower'
  BY DEF IInv, RootTower
<1>3. ProofTower' /\ Climbed' /\ Aligned' /\ Included'
  BY DEF ProofTower, Climbed, Aligned, Included, Proving
<1> QED
  BY <1>1, <1>2, <1>3 DEF IInv

LEMMA ProofStartKeeps ==
    IInv /\ ProofStart => IInv'
<1> SUFFICES ASSUME IInv, ProofStart
             PROVE  IInv'
  OBVIOUS
<1> USE DEF ProofStart
<1>1. /\ call.block \in Seq(Claims) /\ call.txs \in Seq(Claims) /\ call.index \in Int
      /\ proof = <<>> /\ Len(proof) = 0
      /\ Len(call.txs) \in Nat
  BY CallLists, SmallLists, LenProperties DEF IInv, Typed
<1>2. /\ IsSeq(levels') /\ Len(levels') = 1 /\ levels'[1] = Leaves(call.txs)
      /\ IsSeq(path') /\ Len(path') = 1 /\ path'[1] = call.index
  BY SmallLists
<1>3. Typed'
  BY DEF IInv, Typed
<1>4. RootTower'
  BY DEF IInv, RootTower
<1>5. ProofTower'
  <2>1. Tower(levels', call.txs)
    BY <1>1, FirstLevel
  <2>2. Len(levels'[1]) = Len(call.txs)
    BY <1>1, <1>2, LeavesShape
  <2>3. path'[1] \in 0 .. Len(levels'[1]) - 1
    BY <1>1, <1>2, <2>2 DEF InRange
  <2> QED
    BY <1>1, <1>2, <2>1, <2>3 DEF ProofTower
<1>6. Climbed'
  BY DEF Climbed
<1>7. Aligned'
  <2> SUFFICES ASSUME Len(call.txs) = Len(call.block)
               PROVE  /\ Len(levels'[1]) = Len(rootLevels[1])
                      /\ levels'[1] = rootLevels[1] <=> call.txs = call.block
    BY <1>2 DEF Aligned
  <2>1. rootLevels[1] = Leaves(call.block)
    BY DEF IInv, RootTower, Tower
  <2> QED
    BY <1>1, <1>2, <2>1, LeavesShape, LeavesInjective
<1>8. Included'
  BY DEF Included
<1> QED
  BY <1>3, <1>4, <1>5, <1>6, <1>7, <1>8 DEF IInv

LEMMA ProofLevelKeeps ==
    IInv /\ ProofLevel => IInv'
<1> SUFFICES ASSUME IInv, ProofLevel
             PROVE  IInv'
  OBVIOUS
<1> USE DEF ProofLevel
<1> DEFINE n == Len(levels)
<1>1. /\ Tower(levels, call.txs) /\ Top(levels) = levels[n]
      /\ n \in Nat /\ n >= 1 /\ IsSeq(levels[n]) /\ Len(levels[n]) > 1 /\ Len(levels[n]) > 0
      /\ IsSeq(path) /\ Len(path) = n /\ Top(path) = path[n]
      /\ IsSeq(proof) /\ Len(proof) = n - 1
      /\ path[n] \in 0 .. Len(levels[n]) - 1
  BY SeqShape DEF IInv, Typed, ProofTower, Proving, Tower, Top
<1>2. /\ Tower(levels', call.txs) /\ Len(levels') = n + 1
      /\ \A k \in 1 .. n : levels'[k] = levels[k]
      /\ levels'[n + 1] = Parents(levels[n])
  BY <1>1, TowerGrows
<1>3. /\ IsSeq(path') /\ Len(path') = n + 1
      /\ \A k \in 1 .. n : path'[k] = path[k]
      /\ path'[n + 1] = path[n] \div 2
  BY <1>1, SeqAppend
<1>4. /\ IsSeq(proof') /\ Len(proof') = n
      /\ \A k \in 1 .. n - 1 : proof'[k] = proof[k]
      /\ proof'[n] = ProofStep(levels[n], path[n])
  <2>1. proof' = Append(proof, ProofStep(levels[n], path[n]))
    BY <1>1
  <2>2. Len(proof) + 1 = n
    BY <1>1
  <2> QED
    BY <1>1, <2>1, <2>2, SeqAppend
<1> HIDE DEF n
<1>5. Typed'
  BY <1>1, <1>4 DEF IInv, Typed
<1>6. RootTower'
  BY DEF IInv, RootTower
<1>7. ProofTower'
  <2>1. path[n] \div 2 \in 0 .. Len(Parents(levels[n])) - 1
    BY <1>1, ParentOf, Zenon
  <2>2. \A k \in 1 .. n + 1 : path'[k] \in 0 .. Len(levels'[k]) - 1
    <3>1. \A k \in 1 .. n : path[k] \in 0 .. Len(levels[k]) - 1
      BY <1>1 DEF IInv, ProofTower, Proving
    <3> QED
      BY <1>1, <1>2, <1>3, <2>1, <3>1
  <2>3. \A k \in 1 .. n : /\ path'[k + 1] = path'[k] \div 2
                         /\ proof'[k] = ProofStep(levels'[k], path'[k])
    <3>1. \A k \in 1 .. n - 1 : /\ path[k + 1] = path[k] \div 2
                               /\ proof[k] = ProofStep(levels[k], path[k])
      BY <1>1 DEF IInv, ProofTower, Proving
    <3> SUFFICES ASSUME NEW k \in 1 .. n
                 PROVE  /\ path'[k + 1] = path'[k] \div 2
                        /\ proof'[k] = ProofStep(levels'[k], path'[k])
      OBVIOUS
    <3>2. CASE k = n
      BY <1>1, <1>2, <1>3, <1>4, <3>2
    <3>3. CASE k # n
      <4>1. k \in 1 .. n - 1 /\ k + 1 \in 1 .. n
        BY <1>1, <3>3
      <4> QED
        BY <1>2, <1>3, <1>4, <3>1, <4>1
    <3> QED
      BY <3>2, <3>3
  <2>4. InRange(call.index, call.txs) /\ path'[1] = call.index
    BY <1>1, <1>3 DEF IInv, ProofTower, Proving
  <2> QED
    BY <1>2, <1>3, <1>4, <2>2, <2>3, <2>4 DEF ProofTower
<1>8. Climbed'
  BY DEF Climbed
<1>9. Aligned'
  <2> SUFFICES ASSUME Len(call.txs) = Len(call.block),
                      NEW k \in 1 .. n + 1, k <= Len(rootLevels)
               PROVE  /\ Len(levels'[k]) = Len(rootLevels[k])
                      /\ levels'[k] = rootLevels[k] <=> call.txs = call.block
    BY <1>2 DEF Aligned
  <2>1. \A j \in 1 .. n : j <= Len(rootLevels) =>
          /\ Len(levels[j]) = Len(rootLevels[j])
          /\ levels[j] = rootLevels[j] <=> call.txs = call.block
    BY DEF IInv, Aligned, Proving, n
  <2>2. CASE k <= n
    BY <1>1, <1>2, <2>1, <2>2
  <2>3. CASE k = n + 1
    <3>1. /\ Len(rootLevels) \in Nat /\ n \in 1 .. Len(rootLevels) - 1
          /\ rootLevels[n + 1] = Parents(rootLevels[n])
          /\ IsSeq(rootLevels[n]) /\ Len(rootLevels[n]) > 1
      <4>1. Len(rootLevels) \in Nat
        BY SeqShape DEF IInv, RootTower, Tower
      <4>2. n \in 1 .. Len(rootLevels) - 1 /\ n \in 1 .. Len(rootLevels)
        BY <1>1, <2>3, <4>1
      <4> QED
        BY <4>1, <4>2 DEF IInv, RootTower, Tower
    <3>2. /\ Len(levels[n]) = Len(rootLevels[n])
          /\ levels[n] = rootLevels[n] <=> call.txs = call.block
      BY <1>1, <2>1, <3>1
    <3>3. Len(Parents(levels[n])) = Len(Parents(rootLevels[n]))
      BY <1>1, <3>1, <3>2, ParentsShape, Zenon
    <3>4. Parents(levels[n]) = Parents(rootLevels[n]) <=> levels[n] = rootLevels[n]
      BY <1>1, <3>1, <3>2, ParentsInjective
    <3> QED
      BY <1>2, <2>3, <3>1, <3>2, <3>3, <3>4
  <2>4. k <= n \/ k = n + 1
    BY <1>1
  <2> QED
    BY <2>2, <2>3, <2>4
<1>10. Included'
  BY DEF Included
<1> QED
  BY <1>5, <1>6, <1>7, <1>8, <1>9, <1>10 DEF IInv

(* The nodes of the block's tree, once it has any.                          *)
LEMMA BlockNodes ==
    ASSUME IInv, NEW k \in 1 .. Len(rootLevels), NEW i \in 1 .. Len(rootLevels[k])
    PROVE  /\ k = 1 => i \in 1 .. Len(call.block) /\ rootLevels[k][i] = <<call.block[i]>>
           /\ k # 1 => /\ k - 1 \in 1 .. Len(rootLevels)
                       /\ \E x, y \in 1 .. Len(rootLevels[k - 1]) :
                             rootLevels[k][i] = <<rootLevels[k - 1][x], rootLevels[k - 1][y]>>
<1>1. call.block \in Seq(Claims) /\ Tower(rootLevels, call.block)
  BY CallLists DEF IInv, Typed, RootTower
<1>2. Len(call.block) > 0
  <2>1. CASE k = 1
    <3>1. Len(rootLevels[k]) = Len(call.block)
      BY <1>1, <2>1, LeavesShape DEF Tower
    <3> QED
      BY <1>1, <3>1, LenProperties
  <2>2. CASE k # 1
    <3>1. Len(rootLevels) \in Nat
      BY <1>1, SeqShape DEF Tower
    <3>2. 1 \in 1 .. Len(rootLevels) - 1
      BY <2>2, <3>1
    <3>3. Len(rootLevels[1]) > 1 /\ rootLevels[1] = Leaves(call.block)
      BY <1>1, <3>2 DEF Tower
    <3>4. Len(Leaves(call.block)) = Len(call.block) /\ Len(call.block) \in Nat
      BY <1>1, LeavesShape, LenProperties
    <3> QED
      BY <3>3, <3>4
  <2> QED
    BY <2>1, <2>2
<1> DEFINE list == call.block
           tower == rootLevels
<1>3. /\ list \in Seq(Claims) /\ Len(list) > 0 /\ Tower(tower, list)
      /\ k \in 1 .. Len(tower) /\ i \in 1 .. Len(tower[k])
  BY <1>1, <1>2
<1> HIDE DEF list, tower
<1>4. /\ k = 1 => i \in 1 .. Len(list) /\ tower[k][i] = <<list[i]>>
      /\ k # 1 => /\ k - 1 \in 1 .. Len(tower)
                  /\ \E x, y \in 1 .. Len(tower[k - 1]) :
                        tower[k][i] = <<tower[k - 1][x], tower[k - 1][y]>>
  BY ONLY <1>3, NodeShape
<1> QED
  BY <1>4 DEF list, tower

LEMMA ProofReturnKeeps ==
    IInv /\ ProofReturn => IInv'
<1> SUFFICES ASSUME IInv, ProofReturn
             PROVE  IInv'
  OBVIOUS
<1> USE DEF ProofReturn
<1>1. Typed'
  BY DEF IInv, Typed
<1>2. RootTower'
  BY DEF IInv, RootTower
<1>3. ProofTower'
  BY DEF IInv, ProofTower, Proving
<1>4. Climbed'
  <2>1. /\ call.txs \in Seq(Claims) /\ Len(call.txs) \in Nat /\ call.index \in Int
        /\ call.index + 1 \in 1 .. Len(call.txs)
    BY CallLists, LenProperties DEF IInv, Typed, ProofTower, Proving, InRange
  <2>2. levels[1] = Leaves(call.txs) /\ path[1] = call.index
    BY DEF IInv, ProofTower, Proving, Tower
  <2>3. levels[1][path[1] + 1] = <<call.txs[call.index + 1]>>
    BY <2>1, <2>2, LeavesShape
  <2>4. current' = <<call.claimed>> /\ checked = 0
    BY DEF TransactionHash, IInv, Typed
  <2>5. <<call.claimed>> = <<call.txs[call.index + 1]>> <=> Claimed
    BY SmallLists DEF Claimed
  <2>6. OnPath' <=> Claimed'
    BY <2>3, <2>4, <2>5 DEF OnPath, Claimed
  <2> QED
    BY <2>6 DEF Climbed
<1>5. Aligned'
  BY DEF IInv, Aligned, Proving
<1>6. Included'
  <2> SUFFICES ASSUME NEW k \in 1 .. Len(rootLevels), NEW i \in 1 .. Len(rootLevels[k]),
                      rootLevels[k][i] = <<call.claimed>>
               PROVE  IsIncluded
    BY LeafIsNoPair DEF Included, IsIncluded, TransactionHash, EmptyRoot
  <2>1. /\ k = 1 => i \in 1 .. Len(call.block) /\ rootLevels[k][i] = <<call.block[i]>>
        /\ k # 1 => /\ k - 1 \in 1 .. Len(rootLevels)
                    /\ \E x, y \in 1 .. Len(rootLevels[k - 1]) :
                          rootLevels[k][i] = <<rootLevels[k - 1][x], rootLevels[k - 1][y]>>
    BY BlockNodes
  <2>2. k = 1
    BY <2>1, LeafIsNoPair
  <2>3. i \in 1 .. Len(call.block) /\ <<call.block[i]>> = <<call.claimed>>
    BY <2>1, <2>2
  <2> QED
    BY <2>3 DEF IsIncluded
<1> QED
  BY <1>1, <1>2, <1>3, <1>4, <1>5, <1>6 DEF IInv

LEMMA VerifyStepKeeps ==
    IInv /\ VerifyStep => IInv'
<1> SUFFICES ASSUME IInv, VerifyStep
             PROVE  IInv'
  OBVIOUS
<1> USE DEF VerifyStep
<1> DEFINE k == checked + 1
<1>1. Typed'
  BY DEF IInv, Typed
<1>2. RootTower'
  BY DEF IInv, RootTower
<1>3. ProofTower'
  BY DEF IInv, ProofTower, Proving
<1>4. Climbed'
  <2>1. k \in 1 .. Len(proof) /\ Len(proof) \in Nat /\ Len(levels) = Len(proof) + 1
    BY DEF IInv, Typed, ProofTower, Proving
  <2>2. /\ IsSeq(levels[k]) /\ Len(levels[k]) > 1 /\ levels[k + 1] = Parents(levels[k])
        /\ path[k] \in 0 .. Len(levels[k]) - 1 /\ path[k + 1] = path[k] \div 2
        /\ proof[k] = ProofStep(levels[k], path[k])
    <3>1. k \in 1 .. Len(levels) - 1 /\ k \in 1 .. Len(levels) /\ k \in 1 .. Len(path)
      BY <2>1 DEF IInv, ProofTower, Proving
    <3> HIDE DEF k
    <3> QED
      BY <2>1, <3>1 DEF IInv, ProofTower, Proving, Tower
  <2>3. current' = Climb(current, ProofStep(levels[k], path[k])) /\ checked' + 1 = k + 1
    BY <2>2
  <2>4. current = levels[k][path[k] + 1] <=> Claimed
    BY DEF IInv, Climbed, OnPath
  <2> HIDE DEF k
  <2>5. current' = Parents(levels[k])[path[k] \div 2 + 1] <=> current = levels[k][path[k] + 1]
    BY <2>2, <2>3, ClimbToParent
  <2>6. OnPath' <=> Claimed'
    BY <2>2, <2>3, <2>4, <2>5 DEF OnPath, Claimed
  <2> QED
    BY <2>6 DEF IInv, Climbed
<1>5. Aligned'
  BY DEF IInv, Aligned, Proving
<1>6. Included'
  <2>1. PICK a, b : current' = <<a, b>> /\ (a = current \/ b = current)
    BY DEF Climb, HashPair
  <2> SUFFICES ASSUME NEW l \in 1 .. Len(rootLevels), NEW i \in 1 .. Len(rootLevels[l]),
                      rootLevels[l][i] = current'
               PROVE  IsIncluded
    BY <2>1, LeafIsNoPair DEF Included, IsIncluded, EmptyRoot
  <2>2. /\ l = 1 => i \in 1 .. Len(call.block) /\ rootLevels[l][i] = <<call.block[i]>>
        /\ l # 1 => /\ l - 1 \in 1 .. Len(rootLevels)
                    /\ \E x, y \in 1 .. Len(rootLevels[l - 1]) :
                          rootLevels[l][i] = <<rootLevels[l - 1][x], rootLevels[l - 1][y]>>
    BY BlockNodes
  <2>3. l # 1
    BY <2>1, <2>2, LeafIsNoPair
  <2>4. PICK x \in 1 .. Len(rootLevels[l - 1]), y \in 1 .. Len(rootLevels[l - 1]) :
            rootLevels[l][i] = <<rootLevels[l - 1][x], rootLevels[l - 1][y]>>
    BY <2>2, <2>3
  <2>5. rootLevels[l - 1][x] = current \/ rootLevels[l - 1][y] = current
    BY <2>1, <2>4, PairsEqual
  <2> QED
    BY <2>2, <2>3, <2>5 DEF IInv, Included
<1> QED
  BY <1>1, <1>2, <1>3, <1>4, <1>5, <1>6 DEF IInv

LEMMA VerifyReturnKeeps ==
    IInv /\ VerifyReturn => IInv'
<1> SUFFICES ASSUME IInv, VerifyReturn
             PROVE  IInv'
  OBVIOUS
<1> USE DEF VerifyReturn
<1>1. Typed'
  BY DEF IInv, Typed
<1>2. RootTower'
  BY DEF IInv, RootTower
<1>3. ProofTower'
  BY DEF IInv, ProofTower, Proving
<1>4. Climbed'
  BY DEF IInv, Climbed, OnPath, Claimed
<1>5. Aligned'
  BY DEF IInv, Aligned, Proving
<1>6. Included'
  BY DEF IInv, Included, IsIncluded
<1> QED
  BY <1>1, <1>2, <1>3, <1>4, <1>5, <1>6 DEF IInv

LEMMA Inductive ==
    IInv /\ [Next]_vars => IInv'
<1>1. IInv /\ UNCHANGED vars => IInv'
  BY DEF vars, IInv, Typed, RootTower, ProofTower, Climbed, Aligned, Included, Proving,
     OnPath, Claimed, IsIncluded
<1> QED
  BY <1>1, RootLevelKeeps, RootReturnKeeps, ProofRefusedKeeps, ProofStartKeeps,
     ProofLevelKeeps, ProofReturnKeeps, VerifyStepKeeps, VerifyReturnKeeps DEF Next

LEMMA Invariant ==
    Spec => []IInv
BY Initially, Inductive, PTL DEF Spec

-----------------------------------------------------------------------------
(* Theorems *)

(* Each loop keeps its levels, its position and its proof in step.          *)
THEOREM TypeCorrect ==
    Spec => []TypeOK
<1>1. IInv => TypeOK
  BY DEF IInv, Typed, RootTower, ProofTower, Tower, Proving, TypeOK
<1> QED
  BY <1>1, Invariant, PTL

(* Trees over lists of one length are equally high.                         *)
LEMMA SameHeight ==
    ASSUME IInv, pc \in {"verify", "done"}, Len(call.txs) = Len(call.block)
    PROVE  /\ Len(levels) = Len(rootLevels)
           /\ Len(Top(levels)) = 1 /\ Len(Top(rootLevels)) = 1
           /\ root = Top(rootLevels)[1]
           /\ Top(levels) = Top(rootLevels) <=> call.txs = call.block
<1> DEFINE n == Len(levels)
           m == Len(rootLevels)
<1>1. /\ n \in Nat /\ n >= 1 /\ Top(levels) = levels[n]
      /\ IsSeq(levels[n]) /\ Len(levels[n]) <= 1 /\ Len(levels[n]) \in Nat
      /\ \A k \in 1 .. n - 1 : Len(levels[k]) > 1
  BY SeqShape DEF IInv, ProofTower, Proving, Tower, Top, Climbed
<1>2. /\ m \in Nat /\ m >= 1 /\ Top(rootLevels) = rootLevels[m]
      /\ IsSeq(rootLevels[m]) /\ Len(rootLevels[m]) <= 1
      /\ \A k \in 1 .. m - 1 : Len(rootLevels[k]) > 1
  BY SeqShape DEF IInv, RootTower, Tower, Top
<1>3. \A k \in 1 .. n : k <= m => Len(levels[k]) = Len(rootLevels[k])
                               /\ (levels[k] = rootLevels[k] <=> call.txs = call.block)
  BY DEF IInv, Aligned, Proving
<1>4. path[n] \in 0 .. Len(levels[n]) - 1
  BY <1>1 DEF IInv, ProofTower, Proving
<1> HIDE DEF n, m
<1>5. Len(levels[n]) = 1
  BY <1>1, <1>4, OneElement
<1>6. call.block # <<>>
  <2>1. Len(call.txs) > 0
    BY CallLists, LenProperties DEF IInv, Typed, ProofTower, Proving, InRange
  <2> QED
    BY <2>1, SmallLists
<1>7. root = Top(rootLevels)[1]
  BY <1>6 DEF IInv, RootTower
<1>8. n = m
  BY <1>1, <1>2, <1>3
<1> QED
  BY <1>1, <1>2, <1>3, <1>5, <1>7, <1>8 DEF n, m

(* A proof for a position of the block verifies for its transaction alone.  *)
THEOREM ProofsAreExact ==
    Spec => []ProofVerifies
<1>1. IInv => ProofVerifies
  <2> SUFFICES ASSUME IInv, pc = "done", call.txs = call.block
               PROVE  verdict <=> call.claimed = call.txs[call.index + 1]
    BY DEF ProofVerifies
  <2> DEFINE n == Len(levels)
  <2>1. Len(Top(levels)) = 1 /\ Top(levels) = Top(rootLevels) /\ root = Top(rootLevels)[1]
    BY SameHeight
  <2>2. /\ n \in Nat /\ n >= 1 /\ Top(levels) = levels[n] /\ checked + 1 = n
        /\ path[n] \in 0 .. Len(levels[n]) - 1
    BY SeqShape DEF IInv, Typed, ProofTower, Proving, Tower, Top, Climbed
  <2> HIDE DEF n
  <2>3. path[n] = 0
    <3>1. path[n] \in 0 .. 1 - 1
      BY <2>1, <2>2, Zenon
    <3> QED
      BY <3>1
  <2>4. current = levels[n][1] <=> Claimed
    BY <2>2, <2>3 DEF IInv, Climbed, OnPath
  <2>5. verdict <=> current = root
    BY DEF IInv, Climbed
  <2> QED
    BY <2>1, <2>2, <2>4, <2>5 DEF Claimed
<1> QED
  BY <1>1, Invariant, PTL

(* What a client accepts is in the block, whatever the proof was made of.   *)
THEOREM AcceptedAreIncluded ==
    Spec => []AcceptedIsIncluded
<1>1. IInv => AcceptedIsIncluded
  <2> SUFFICES ASSUME IInv, pc = "done", verdict
               PROVE  IsIncluded
    BY DEF AcceptedIsIncluded, IsIncluded
  <2>1. current = root
    BY DEF IInv, Climbed
  <2>2. CASE call.block = <<>>
    <3>1. current # EmptyRoot
      BY DEF IInv, Included
    <3> QED
      BY <2>1, <2>2, <3>1 DEF IInv, RootTower
  <2>3. CASE call.block # <<>>
    <3>1. call.block \in Seq(Claims) /\ Tower(rootLevels, call.block) /\ Len(call.block) > 0
      BY <2>3, CallLists, LenProperties, EmptySeq DEF IInv, Typed, RootTower
    <3>2. Len(rootLevels) \in 1 .. Len(rootLevels) /\ Top(rootLevels) = rootLevels[Len(rootLevels)]
      BY <3>1, SeqShape DEF Tower, Top
    <3>3. 1 \in 1 .. Len(rootLevels[Len(rootLevels)])
      BY <3>1, <3>2, LevelNotEmpty
    <3>4. root = rootLevels[Len(rootLevels)][1]
      BY <2>3, <3>2 DEF IInv, RootTower
    <3> QED
      BY <2>1, <3>2, <3>3, <3>4 DEF IInv, Included
  <2> QED
    BY <2>2, <2>3
<1> QED
  BY <1>1, Invariant, PTL

(* Two lists with one root differ only in repetitions of what the block has. *)
THEOREM CollisionsAreRepetitions ==
    Spec => []CollisionsRepeatTheEnd
<1>1. IInv => CollisionsRepeatTheEnd
  <2> SUFFICES ASSUME IInv, pc = "done", Top(levels)[1] = root
               PROVE  Agree(call.block, call.txs)
    BY CallLists, LenProperties DEF CollisionsRepeatTheEnd, Agree, IInv, Typed
  <2>1. /\ call.block \in Seq(Claims) /\ Tower(rootLevels, call.block)
        /\ call.txs \in Seq(Claims) /\ Tower(levels, call.txs)
        /\ Len(call.txs) > 0
    BY CallLists, LenProperties DEF IInv, Typed, RootTower, ProofTower, Proving, InRange
  <2>2. Len(levels) \in 1 .. Len(levels) /\ Top(levels) = levels[Len(levels)]
    BY <2>1, SeqShape DEF Tower, Top
  <2> DEFINE n == Len(levels)
  <2>3. /\ Len(levels[n]) > 0 /\ Len(levels[n]) \in Nat
        /\ n = 1 => levels[n][1] = <<call.txs[1]>>
        /\ n # 1 => \E a, b : levels[n][1] = <<a, b>>
    <3>0. n \in 1 .. Len(levels)
      BY <2>2
    <3> HIDE DEF n
    <3>1. Len(levels[n]) > 0 /\ Len(levels[n]) \in Nat
      BY <2>1, <3>0, LevelNotEmpty
    <3>2. /\ n = 1 => levels[n][1] = <<call.txs[1]>>
          /\ n # 1 => \E a, b : levels[n][1] = <<a, b>>
      BY ONLY <2>1, <3>0, FirstNode
    <3> QED
      BY <3>1, <3>2
  <2>4. Top(levels)[1] # EmptyRoot
    BY <2>2, <2>3, LeafIsNoPair DEF EmptyRoot
  <2>5. Len(Top(levels)) = 1
    BY <2>2, <2>3 DEF IInv, Climbed
  <2>6. call.block # <<>> /\ Len(Top(rootLevels)) <= 1 /\ root = Top(rootLevels)[1]
    BY <2>4 DEF IInv, RootTower
  <2>7. Len(call.block) > 0
    BY <2>1, <2>6, LenProperties, EmptySeq
  <2>8. Len(Top(rootLevels)) = 1
    <3>1. Len(rootLevels) \in 1 .. Len(rootLevels)
      BY <2>1, SeqShape DEF Tower
    <3>2. Len(Top(rootLevels)) > 0 /\ Len(Top(rootLevels)) \in Nat
      BY <2>1, <2>7, <3>1, LevelNotEmpty DEF Top
    <3> DEFINE size == Len(Top(rootLevels))
    <3>3. size <= 1 /\ size > 0 /\ size \in Nat
      BY <2>6, <3>2
    <3> HIDE DEF size
    <3>4. size = 1
      BY <3>3
    <3> QED
      BY <3>4 DEF size
  <2> QED
    BY <2>1, <2>5, <2>6, <2>7, <2>8, TopsAgree
<1> QED
  BY <1>1, Invariant, PTL

-----------------------------------------------------------------------------
(* The reference tree *)

(* FullTree doubles, and the reference builds a row of nodes on the other.   *)
DoubleFirst(nothing) == 1
DoubleThen(nothing, h, before) == 2 * before

Doubling == INSTANCE Recursion WITH First <- DoubleFirst, Then <- DoubleThen

RowFirst(list) == [i \in 1 .. TreeWidth(list, 0) |-> TransactionHash(list[i])]
RowThen(list, h, below) ==
    [i \in 1 .. TreeWidth(list, h) |->
        HashPair(below[2 * i - 1],
                 below[IF 2 * i > TreeWidth(list, h - 1) THEN 2 * i - 1 ELSE 2 * i])]

Rows == INSTANCE Recursion WITH First <- RowFirst, Then <- RowThen

LEMMA FullTreeIsRun ==
    ASSUME NEW h \in Nat
    PROVE  \E run : Doubling!IsRun(0, run, h) /\ FullTree(h) = run[h]
<1> DEFINE chosen == CHOOSE leaves : leaves =
                         [k \in 0 .. h |-> IF k = 0 THEN 1 ELSE 2 * leaves[k - 1]]
<1>1. \A run : Doubling!IsRun(0, run, h) <=>
                   run = [k \in 0 .. h |-> IF k = 0 THEN 1 ELSE 2 * run[k - 1]]
  BY DEF Doubling!IsRun, DoubleFirst, DoubleThen
<1>2. \E run : Doubling!IsRun(0, run, h)
  BY Doubling!RunExists
<1>3. Doubling!IsRun(0, chosen, h)
  BY <1>1, <1>2
<1>4. FullTree(h) = chosen[h]
  BY DEF FullTree
<1> QED
  BY <1>3, <1>4

LEMMA FullTreeDoubles ==
    /\ FullTree(0) = 1
    /\ \A h \in Nat : FullTree(h) \in Nat \ {0} /\ FullTree(h + 1) = 2 * FullTree(h)
<1>1. FullTree(0) = 1
  <2>1. PICK run : Doubling!IsRun(0, run, 0) /\ FullTree(0) = run[0]
    BY FullTreeIsRun
  <2>2. run[0] = DoubleFirst(0)
    BY ONLY <2>1, 0 \in Nat, Doubling!RunSteps
  <2> QED
    BY <2>1, <2>2 DEF DoubleFirst
<1>2. ASSUME NEW h \in Nat PROVE FullTree(h + 1) = 2 * FullTree(h)
  <2>1. PICK f : Doubling!IsRun(0, f, h) /\ FullTree(h) = f[h]
    BY FullTreeIsRun
  <2> DEFINE n == h + 1
  <2>2. n \in Nat /\ n \in 1 .. n /\ n - 1 = h /\ h <= h /\ h <= n /\ h \in Nat
    OBVIOUS
  <2> HIDE DEF n
  <2>3. PICK g : Doubling!IsRun(0, g, n) /\ FullTree(n) = g[n]
    BY <2>2, FullTreeIsRun
  <2>4. f[h] = g[h]
    <3> DEFINE c == 0
    <3>1. c = 0
      OBVIOUS
    <3> HIDE DEF c
    <3>2. Doubling!IsRun(c, f, h) /\ Doubling!IsRun(c, g, n)
      BY ONLY <2>1, <2>3, <3>1
    <3>3. DoubleFirst(c) = DoubleFirst(c)
           /\ \A i \in 1 .. h : \A x : DoubleThen(c, i, x) = DoubleThen(c, i, x)
      OBVIOUS
    <3> QED
      BY ONLY <2>2, <3>2, <3>3, Doubling!RunsAgree
  <2>5. \A i \in 1 .. n : g[i] = DoubleThen(0, i, g[i - 1])
    BY ONLY <2>2, <2>3, Doubling!RunSteps
  <2>6. g[n] = DoubleThen(0, n, g[h])
    BY ONLY <2>2, <2>5
  <2> QED
    BY <2>1, <2>3, <2>4, <2>6 DEF n, DoubleThen
<1> DEFINE P == {h \in Nat : FullTree(h) \in Nat \ {0}}
<1>3. 0 \in P
  BY <1>1
<1>4. ASSUME NEW h \in Nat, h \in P PROVE h + 1 \in P
  <2>1. FullTree(h) \in Nat \ {0} /\ FullTree(h + 1) = 2 * FullTree(h)
    BY <1>2, <1>4
  <2> DEFINE leaves == FullTree(h)
             more == FullTree(h + 1)
  <2>2. leaves \in Nat \ {0} /\ more = 2 * leaves
    BY <2>1
  <2> HIDE DEF leaves, more
  <2>3. more \in Nat \ {0}
    BY <2>2
  <2> QED
    BY <2>3 DEF more
<1> HIDE DEF P
<1>5. \A h \in Nat : h \in P
  BY <1>3, <1>4, Doubling!Induction
<1> QED
  BY <1>1, <1>2, <1>5 DEF P

(* To divide by twice as much, rounding up, is to divide and to halve.       *)
LEMMA RoundedUp ==
    ASSUME NEW n \in Nat, NEW s \in Nat \ {0}
    PROVE  /\ (n + s - 1) \div s \in Nat
           /\ (n + 2 * s - 1) \div (2 * s) = ((n + s - 1) \div s + 1) \div 2
<1> DEFINE q == (n + s - 1) \div s
           r == (n + s - 1) % s
           u == (q + 1) \div 2
           v == (q + 1) % 2
           m == s * q
<1>1. n + s - 1 = m + r /\ r \in 0 .. s - 1 /\ q \in Nat
  OBVIOUS
<1>2. q + 1 = 2 * u + v /\ v \in 0 .. 1 /\ u \in Nat
  BY <1>1
<1>3. n + 2 * s - 1 = s * (q + 1) + r
  <2>1. s * (q + 1) = m + s
    BY <1>1
  <2>2. m \in Int
    BY <1>1
  <2> HIDE DEF m
  <2> QED
    BY <1>1, <2>1, <2>2
<1> DEFINE rest == s * v + r
           twice == 2 * s
<1>4. rest \in 0 .. twice - 1 /\ twice \in Nat \ {0}
  <2>1. v = 0 \/ v = 1
    BY <1>2
  <2> HIDE DEF v
  <2>2. CASE v = 0
    BY <1>1, <2>2
  <2>3. CASE v = 1
    BY <1>1, <2>3
  <2> QED
    BY <2>1, <2>2, <2>3
<1>5. s * (q + 1) = twice * u + s * v
  <2> HIDE DEF q, u, v
  <2>1. s * (q + 1) = s * (2 * u + v)
    BY <1>2
  <2>2. s * (2 * u + v) = (2 * s) * u + s * v
    BY <1>2
  <2> QED
    BY <2>1, <2>2
<1>6. n + 2 * s - 1 = twice * u + rest
  <2> DEFINE x == twice * u
             y == s * v
             z == s * (q + 1)
  <2>1. x \in Int /\ y \in Int /\ z = x + y /\ n + 2 * s - 1 = z + r /\ r \in Int
    <3>1. x \in Int /\ y \in Int
      BY <1>2, <1>4
    <3> QED
      BY <1>1, <1>3, <1>5, <3>1
  <2>2. rest = y + r
    OBVIOUS
  <2> HIDE DEF x, y, z, r, rest
  <2>3. n + 2 * s - 1 = x + rest
    BY <2>1, <2>2
  <2> QED
    BY <2>3 DEF x
<1> HIDE DEF rest, twice, u
<1>7. (twice * u + rest) \div twice = u
  BY <1>2, <1>4
<1>8. (n + 2 * s - 1) \div twice = u
  BY <1>6, <1>7
<1> QED
  BY <1>1, <1>8 DEF twice, u

LEMMA WidthHalves ==
    ASSUME NEW list, Len(list) \in Nat
    PROVE  /\ TreeWidth(list, 0) = Len(list)
           /\ \A h \in Nat : /\ TreeWidth(list, h) \in Nat
                             /\ TreeWidth(list, h + 1) = (TreeWidth(list, h) + 1) \div 2
<1> DEFINE n == Len(list)
<1>1. TreeWidth(list, 0) = n
  <2>1. TreeWidth(list, 0) = (n + 1 - 1) \div 1 /\ n \in Nat
    BY FullTreeDoubles DEF TreeWidth
  <2> HIDE DEF n
  <2> QED
    BY <2>1
<1>2. ASSUME NEW h \in Nat
      PROVE  /\ TreeWidth(list, h) \in Nat
             /\ TreeWidth(list, h + 1) = (TreeWidth(list, h) + 1) \div 2
  <2> DEFINE s == FullTree(h)
             more == FullTree(h + 1)
  <2>1. s \in Nat \ {0} /\ more = 2 * s
    BY FullTreeDoubles
  <2>2. TreeWidth(list, h) = (n + s - 1) \div s /\ TreeWidth(list, h + 1) = (n + more - 1) \div more
    BY DEF TreeWidth
  <2> HIDE DEF n, s, more
  <2>3. n \in Nat
    BY DEF n
  <2>4. /\ (n + s - 1) \div s \in Nat
        /\ (n + 2 * s - 1) \div (2 * s) = ((n + s - 1) \div s + 1) \div 2
    BY ONLY <2>1, <2>3, RoundedUp
  <2> QED
    BY <2>1, <2>2, <2>4
<1> QED
  BY <1>1, <1>2

(* The levels of a tower are as wide as the rows of the reference.           *)
LEMMA LevelWidths ==
    ASSUME NEW S, NEW list \in Seq(S), list # <<>>, NEW tower, Tower(tower, list)
    PROVE  \A h \in 0 .. Len(tower) - 1 : /\ Len(tower[h + 1]) = TreeWidth(list, h)
                                          /\ TreeWidth(list, h) > 0
                                          /\ TreeWidth(list, h) + h <= Len(list)
<1>1. Len(list) \in Nat /\ Len(list) > 0 /\ Len(tower) \in Nat /\ Len(tower) >= 1
  BY LenProperties, EmptySeq, SeqShape DEF Tower
<1> DEFINE Fits(h) == /\ Len(tower[h + 1]) = TreeWidth(list, h)
                      /\ TreeWidth(list, h) > 0
                      /\ TreeWidth(list, h) + h <= Len(list)
           P == {h \in Nat : h <= Len(tower) - 1 => Fits(h)}
<1>2. 0 \in P
  <2>1. tower[0 + 1] = Leaves(list) /\ Len(Leaves(list)) = Len(list)
    BY LeavesShape DEF Tower
  <2>2. TreeWidth(list, 0) = Len(list)
    BY <1>1, WidthHalves
  <2> QED
    BY <1>1, <2>1, <2>2
<1>3. ASSUME NEW h \in Nat, h \in P PROVE h + 1 \in P
  <2> SUFFICES ASSUME h + 1 <= Len(tower) - 1 PROVE Fits(h + 1)
    OBVIOUS
  <2> DEFINE k == h + 1
             below == tower[k]
             w == TreeWidth(list, h)
             next == TreeWidth(list, k)
  <2>1. k \in 1 .. Len(tower) - 1 /\ k \in 1 .. Len(tower)
    BY <1>1
  <2>2. Len(below) = w /\ w + h <= Len(list) /\ Fits(h)
    BY <1>1, <1>3
  <2>3. w \in Nat /\ next = (w + 1) \div 2
    BY <1>1, WidthHalves
  <2> HIDE DEF k, w, next
  <2>4. IsSeq(below) /\ Len(below) > 1 /\ tower[k + 1] = Parents(below)
    BY <2>1 DEF Tower
  <2> HIDE DEF below
  <2>5. Len(below) > 0
    BY <2>2, <2>3, <2>4
  <2>6. Len(tower[k + 1]) = (w + 1) \div 2
    BY <2>2, <2>4, <2>5, ParentsShape
  <2>7. next > 0 /\ next + k <= Len(list)
    <3>1. w > 1 /\ next <= w - 1 /\ next > 0 /\ next \in Nat
      BY <2>2, <2>3, <2>4
    <3>2. k = h + 1
      BY DEF k
    <3> QED
      BY <1>1, <2>2, <2>3, <3>1, <3>2
  <2>8. Len(tower[k + 1]) = next /\ next > 0 /\ next + k <= Len(list)
    BY <2>3, <2>6, <2>7
  <2> QED
    BY <2>8 DEF k, next
<1>4. \A h \in Nat : h \in P
  <2> HIDE DEF P
  <2> QED
    BY <1>2, <1>3, Doubling!Induction
<1>5. ASSUME NEW h \in 0 .. Len(tower) - 1 PROVE Fits(h)
  BY <1>1, <1>4
<1> QED
  BY <1>5

LEMMA HeightOfTower ==
    ASSUME NEW S, NEW list \in Seq(S), list # <<>>, NEW tower, Tower(tower, list),
           Len(Top(tower)) = 1
    PROVE  TreeHeight(list) = Len(tower) - 1
<1> DEFINE top == Len(tower) - 1
           Is(h) == TreeWidth(list, h) = 1 /\ \A l \in 0 .. h - 1 : TreeWidth(list, l) > 1
<1>1. top \in Nat /\ top + 1 = Len(tower) /\ Len(list) \in Nat
  BY LenProperties, SeqShape DEF Tower
<1>2. \A h \in 0 .. top : /\ Len(tower[h + 1]) = TreeWidth(list, h)
                          /\ TreeWidth(list, h) > 0
                          /\ TreeWidth(list, h) + h <= Len(list)
  BY LevelWidths
<1>3. \A k \in 1 .. top : Len(tower[k]) > 1
  BY DEF Tower
<1>4. Top(tower) = tower[top + 1]
  BY <1>1 DEF Top
<1> HIDE DEF top
<1>5. TreeWidth(list, top) = 1 /\ top \in 0 .. Len(list)
  <2>1. top \in 0 .. top
    BY <1>1
  <2>2. TreeWidth(list, top) = 1 /\ TreeWidth(list, top) + top <= Len(list)
    BY <1>2, <1>4, <2>1
  <2> DEFINE w == TreeWidth(list, top)
             n == Len(list)
  <2>3. w = 1 /\ w + top <= n /\ n \in Nat
    BY <1>1, <2>2
  <2> HIDE DEF w, n
  <2>4. top \in 0 .. n
    BY <1>1, <2>3
  <2> QED
    BY <2>2, <2>4 DEF n
<1>6. ASSUME NEW l \in 0 .. top - 1 PROVE TreeWidth(list, l) > 1
  <2>1. l \in 0 .. top /\ l + 1 \in 1 .. top
    BY <1>1
  <2> QED
    BY <1>2, <1>3, <2>1
<1>7. Is(top)
  BY <1>5, <1>6
<1>8. ASSUME NEW h \in 0 .. Len(list), Is(h) PROVE h = top
  <2>1. ~(h < top)
    <3> SUFFICES ASSUME h < top PROVE FALSE
      OBVIOUS
    <3>1. h \in 0 .. top - 1
      BY <1>1
    <3> QED
      BY <1>6, <1>8, <3>1
  <2>2. ~(top < h)
    <3> SUFFICES ASSUME top < h PROVE FALSE
      OBVIOUS
    <3>1. top \in 0 .. h - 1
      BY <1>1
    <3> QED
      BY <1>5, <1>8, <3>1
  <2> QED
    BY <1>1, <2>1, <2>2
<1>9. TreeHeight(list) = CHOOSE h \in 0 .. Len(list) : Is(h)
  BY DEF TreeHeight
<1> HIDE DEF Is
<1>10. TreeHeight(list) = top
  BY <1>5, <1>7, <1>8, <1>9
<1> QED
  BY <1>10 DEF top

(* A row of the reference over a level is the level above it.                *)
LEMMA RowIsParents ==
    ASSUME NEW list, NEW h, NEW level, IsSeq(level), Len(level) > 0,
           Len(level) = TreeWidth(list, h - 1),
           TreeWidth(list, h) = (Len(level) + 1) \div 2
    PROVE  RowThen(list, h, level) = Parents(level)
<1> DEFINE n == Len(level)
           m == (n + 1) \div 2
           right(i) == IF 2 * i > n THEN 2 * i - 1 ELSE 2 * i
<1>1. n \in Nat /\ m \in Nat
  BY SeqShape
<1>2. /\ Len(Padded(level)) = 2 * m
      /\ \A i \in 1 .. n : Padded(level)[i] = level[i]
      /\ \A i \in 1 .. Len(Padded(level)) : i > n => i = n + 1 /\ Padded(level)[i] = level[n]
  BY PaddedShape
<1>3. IsSeq(Parents(level)) /\ Len(Parents(level)) = m
      /\ \A i \in 1 .. m : Parents(level)[i] = <<Padded(level)[2 * i - 1], Padded(level)[2 * i]>>
  BY ParentsShape
<1>4. RowThen(list, h, level) = [i \in 1 .. m |-> <<level[2 * i - 1], level[right(i)]>>]
  BY DEF RowThen, HashPair
<1>5. ASSUME NEW i \in 1 .. m
      PROVE  Parents(level)[i] = <<level[2 * i - 1], level[right(i)]>>
  <2>1. 2 * i - 1 \in 1 .. n /\ 2 * i \in 1 .. 2 * m
    BY <1>1
  <2> HIDE DEF m, n
  <2>2. Padded(level)[2 * i - 1] = level[2 * i - 1]
    BY <1>2, <2>1
  <2>3. Padded(level)[2 * i] = level[right(i)]
    <3>1. CASE 2 * i > n
      <4>1. 2 * i = n + 1 /\ Padded(level)[2 * i] = level[n]
        BY <1>2, <2>1, <3>1
      <4>2. n = 2 * i - 1
        BY <1>1, <4>1
      <4> QED
        BY <3>1, <4>1, <4>2
    <3>2. CASE ~(2 * i > n)
      <4>1. 2 * i \in 1 .. n
        BY <1>1, <2>1, <3>2
      <4> QED
        BY <1>2, <3>2, <4>1
    <3> QED
      BY <3>1, <3>2
  <2> HIDE DEF right
  <2> QED
    BY <1>3, <2>2, <2>3
<1>6. Parents(level) = [i \in 1 .. m |-> Parents(level)[i]]
  BY <1>3, SeqShape
<1> HIDE DEF m, right
<1> QED
  BY <1>4, <1>5, <1>6

(* The top of a tower is the root of the reference.                          *)
LEMMA ReferenceOfTower ==
    ASSUME NEW S, NEW list \in Seq(S), list # <<>>, NEW tower, Tower(tower, list),
           Len(Top(tower)) = 1
    PROVE  ReferenceRoot(list) = Top(tower)[1]
<1> DEFINE top == Len(tower) - 1
           chosen == CHOOSE node : node =
               [h \in 0 .. top |->
                   [i \in 1 .. TreeWidth(list, h) |->
                       IF h = 0 THEN TransactionHash(list[i])
                       ELSE HashPair(node[h - 1][2 * i - 1],
                                     node[h - 1][IF 2 * i > TreeWidth(list, h - 1)
                                                 THEN 2 * i - 1 ELSE 2 * i])]]
<1>1. top \in Nat /\ top + 1 = Len(tower) /\ Len(list) \in Nat
  BY LenProperties, SeqShape DEF Tower
<1>2. TreeHeight(list) = top
  BY HeightOfTower
<1>3. ReferenceRoot(list) = chosen[top][1]
  BY <1>2 DEF ReferenceRoot
<1> HIDE DEF top
<1>4. \A run : Rows!IsRun(list, run, top) <=> run =
               [h \in 0 .. top |->
                   [i \in 1 .. TreeWidth(list, h) |->
                       IF h = 0 THEN TransactionHash(list[i])
                       ELSE HashPair(run[h - 1][2 * i - 1],
                                     run[h - 1][IF 2 * i > TreeWidth(list, h - 1)
                                                THEN 2 * i - 1 ELSE 2 * i])]]
  BY DEF Rows!IsRun, RowFirst, RowThen
<1>5. \E run : Rows!IsRun(list, run, top)
  BY ONLY <1>1, Rows!RunExists
<1>6. Rows!IsRun(list, chosen, top)
  BY <1>4, <1>5
<1> HIDE DEF chosen
<1>7. chosen[0] = RowFirst(list) /\ \A h \in 1 .. top : chosen[h] = RowThen(list, h, chosen[h - 1])
  BY ONLY <1>1, <1>6, Rows!RunSteps
<1>8. \A h \in 0 .. top : Len(tower[h + 1]) = TreeWidth(list, h) /\ TreeWidth(list, h) > 0
  BY LevelWidths DEF top
<1>9. \A h \in Nat : TreeWidth(list, h + 1) = (TreeWidth(list, h) + 1) \div 2
  BY <1>1, WidthHalves
<1> DEFINE P == {h \in Nat : h <= top => chosen[h] = tower[h + 1]}
<1>10. 0 \in P
  <2>1. TreeWidth(list, 0) = Len(list) /\ tower[0 + 1] = Leaves(list)
    BY <1>1, WidthHalves DEF Tower
  <2> QED
    BY <1>7, <2>1 DEF RowFirst, Leaves
<1>11. ASSUME NEW h \in Nat, h \in P PROVE h + 1 \in P
  <2> SUFFICES ASSUME h + 1 <= top PROVE chosen[h + 1] = tower[h + 1 + 1]
    OBVIOUS
  <2> DEFINE k == h + 1
             level == tower[k]
  <2>1. /\ k \in 1 .. top /\ k - 1 = h /\ h \in 0 .. top /\ k \in 1 .. Len(tower)
        /\ k \in 1 .. Len(tower) - 1
    BY <1>1
  <2>2. chosen[h] = level
    BY <1>11, <2>1
  <2>3. Len(level) = TreeWidth(list, h) /\ TreeWidth(list, h) > 0
    BY <1>8, <2>1
  <2>4. TreeWidth(list, k) = (TreeWidth(list, h) + 1) \div 2
    BY <1>9
  <2> HIDE DEF k
  <2>5. IsSeq(level) /\ tower[k + 1] = Parents(level)
    BY <2>1 DEF Tower
  <2> HIDE DEF level
  <2>6. Len(level) = TreeWidth(list, k - 1) /\ TreeWidth(list, k) = (Len(level) + 1) \div 2
         /\ Len(level) > 0
    BY <2>1, <2>3, <2>4
  <2>7. RowThen(list, k, level) = Parents(level)
    BY ONLY <2>5, <2>6, RowIsParents
  <2>8. chosen[k] = RowThen(list, k, level)
    BY <1>7, <2>1, <2>2
  <2>9. chosen[k] = tower[k + 1]
    BY <2>5, <2>7, <2>8
  <2> QED
    BY <2>9 DEF k
<1> HIDE DEF P
<1>12. top \in P
  BY <1>1, <1>10, <1>11, Rows!Induction
<1>13. chosen[top] = tower[top + 1]
  BY <1>1, <1>12 DEF P
<1> QED
  BY <1>1, <1>3, <1>13 DEF Top

(* RootIsReference: the loop computes the root of the reference tree, and so *)
(* does the operator that the models of chains use.                          *)
THEOREM RootsAreReferences == Spec => []RootIsReference
<1>1. IInv => RootIsReference
  <2> SUFFICES ASSUME IInv, pc = "prove"
               PROVE  root = ReferenceRoot(call.block) /\ root = CalculateMerkleRoot(call.block)
    BY DEF RootIsReference
  <2>1. /\ call.block \in Seq(Claims) /\ Tower(rootLevels, call.block)
        /\ Len(Top(rootLevels)) <= 1
        /\ root = IF call.block = <<>> THEN EmptyRoot ELSE Top(rootLevels)[1]
    BY CallLists DEF IInv, Typed, RootTower
  <2>2. CASE call.block = <<>>
    BY <2>1, <2>2 DEF CalculateMerkleRoot, ReferenceRoot
  <2>3. CASE call.block # <<>>
    <3>1. PICK tower : /\ Tower(tower, call.block) /\ Len(Top(tower)) = 1
                       /\ CalculateMerkleRoot(call.block) = Top(tower)[1]
      BY <2>1, <2>3, RootOfTower
    <3>2. Len(Top(tower)) <= 1
      BY <3>1
    <3>3. Top(tower) = Top(rootLevels)
      BY ONLY <2>1, <3>1, <3>2, TopsEqual
    <3>4. ReferenceRoot(call.block) = Top(tower)[1]
      BY ONLY <2>1, <2>3, <3>1, ReferenceOfTower
    <3> QED
      BY <2>1, <2>3, <3>1, <3>3, <3>4
  <2> QED
    BY <2>2, <2>3
<1> QED
  BY <1>1, Invariant, PTL
=============================================================================
