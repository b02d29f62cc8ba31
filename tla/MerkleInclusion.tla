-------------------------- MODULE MerkleInclusion --------------------------
(***************************************************************************)
(* A light client's question (block/merkle.go, block/merkle_proof.go): is  *)
(* the transaction claimed in the block whose root it knows?  One run of   *)
(* CalculateMerkleRoot over the block's transactions, of                   *)
(* GenerateMerkleProof over the list and index the proof is made for, and  *)
(* of VerifyMerkleProof, each loop iteration a step.  The two lists, the   *)
(* index and the claim are arbitrary: a proof may be made for another      *)
(* block, or for another transaction than the one that is claimed.         *)
(***************************************************************************)
EXTENDS Merkle

CONSTANTS
    Lists,      \* lists of transactions
    Claims,     \* transactions a client asks for
    Indices     \* arguments of GenerateMerkleProof, in range or not

ASSUME ListsAssumption == \A list \in Lists : list \in Seq(Claims)
ASSUME IndicesAssumption == Indices \subseteq Int

VARIABLES
    call,       \* the arguments: block, claimed, txs, index
    pc,         \* the loop that runs
    rootLevels, \* the levels of CalculateMerkleRoot; the code keeps the last
    root,       \* its result
    levels,     \* the levels of GenerateMerkleProof; the code keeps the last
    path,       \* its position on each level; the code keeps the last
    proof,      \* its result
    current,    \* the hash VerifyMerkleProof has come to
    checked,    \* how many steps of the proof it has used
    verdict     \* its result

vars == <<call, pc, rootLevels, root, levels, path, proof, current, checked, verdict>>

CallSet == [block : Lists, claimed : Claims, txs : Lists, index : Indices]

-----------------------------------------------------------------------------
(* CalculateMerkleRoot *)

RootLevel ==
    /\ pc = "root"
    /\ Len(Top(rootLevels)) > 1
    /\ rootLevels' = Append(rootLevels, Parents(Top(rootLevels)))
    /\ UNCHANGED <<call, pc, root, levels, path, proof, current, checked, verdict>>

RootReturn ==
    /\ pc = "root"
    /\ Len(Top(rootLevels)) <= 1
    /\ root' = IF call.block = <<>> THEN EmptyRoot ELSE Top(rootLevels)[1]
    /\ pc' = "prove"
    /\ UNCHANGED <<call, rootLevels, levels, path, proof, current, checked, verdict>>

-----------------------------------------------------------------------------
(* GenerateMerkleProof *)

InRange(index, list) == index >= 0 /\ index < Len(list)

ProofRefused ==
    /\ pc = "prove"
    /\ ~InRange(call.index, call.txs)
    /\ pc' = "refused"
    /\ UNCHANGED <<call, rootLevels, root, levels, path, proof, current, checked, verdict>>

ProofStart ==
    /\ pc = "prove"
    /\ InRange(call.index, call.txs)
    /\ levels' = <<Leaves(call.txs)>>
    /\ path' = <<call.index>>
    /\ pc' = "path"
    /\ UNCHANGED <<call, rootLevels, root, proof, current, checked, verdict>>

(* Mutant: the sides are told by the wrong parity. *)
ProofStepSwapped(level, position) ==
    IF position % 2 = 0
    THEN [hash |-> Padded(level)[position + 2], left |-> TRUE]
    ELSE [hash |-> Padded(level)[position], left |-> FALSE]

(* The sibling of a position, which counts from 0, and its side. *)
ProofStep(level, position) ==
    IF position % 2 = 0
    THEN [hash |-> Padded(level)[position + 2], left |-> FALSE]
    ELSE [hash |-> Padded(level)[position], left |-> TRUE]

(* Mutant: the position is not halved. *)
ProofLevelSamePosition ==
    /\ pc = "path"
    /\ Len(Top(levels)) > 1
    /\ proof' = Append(proof, ProofStep(Top(levels), Top(path)))
    /\ levels' = Append(levels, Parents(Top(levels)))
    /\ path' = Append(path, Top(path))
    /\ UNCHANGED <<call, pc, rootLevels, root, current, checked, verdict>>

ProofLevel ==
    /\ pc = "path"
    /\ Len(Top(levels)) > 1
    /\ proof' = Append(proof, ProofStep(Top(levels), Top(path)))
    /\ levels' = Append(levels, Parents(Top(levels)))
    /\ path' = Append(path, Top(path) \div 2)
    /\ UNCHANGED <<call, pc, rootLevels, root, current, checked, verdict>>

(* Mutant: the check starts from the leaf the proof was made for. *)
ProofReturnOwnLeaf ==
    /\ pc = "path"
    /\ Len(Top(levels)) <= 1
    /\ pc' = "verify"
    /\ current' = TransactionHash(call.txs[call.index + 1])
    /\ UNCHANGED <<call, rootLevels, root, levels, path, proof, checked, verdict>>

(* The proof is returned and a client starts from the hash of its claim. *)
ProofReturn ==
    /\ pc = "path"
    /\ Len(Top(levels)) <= 1
    /\ pc' = "verify"
    /\ current' = TransactionHash(call.claimed)
    /\ UNCHANGED <<call, rootLevels, root, levels, path, proof, checked, verdict>>

-----------------------------------------------------------------------------
(* VerifyMerkleProof *)

Climb(hash, step) ==
    IF step.left THEN HashPair(step.hash, hash) ELSE HashPair(hash, step.hash)

VerifyStep ==
    /\ pc = "verify"
    /\ checked < Len(proof)
    /\ current' = Climb(current, proof[checked + 1])
    /\ checked' = checked + 1
    /\ UNCHANGED <<call, pc, rootLevels, root, levels, path, proof, verdict>>

VerifyReturn ==
    /\ pc = "verify"
    /\ checked = Len(proof)
    /\ verdict' = (current = root)
    /\ pc' = "done"
    /\ UNCHANGED <<call, rootLevels, root, levels, path, proof, current, checked>>

-----------------------------------------------------------------------------
Init ==
    /\ call \in CallSet
    /\ pc = "root"
    /\ rootLevels = <<Leaves(call.block)>>
    /\ root = EmptyRoot
    /\ levels = <<>>
    /\ path = <<>>
    /\ proof = <<>>
    /\ current = EmptyRoot
    /\ checked = 0
    /\ verdict = FALSE

Next ==
    \/ RootLevel \/ RootReturn
    \/ ProofRefused \/ ProofStart \/ ProofLevel \/ ProofReturn
    \/ VerifyStep \/ VerifyReturn

Spec == Init /\ [][Next]_vars

-----------------------------------------------------------------------------
(* Properties *)

(* The variables have their types and the loops their shapes: each level is a   *)
(* list, the position stays inside it, and the proof has a step for each level  *)
(* that was paired.                                                             *)
TypeOK ==
    /\ call \in CallSet
    /\ pc \in {"root", "prove", "refused", "path", "verify", "done"}
    /\ Len(rootLevels) >= 1
    /\ verdict \in BOOLEAN
    /\ checked \in 0 .. Len(proof)
    /\ pc \in {"path", "verify", "done"} =>
          /\ Len(levels) = Len(proof) + 1 /\ Len(path) = Len(levels)
          /\ \A k \in 1 .. Len(path) : path[k] \in 0 .. Len(levels[k]) - 1

(* A proof that is made for a position of the block verifies for the            *)
(* transaction at that position and for no other (README, Merkle inclusion      *)
(* proofs), however many levels of the tree are odd.                            *)
ProofVerifies ==
    pc = "done" /\ call.txs = call.block =>
        (verdict <=> call.claimed = call.txs[call.index + 1])

(* What a client accepts is in the block, even with a proof that was made for   *)
(* another list.                                                                *)
AcceptedIsIncluded ==
    pc = "done" /\ verdict => \E i \in 1 .. Len(call.block) : call.block[i] = call.claimed

(* The tree as a whole: of the nodes of height h each covers as many leaves as  *)
(* a full tree of that height has, there are as many as that takes, and where a *)
(* right child is missing it is the left one.                                   *)
FullTree(height) ==
    LET leaves[h \in 0 .. height] == IF h = 0 THEN 1 ELSE 2 * leaves[h - 1] IN leaves[height]

TreeWidth(list, h) == (Len(list) + FullTree(h) - 1) \div FullTree(h)

TreeHeight(list) ==
    CHOOSE h \in 0 .. Len(list) :
        TreeWidth(list, h) = 1 /\ \A l \in 0 .. h - 1 : TreeWidth(list, l) > 1

ReferenceRoot(list) ==
    LET right(i, h) == IF 2 * i > TreeWidth(list, h) THEN 2 * i - 1 ELSE 2 * i
        node[h \in 0 .. TreeHeight(list)] ==
            [i \in 1 .. TreeWidth(list, h) |->
                IF h = 0 THEN TransactionHash(list[i])
                ELSE HashPair(node[h - 1][2 * i - 1], node[h - 1][right(i, h - 1)])]
    IN  IF list = <<>> THEN EmptyRoot ELSE node[TreeHeight(list)][1]

(* The loop computes the root of the reference tree, and so does the operator   *)
(* that the models of chains use.                                               *)
RootIsReference ==
    pc = "prove" =>
        root = ReferenceRoot(call.block) /\ root = CalculateMerkleRoot(call.block)

(* Lists of different lengths share a root only when the longer one goes on     *)
(* with transactions of the shorter: the repetition of an odd level's last hash *)
(* hides no transaction that is not in the block.                               *)
CollisionsRepeatTheEnd ==
    pc = "done" /\ Top(levels)[1] = root =>
        /\ \A i \in 1 .. Len(call.txs) : i <= Len(call.block) => call.txs[i] = call.block[i]
        /\ \A i \in 1 .. Len(call.block) : \E j \in 1 .. Len(call.txs) : call.block[i] = call.txs[j]
============================================================================
