------------------------------ MODULE Merkle ------------------------------
(***************************************************************************)
(* The Merkle tree over the transactions of a block (block/merkle.go).     *)
(*                                                                         *)
(* A hash is modelled by what is hashed: of a transaction by the           *)
(* transaction, of two hashes by the pair of them.  A pair is never a      *)
(* transaction's hash: the code hashes 64 raw bytes for the one and a      *)
(* JSON object for the other.                                              *)
(***************************************************************************)
EXTENDS Integers, Sequences

TransactionHash(tx) == <<tx>>
HashPair(left, right) == <<left, right>>
EmptyRoot == <<>>       \* SHA-256 of no bytes

Leaves(txs) == [i \in 1 .. Len(txs) |-> TransactionHash(txs[i])]

(* The last hash of an odd level is its own partner. *)
Padded(level) ==
    IF Len(level) % 2 = 0 THEN level ELSE Append(level, level[Len(level)])

(* Mutant: neighbouring pairs overlap. *)
ParentsOverlapping(level) ==
    [i \in 1 .. Len(Padded(level)) \div 2 |-> HashPair(Padded(level)[i], Padded(level)[i + 1])]

(* Mutant: the right half of a pair is the left one again. *)
ParentsLeftTwice(level) ==
    [i \in 1 .. Len(Padded(level)) \div 2 |->
        HashPair(Padded(level)[2 * i - 1], Padded(level)[2 * i - 1])]

(* The level above: the hashes of neighbouring pairs. *)
Parents(level) ==
    [i \in 1 .. Len(Padded(level)) \div 2 |->
        HashPair(Padded(level)[2 * i - 1], Padded(level)[2 * i])]

(* Of the levels built so far the code keeps the last. *)
Top(tower) == tower[Len(tower)]

(* CalculateMerkleRoot: as many levels as it takes to come down to one hash. *)
CalculateMerkleRoot(txs) ==
    LET level[k \in 0 .. Len(txs)] ==
          IF k = 0 THEN Leaves(txs)
          ELSE IF Len(level[k - 1]) > 1 THEN Parents(level[k - 1])
          ELSE level[k - 1]
    IN  IF txs = <<>> THEN EmptyRoot ELSE level[Len(txs)][1]
============================================================================
