----------------------------- MODULE MCMerkle -----------------------------
(* Instances of MerkleInclusion for TLC.                                    *)
EXTENDS MerkleInclusion, TLC

CONSTANTS
    t1, t2,      \* transactions
    MaxLength    \* bound: transactions of a block

MCLists == UNION {[1 .. n -> Claims] : n \in 0 .. MaxLength}

(* One index below and one above every list as well.                        *)
MCIndices == -1 .. MaxLength

(* Transactions are alike: the tree does not look into them.                *)
Symmetry == Permutations(Claims)
============================================================================
