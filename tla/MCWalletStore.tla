--------------------------- MODULE MCWalletStore ---------------------------
(* Instances of WalletStore for TLC.                                        *)
EXTENDS WalletStore

CONSTANTS p1, p2, q1, d1, d2, x, y,
    r,       \* a name with the character U+FFFD
    u, v     \* names with a byte there that is not UTF-8

(* Two processes on one chain file, which its lock keeps apart, and one on      *)
(* another chain file.                                                          *)
MCData == [p \in {p1, p2, q1} |-> IF p = q1 THEN d2 ELSE d1]

MCReadBack == [name \in Unreadable |-> r]

(* Between the two, in the order of bytes, stands the name they read back as.   *)
MCRank == [name \in Names |->
              CASE name = x -> 1 [] name = y -> 2 [] name = u -> 3 [] name = r -> 4 [] name = v -> 5]
===========================================================================
