------------------------------ MODULE MCNode ------------------------------
(* Instances of Node for TLC.                                               *)
EXTENDS Node

CONSTANTS a, b, n1, n2,
    u       \* a name that is not UTF-8

Order(from, to, amount) == [from |-> from, to |-> to, amount |-> amount]

MCAccounts == {Faucet, a, b}
MCReadBack == <<>>

(* b is what a reader finds in the place of u.                              *)
MCAccountsUnreadable == {Faucet, a, b, u}
MCReadBackUnreadable == [name \in {u} |-> b]

Off  == [enabled |-> FALSE, interval |-> 2, target |-> 2, min |-> 0, max |-> 4]
On   == [enabled |-> TRUE, interval |-> 2, target |-> 2, min |-> 1, max |-> 2]
Long == [enabled |-> TRUE, interval |-> 3, target |-> 3, min |-> 1, max |-> 2]
Huge == [enabled |-> TRUE, interval |-> 3, target |-> 6, min |-> 1, max |-> 2]
Bad  == [enabled |-> TRUE, interval |-> 1, target |-> 2, min |-> 0, max |-> 3]

(* Manual difficulty, and a policy that Validate refuses.                       *)
MCPolicies == {Off, Bad}

(* A policy that retargets, and one that Validate refuses.                      *)
MCForkPolicies == {On, Bad}

(* A difficulty to start with, and a value that asks for the default.           *)
MCGenesises == {1, -1}

(* One that fits, one that overflows the int64 of NodeRetarget.cfg in twice the *)
(* time of its window (Long), one in that time itself (Huge), one that does not *)
(* retarget, and one that Validate refuses.                                     *)
MCRetargetPolicies == {Off, On, Long, Huge, Bad}

(* A grant, and two payments that conflict when two nodes make one each.        *)
MCForkOrders == {Order(Faucet, a, 2), Order(a, b, 1), Order(a, b, 2)}

(* A payment that anyone may submit again, and one signed with another's key.   *)
MCForkTxPool ==
    {Signed(a, b, 1, 1), [Signed(b, b, 2, 1) EXCEPT !.sender = a]}

(* Payments that two nodes can confirm twice.                                   *)
MCFaucetOrders == {Order(Faucet, a, 1), Order(Faucet, b, 1)}

(* The nodes are alike: nothing orders them.                                    *)
Symmetry == Permutations(Nodes)

(* One payment to have something to mine, and one that is refused.              *)
MCOnePayment == {Order(Faucet, a, 1), Order(a, a, 1)}

(* A grant to a name that is not UTF-8, and one to be sent on.                  *)
MCUnreadableOrders == {Order(Faucet, u, 1), Order(Faucet, a, 1), Order(a, u, 1)}
==========================================================================
