----------------------------- MODULE KeyStore -----------------------------
(***************************************************************************)
(* What the commands on wallets promise (cli/cli.go, wallet-create): a     *)
(* name is given a key once and keeps it, and a wallet that a user was     *)
(* told of is there.  The promise ends when the store is disturbed.        *)
(***************************************************************************)
CONSTANTS Names, Keys

VARIABLES
    wallets,    \* the key of each name that has one
    told,       \* the wallets whose creation was reported
    disturbed   \* something happened that the store does not guard against

vars == <<wallets, told, disturbed>>

Given(store, name, key) ==
    [n \in DOMAIN store \cup {name} |-> IF n = name THEN key ELSE store[n]]

Create(name, key) ==
    /\ name \notin DOMAIN wallets
    /\ wallets' = Given(wallets, name, key)
    /\ UNCHANGED told

Tell(name) ==
    /\ name \in DOMAIN wallets
    /\ told' = told \cup {<<name, wallets[name]>>}
    /\ UNCHANGED wallets

Init ==
    /\ wallets = [n \in {} |-> n]
    /\ told = {}
    /\ disturbed = FALSE

Next ==
    \/ /\ ~disturbed /\ ~disturbed'
       /\ \E name \in Names, key \in Keys : Create(name, key) \/ Tell(name)
    \/ disturbed'

Spec == Init /\ [][Next]_vars
==========================================================================
