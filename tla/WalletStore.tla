---------------------------- MODULE WalletStore ----------------------------
(***************************************************************************)
(* The wallet file (cli/cli.go: loadWalletStore, save, cmdWalletCreate)    *)
(* and the processes that create wallets in it.  Only the lock of a chain  *)
(* file keeps processes apart (Session.tla), so those that work on         *)
(* different chains may meet at the wallet file and at its one temporary   *)
(* file, which is opened, written and renamed without being synced.        *)
(*                                                                         *)
(* A process is a place for one process after another.  The commands that  *)
(* only read wallets (wallet-list, send) change nothing and have no action.*)
(***************************************************************************)
EXTENDS Integers

CONSTANTS
    Processes,  \* places for processes
    Data,       \* the chain file that each of them works on
    Names,      \* names of wallets, in the bytes that users type
    Unreadable, \* those that are not UTF-8
    ReadBack,   \* for each of these, the name with U+FFFD in its place
    Rank,       \* the place of each name in the order of bytes
    MaxKeys,    \* bound: keys generated in a place
    Absent,     \* no such file, or no name
    Empty,      \* the content of a file just opened
    Torn        \* other content that json.Unmarshal refuses

Keys == Processes \X (1 .. MaxKeys)

(* What users may rely on: no other name is read back as one of these.     *)
Plain == Names \ (Unreadable \cup {ReadBack[name] : name \in Unreadable})

StoresOf(names) == UNION {[N -> Keys] : N \in SUBSET names}
Stores   == StoresOf(Names \ Unreadable)
Contents == Stores \cup {Empty, Torn}

ASSUME MaxKeysAssumption == MaxKeys \in Nat
ASSUME ReadBackAssumption ==
    Unreadable \subseteq Names /\ ReadBack \in [Unreadable -> Names \ Unreadable]
ASSUME RankAssumption ==
    /\ Rank \in [Names -> Nat]
    /\ \A m, n \in Names : Rank[m] = Rank[n] => m = n
    /\ \A N \in (SUBSET Names) \ {{}} : \E n \in N : \A m \in N : Rank[m] <= Rank[n]
ASSUME ContentAssumption ==
    /\ Absent \notin Names
    /\ Absent # Empty /\ Absent # Torn /\ Empty # Torn
    /\ \A store \in Stores : store # Absent /\ store # Empty /\ store # Torn

VARIABLES
    pc,         \* where each process is
    store,      \* the store a process is about to save
    creating,   \* the name that it adds
    handle,     \* what its open file is by now
    made,       \* how many keys were generated in each place
    tmp,        \* the temporary file
    file,       \* the wallet file
    disk,       \* what the wallet file may be found to be after a power loss
    told,       \* history: the wallets whose creation was reported
    disturbed   \* history: commands overlapped, or power failed too early

procVars == <<pc, store, creating, handle, made>>
vars == <<procVars, tmp, file, disk, told, disturbed>>

NoWallets == [name \in {} |-> name]

Goto(p, label) == pc' = [pc EXCEPT ![p] = label]

InCommand(p) == pc[p] \in {"open", "write", "rename", "report"}

(* The command is over, and what it held is gone. *)
Forget(p, label) ==
    /\ Goto(p, label)
    /\ store' = [store EXCEPT ![p] = NoWallets]
    /\ creating' = [creating EXCEPT ![p] = Absent]

-----------------------------------------------------------------------------
(* Stores *)

NameRead(name) == IF name \in Unreadable THEN ReadBack[name] ELSE name

NewKey(p) == <<p, made[p] + 1>>

With(wallets, name, key) ==
    [n \in DOMAIN wallets \cup {name} |-> IF n = name THEN key ELSE wallets[n]]

(* Mutant: names come back as they were. *)
AsReadRaw(wallets) == wallets

(***************************************************************************)
(* MarshalIndent writes the wallets in the order of their names; of two    *)
(* names that read the same Unmarshal keeps the later one.                 *)
(***************************************************************************)
AsRead(wallets) ==
    [name \in {NameRead(n) : n \in DOMAIN wallets} |->
        wallets[CHOOSE n \in DOMAIN wallets :
                    /\ NameRead(n) = name
                    /\ \A m \in DOMAIN wallets : NameRead(m) = name => Rank[m] <= Rank[n]]]

(* Writing at the start of a file that may hold something leaves its end.   *)
Overwritten(old, new) == IF old = Empty THEN {new} ELSE {new, Torn}

-----------------------------------------------------------------------------
(* wallet-create *)

(* main: the lock of the chain file is taken. *)
Start(p) ==
    /\ pc[p] = "out"
    /\ \A q \in Processes : Data[q] = Data[p] => pc[q] = "out"
    /\ Goto(p, "ready")
    /\ UNCHANGED <<store, creating, handle, made, tmp, file, disk, told, disturbed>>

(* Mutant: a file that cannot be read counts as a new one. *)
CanLoadAnything == TRUE

(* loadWalletStore: a file that cannot be parsed is an error. *)
CanLoad == file \notin {Empty, Torn}
Loaded  == IF file \in {Absent, Empty, Torn} THEN NoWallets ELSE file

(* Mutant: an existing wallet is not looked for. *)
IsFreeUnchecked(wallets, name) == TRUE

IsFree(wallets, name) == name \notin DOMAIN wallets

(* cmdWalletCreate as far as a new key; otherwise it ends without effect. *)
Load(p, name) ==
    /\ pc[p] = "ready" /\ made[p] < MaxKeys
    /\ CanLoad /\ IsFree(Loaded, name)
    /\ store' = [store EXCEPT ![p] = With(Loaded, name, NewKey(p))]
    /\ creating' = [creating EXCEPT ![p] = name]
    /\ made' = [made EXCEPT ![p] = @ + 1]
    /\ disturbed' = (disturbed \/ \E q \in Processes : InCommand(q))
    /\ Goto(p, "open")
    /\ UNCHANGED <<handle, tmp, file, disk, told>>

(* Mutant: a temporary file that is there is not emptied. *)
OpenTemporaryAsIs(p) ==
    /\ pc[p] = "open"
    /\ tmp' = IF tmp = Absent THEN Empty ELSE tmp
    /\ handle' = [handle EXCEPT ![p] = "tmp"]
    /\ Goto(p, "write")
    /\ UNCHANGED <<store, creating, made, file, disk, told, disturbed>>

(* os.WriteFile opens the temporary file, which empties one that is there. *)
OpenTemporary(p) ==
    /\ pc[p] = "open"
    /\ tmp' = Empty
    /\ handle' = [handle EXCEPT ![p] = "tmp"]
    /\ Goto(p, "write")
    /\ UNCHANGED <<store, creating, made, file, disk, told, disturbed>>

(* The open file may have been renamed by another process in the meantime. *)
Put(p, inTmp, inFile) ==
    /\ IF handle[p] = "tmp" THEN tmp' \in inTmp ELSE UNCHANGED tmp
    /\ IF handle[p] = "file"
       THEN file' \in inFile /\ disk' = disk \cup {file', Empty, Torn}
       ELSE UNCHANGED <<file, disk>>
    /\ handle' = [handle EXCEPT ![p] = "none"]

WriteTemporary(p) ==
    /\ pc[p] = "write"
    /\ LET new == AsRead(store[p]) IN Put(p, Overwritten(tmp, new), Overwritten(file, new))
    /\ Goto(p, "rename")
    /\ UNCHANGED <<store, creating, made, told, disturbed>>

(* A write that fails may have written something, and leaves the file. *)
WriteFails(p) ==
    /\ pc[p] = "write"
    /\ Put(p, {tmp, Torn}, {file, Torn})
    /\ Forget(p, "ready")
    /\ UNCHANGED <<made, told, disturbed>>

(* Whoever has the renamed file open has the wallet file open from now on. *)
RenameTemporary(p) ==
    /\ pc[p] = "rename"
    /\ tmp # Absent
    /\ file' = tmp
    /\ tmp' = Absent
    /\ disk' = disk \cup {tmp, Empty, Torn}
    /\ handle' = [q \in Processes |->
                     IF handle[q] = "tmp" THEN "file" ELSE "none"]
    /\ Goto(p, "report")
    /\ UNCHANGED <<store, creating, made, told, disturbed>>

(* An error of Mkdir, open or rename; the temporary file stays if it is there. *)
SaveFails(p) ==
    /\ pc[p] \in {"open", "rename"}
    /\ Forget(p, "ready")
    /\ UNCHANGED <<handle, made, tmp, file, disk, told, disturbed>>

Report(p) ==
    /\ pc[p] = "report"
    /\ told' = told \cup {<<creating[p], store[p][creating[p]]>>}
    /\ Forget(p, "ready")
    /\ UNCHANGED <<handle, made, tmp, file, disk, disturbed>>

(* The process ends, by itself between two commands or killed within one.  *)
(* A lock that a killed one leaves is removed by the operator.             *)
End(p) ==
    /\ pc[p] # "out"
    /\ Forget(p, "out")
    /\ handle' = [handle EXCEPT ![p] = "none"]
    /\ UNCHANGED <<made, tmp, file, disk, told, disturbed>>

-----------------------------------------------------------------------------
(* The machine *)

(* The kernel writes back what it holds. *)
WriteBack ==
    /\ disk' = {file}
    /\ UNCHANGED <<procVars, tmp, file, told, disturbed>>

(* Nothing was synced: the wallet file is any of those it may be. *)
PowerLoss ==
    /\ pc' = [p \in Processes |-> "out"]
    /\ handle' = [p \in Processes |-> "none"]
    /\ file' \in disk
    /\ disk' = {file'}
    /\ tmp' \in {tmp, Absent, Empty, Torn}
    /\ disturbed' = (disturbed \/ disk # {file})
    /\ store' = [p \in Processes |-> NoWallets]
    /\ creating' = [p \in Processes |-> Absent]
    /\ UNCHANGED <<made, told>>

Init ==
    /\ pc = [p \in Processes |-> "out"]
    /\ store = [p \in Processes |-> NoWallets]
    /\ creating = [p \in Processes |-> Absent]
    /\ handle = [p \in Processes |-> "none"]
    /\ made = [p \in Processes |-> 0]
    /\ tmp = Absent
    /\ file = Absent
    /\ disk = {Absent}
    /\ told = {}
    /\ disturbed = FALSE

Next ==
    \/ \E p \in Processes :
          \/ Start(p) \/ (\E name \in Names : Load(p, name))
          \/ OpenTemporary(p) \/ WriteTemporary(p) \/ WriteFails(p)
          \/ RenameTemporary(p) \/ SaveFails(p) \/ Report(p) \/ End(p)
    \/ WriteBack
    \/ PowerLoss

Spec == Init /\ [][Next]_vars

-----------------------------------------------------------------------------
(* Properties *)

(* Every variable has its type; what is in a file can be read back from it, so  *)
(* no name in it is unreadable.                                                 *)
TypeOK ==
    /\ pc \in [Processes -> {"out", "ready", "open", "write", "rename", "report"}]
    /\ store \in [Processes -> StoresOf(Names)]
    /\ creating \in [Processes -> Names \cup {Absent}]
    /\ \A p \in Processes : InCommand(p) => creating[p] \in DOMAIN store[p]
    /\ handle \in [Processes -> {"none", "tmp", "file"}]
    /\ made \in [Processes -> 0 .. MaxKeys]
    /\ {tmp, file} \cup disk \subseteq Contents \cup {Absent}
    /\ told \subseteq Names \X Keys
    /\ disturbed \in BOOLEAN

(* The wallets under plain names, as users see them. *)
Visible ==
    IF file = Absent THEN NoWallets
    ELSE IF file \in {Empty, Torn} THEN file
    ELSE [name \in DOMAIN file \cap Plain |-> file[name]]

Promise == INSTANCE KeyStore WITH
               Names <- Plain, wallets <- Visible,
               told <- {wallet \in told : wallet[1] \in Plain}

(* Until two commands overlap, or power fails before the kernel has written     *)
(* back, the file is a store of keys that are given once and never lost:        *)
(* however commands fail or are killed, and whatever temporary file they leave. *)
ImplementsKeyStore == Promise!Spec

(* The stores that the wallet file holds or may yet come to hold: what a power  *)
(* loss leaves, a temporary file that a command may rename, and what commands   *)
(* are about to save.                                                           *)
Held == {file} \cup disk \cup ({tmp : p \in {q \in Processes : pc[q] \in {"write", "rename"}}} \ {Absent})

ToSave == {AsRead(store[p]) : p \in {q \in Processes : pc[q] \in {"open", "write", "rename"}}}

InPlay ==
    {IF content = Absent THEN NoWallets ELSE content : content \in Held \ {Empty, Torn}}
        \cup ToSave

Has(wallets, wallet) == wallet[1] \in DOMAIN wallets /\ wallets[wallet[1]] = wallet[2]

(* Where commands do overlap, or power fails, only wallets that were created    *)
(* meanwhile may be missing or have another key.  A wallet that every store in  *)
(* play has is in every store that comes into play, whatever happens, unless    *)
(* one is created whose name is not UTF-8 and reads back as its name.           *)
SettledStay ==
    [][\A added \in InPlay' \ InPlay :
          \A wallet \in {w \in Names \X Keys : \A held \in InPlay : Has(held, w)} :
              \/ Has(added, wallet)
              \/ \E p \in Processes :
                    /\ pc[p] = "ready" /\ pc'[p] = "open"
                    /\ creating'[p] \in Unreadable /\ ReadBack[creating'[p]] = wallet[1]]_vars

Damaged == file \in {Empty, Torn}

(* A store that cannot be read stays, once no command is under way that began   *)
(* before: none takes it for an empty one, and replaces the keys that may still *)
(* be saved from it.                                                            *)
DamageStays ==
    [](Damaged /\ disk = {file} /\ (\A p \in Processes : ~InCommand(p)) => []Damaged)
==========================================================================
