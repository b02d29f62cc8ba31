------------------------- MODULE WalletStoreProofs -------------------------
(***************************************************************************)
(* Proofs about WalletStore: its types, that a damaged file stays, that    *)
(* settled wallets stay, and that it implements KeyStore.                  *)
(***************************************************************************)
EXTENDS WalletStore, TLAPS

LEMMA ContentsDistinct ==
    /\ Absent # Empty /\ Absent # Torn /\ Empty # Torn
    /\ \A wallets \in Stores : wallets # Absent /\ wallets # Empty /\ wallets # Torn
    /\ Absent \notin Names
BY ContentAssumption

LEMMA NoWalletsType == NoWallets \in StoresOf({}) /\ NoWallets \in Stores /\ NoWallets \in StoresOf(Names)
<1>1. NoWallets \in [{} -> Keys] /\ {} \in SUBSET {}
  BY DEF NoWallets
<1>2. \A N : NoWallets \in StoresOf(N)
  BY <1>1 DEF StoresOf
<1> QED
  BY <1>2 DEF Stores

LEMMA WithType ==
    ASSUME NEW wallets \in StoresOf(Names), NEW name \in Names, NEW key \in Keys
    PROVE  /\ With(wallets, name, key) \in StoresOf(Names)
           /\ name \in DOMAIN With(wallets, name, key)
<1>1. PICK N \in SUBSET Names : wallets \in [N -> Keys]
  BY DEF StoresOf
<1>2. With(wallets, name, key) \in [N \cup {name} -> Keys]
  BY <1>1 DEF With
<1>3. N \cup {name} \in SUBSET Names
  BY <1>1
<1> QED
  BY <1>2, <1>3 DEF StoresOf

(* What is read back is a store, and plain names keep their keys in it.    *)
LEMMA AsReadType ==
    ASSUME NEW wallets \in StoresOf(Names)
    PROVE  /\ AsRead(wallets) \in Stores
           /\ DOMAIN AsRead(wallets) \cap Plain = DOMAIN wallets \cap Plain
           /\ \A name \in DOMAIN wallets \cap Plain : AsRead(wallets)[name] = wallets[name]
<1>1. PICK N \in SUBSET Names : wallets \in [N -> Keys]
  BY DEF StoresOf
<1>2. DOMAIN wallets = N
  BY <1>1
<1> DEFINE D == {NameRead(n) : n \in N}
           Same(name) == {n \in N : NameRead(n) = name}
           IsLast(n, name) == /\ NameRead(n) = name
                              /\ \A m \in N : NameRead(m) = name => Rank[m] <= Rank[n]
           Last(name) == CHOOSE n \in N : IsLast(n, name)
<1>3. AsRead(wallets) = [name \in D |-> wallets[Last(name)]]
  BY <1>2 DEF AsRead
<1>4. ASSUME NEW name \in D PROVE Last(name) \in N /\ NameRead(Last(name)) = name
  <2>1. Same(name) \in (SUBSET Names) \ {{}}
    BY <1>1
  <2>2. PICK n \in Same(name) : \A m \in Same(name) : Rank[m] <= Rank[n]
    BY <2>1, RankAssumption
  <2>3. n \in N /\ IsLast(n, name)
    BY <2>2
  <2> QED
    BY <2>3
<1>5. D \in SUBSET (Names \ Unreadable)
  BY <1>1, ReadBackAssumption DEF NameRead
<1>6. AsRead(wallets) \in [D -> Keys]
  BY <1>1, <1>3, <1>4
<1>7. ASSUME NEW name \in Plain, NEW n \in N, NameRead(n) = name PROVE n = name
  BY <1>1, <1>7, ReadBackAssumption DEF NameRead, Plain
<1>8. ASSUME NEW name \in Plain PROVE name \in D <=> name \in N
  <2>1. name \in D => name \in N
    BY <1>7
  <2>2. name \in N => NameRead(name) = name
    BY <1>8 DEF Plain, NameRead
  <2> QED
    BY <2>1, <2>2
<1>9. ASSUME NEW name \in N \cap Plain PROVE AsRead(wallets)[name] = wallets[name]
  <2>1. name \in D
    BY <1>8, <1>9
  <2>2. Last(name) = name
    BY <2>1, <1>4, <1>7, <1>9
  <2> QED
    BY <2>1, <2>2, <1>3
<1> QED
  BY <1>2, <1>5, <1>6, <1>8, <1>9 DEF Stores, StoresOf

-----------------------------------------------------------------------------
(* A damaged file stays. *)

Stuck == Damaged /\ disk = {file} /\ \A p \in Processes : ~InCommand(p)

LEMMA StuckStays == ASSUME Stuck, [Next]_vars PROVE Stuck'
<1> USE DEF Stuck, Damaged
<1>1. ASSUME NEW p \in Processes PROVE ~(\/ OpenTemporary(p) \/ WriteTemporary(p) \/ WriteFails(p)
          \/ RenameTemporary(p) \/ SaveFails(p) \/ Report(p))
  BY <1>1 DEF InCommand, OpenTemporary, WriteTemporary, WriteFails, RenameTemporary, SaveFails, Report
<1>2. ASSUME NEW p \in Processes, NEW name \in Names PROVE ~Load(p, name)
  BY DEF Load, CanLoad
<1>3. CASE \E p \in Processes : Start(p)
  BY <1>3 DEF Start, Goto, InCommand
<1>4. CASE \E p \in Processes : End(p)
  BY <1>4 DEF End, Forget, Goto, InCommand
<1>5. CASE WriteBack
  BY <1>5 DEF WriteBack, procVars, InCommand
<1>6. CASE PowerLoss
  BY <1>6 DEF PowerLoss, InCommand
<1>7. CASE UNCHANGED vars
  BY <1>7 DEF vars, procVars, InCommand
<1> QED
  BY <1>1, <1>2, <1>3, <1>4, <1>5, <1>6, <1>7 DEF Next

(* No command replaces a store that cannot be read (cli.go, loadWalletStore).   *)
THEOREM DamageIsKept == Spec => DamageStays
<1>1. Stuck => Damaged
  BY DEF Stuck
<1>2. Stuck /\ [Next]_vars => Stuck'
  BY StuckStays
<1>3. Stuck <=> Damaged /\ disk = {file} /\ (\A p \in Processes : ~InCommand(p))
  BY DEF Stuck
<1> QED
  BY <1>1, <1>2, <1>3, PTL DEF Spec, DamageStays

-----------------------------------------------------------------------------
(* Types *)

LEMMA InitType == Init => TypeOK
<1> SUFFICES ASSUME Init PROVE TypeOK
  OBVIOUS
<1> USE DEF Init
<1>1. store \in [Processes -> StoresOf(Names)]
  BY NoWalletsType
<1>2. made \in [Processes -> 0 .. MaxKeys]
  BY MaxKeysAssumption
<1>3. \A p \in Processes : ~InCommand(p)
  BY DEF InCommand
<1>4. {tmp, file} \cup disk \subseteq Contents \cup {Absent}
  OBVIOUS
<1> QED
  BY <1>1, <1>2, <1>3, <1>4 DEF TypeOK

LEMMA LoadedType == ASSUME TypeOK, CanLoad PROVE Loaded \in Stores /\ Loaded \in StoresOf(Names)
<1>1. Loaded \in Stores
  <2>1. file \in Stores \cup {Empty, Torn, Absent}
    BY DEF TypeOK, Contents
  <2> HIDE DEF Stores
  <2> QED
    BY <2>1, NoWalletsType DEF CanLoad, Loaded
<1>2. PICK N \in SUBSET (Names \ Unreadable) : Loaded \in [N -> Keys]
  BY <1>1 DEF Stores, StoresOf
<1>3. N \in SUBSET Names
  OBVIOUS
<1> QED
  BY <1>1, <1>2, <1>3 DEF StoresOf

LEMMA LoadType ==
    ASSUME TypeOK, NEW p \in Processes, NEW name \in Names, Load(p, name) PROVE TypeOK'
<1> USE DEF TypeOK, Load
<1>1. NewKey(p) \in Keys
  BY MaxKeysAssumption DEF NewKey, Keys
<1>2. /\ With(Loaded, name, NewKey(p)) \in StoresOf(Names)
      /\ name \in DOMAIN With(Loaded, name, NewKey(p))
  BY <1>1, LoadedType, WithType
<1>3. store' \in [Processes -> StoresOf(Names)] /\ creating' \in [Processes -> Names \cup {Absent}]
  BY <1>2
<1>4. pc' \in [Processes -> {"out", "ready", "open", "write", "rename", "report"}]
  BY DEF Goto
<1>5. \A q \in Processes : InCommand(q)' => creating'[q] \in DOMAIN store'[q]
  BY <1>2 DEF InCommand, Goto
<1>6. made' \in [Processes -> 0 .. MaxKeys]
  BY MaxKeysAssumption
<1>7. disturbed' \in BOOLEAN
  OBVIOUS
<1> QED
  BY <1>3, <1>4, <1>5, <1>6, <1>7

LEMMA ForgetType ==
    ASSUME TypeOK, NEW p \in Processes, NEW label \in {"out", "ready"}, Forget(p, label)
    PROVE  /\ pc' \in [Processes -> {"out", "ready", "open", "write", "rename", "report"}]
           /\ store' \in [Processes -> StoresOf(Names)]
           /\ creating' \in [Processes -> Names \cup {Absent}]
           /\ \A q \in Processes : InCommand(q)' => creating'[q] \in DOMAIN store'[q]
BY NoWalletsType DEF TypeOK, Forget, Goto, InCommand

LEMMA PutType ==
    ASSUME TypeOK, NEW p \in Processes,
           NEW inTmp \in SUBSET (Contents \cup {Absent}), NEW inFile \in SUBSET (Contents \cup {Absent}),
           Put(p, inTmp, inFile)
    PROVE  /\ {tmp', file'} \cup disk' \subseteq Contents \cup {Absent}
           /\ handle' \in [Processes -> {"none", "tmp", "file"}]
BY DEF TypeOK, Put, Contents

LEMMA NextType == ASSUME TypeOK, [Next]_vars PROVE TypeOK'
<1>1. CASE \E p \in Processes : Start(p)
  BY <1>1 DEF TypeOK, Start, Goto, InCommand
<1>2. CASE \E p \in Processes, name \in Names : Load(p, name)
  BY <1>2, LoadType
<1>3. CASE \E p \in Processes : OpenTemporary(p)
  BY <1>3 DEF TypeOK, OpenTemporary, Goto, InCommand, Contents
<1>4. ASSUME NEW p \in Processes, WriteTemporary(p) PROVE TypeOK'
  <2> DEFINE new == AsRead(store[p])
  <2>1. new \in Contents
    BY AsReadType DEF TypeOK, Contents
  <2>2. Overwritten(tmp, new) \subseteq Contents \cup {Absent} /\ Overwritten(file, new) \subseteq Contents \cup {Absent}
    BY <2>1 DEF Overwritten, Contents
  <2>3. Put(p, Overwritten(tmp, new), Overwritten(file, new))
    BY <1>4 DEF WriteTemporary
  <2> HIDE DEF new
  <2>4. /\ {tmp', file'} \cup disk' \subseteq Contents \cup {Absent}
        /\ handle' \in [Processes -> {"none", "tmp", "file"}]
    BY <2>2, <2>3, PutType
  <2> QED
    BY <1>4, <2>4 DEF TypeOK, WriteTemporary, Goto, InCommand
<1>5. ASSUME NEW p \in Processes, WriteFails(p) PROVE TypeOK'
  <2>1. {tmp, Torn} \subseteq Contents \cup {Absent} /\ {file, Torn} \subseteq Contents \cup {Absent}
    BY DEF TypeOK, Contents
  <2>2. /\ {tmp', file'} \cup disk' \subseteq Contents \cup {Absent}
        /\ handle' \in [Processes -> {"none", "tmp", "file"}]
    BY <1>5, <2>1, PutType DEF WriteFails
  <2> QED
    BY <1>5, <2>2, ForgetType DEF TypeOK, WriteFails
<1>6. CASE \E p \in Processes : RenameTemporary(p)
  BY <1>6 DEF TypeOK, RenameTemporary, Goto, InCommand, Contents
<1>7. ASSUME NEW p \in Processes, SaveFails(p) PROVE TypeOK'
  BY <1>7, ForgetType DEF TypeOK, SaveFails
<1>8. ASSUME NEW p \in Processes, Report(p) PROVE TypeOK'
  <2>1. InCommand(p) /\ creating[p] \in DOMAIN store[p] /\ store[p] \in StoresOf(Names)
    BY <1>8 DEF TypeOK, Report, InCommand
  <2>2. <<creating[p], store[p][creating[p]]>> \in Names \X Keys
    BY <2>1 DEF StoresOf
  <2> QED
    BY <1>8, <2>2, ForgetType DEF TypeOK, Report
<1>9. ASSUME NEW p \in Processes, End(p) PROVE TypeOK'
  BY <1>9, ForgetType DEF TypeOK, End
<1>10. CASE WriteBack
  BY <1>10 DEF TypeOK, WriteBack, procVars, InCommand
<1>11. CASE PowerLoss
  BY <1>11, NoWalletsType DEF TypeOK, PowerLoss, InCommand, Contents
<1>12. CASE UNCHANGED vars
  BY <1>12 DEF TypeOK, vars, procVars, InCommand
<1> QED
  BY <1>1, <1>2, <1>3, <1>4, <1>5, <1>6, <1>7, <1>8, <1>9, <1>10, <1>11, <1>12 DEF Next

(* Whatever is in the wallet file, its names can be read back from it (cli.go,  *)
(* WalletStore.save and loadWalletStore).                                       *)
THEOREM TypeCorrect == Spec => []TypeOK
BY InitType, NextType, PTL DEF Spec

-----------------------------------------------------------------------------
(***************************************************************************)
(* Settled wallets.  Only a command that has loaded the file brings a new  *)
(* store into play: every other step moves stores that are in play, or     *)
(* drops them.                                                             *)
(***************************************************************************)

(* A name that no other one is read back as keeps its key.                 *)
LEMMA AsReadKeeps ==
    ASSUME NEW wallets \in StoresOf(Names), NEW name \in DOMAIN wallets,
           \A n \in DOMAIN wallets : NameRead(n) = name <=> n = name
    PROVE  name \in DOMAIN AsRead(wallets) /\ AsRead(wallets)[name] = wallets[name]
<1> DEFINE D == {NameRead(n) : n \in DOMAIN wallets}
           IsLast(n, m) == /\ NameRead(n) = m
                           /\ \A k \in DOMAIN wallets : NameRead(k) = m => Rank[k] <= Rank[n]
           Last(m) == CHOOSE n \in DOMAIN wallets : IsLast(n, m)
<1>1. AsRead(wallets) = [m \in D |-> wallets[Last(m)]]
  BY DEF AsRead
<1>2. name \in D
  OBVIOUS
<1>3. DOMAIN wallets \subseteq Names
  BY DEF StoresOf
<1>4. IsLast(name, name)
  BY <1>3, RankAssumption
<1>5. Last(name) \in DOMAIN wallets /\ IsLast(Last(name), name)
  BY <1>4
<1>6. Last(name) = name
  BY <1>5
<1> QED
  BY <1>1, <1>2, <1>6

LEMMA NoneAdded ==
    ASSUME TypeOK, Held' \subseteq Held \cup ToSave \cup {Empty, Torn}, ToSave' \subseteq ToSave
    PROVE  InPlay' \subseteq InPlay
<1> SUFFICES ASSUME NEW content \in Held', content \notin {Empty, Torn}
             PROVE  (IF content = Absent THEN NoWallets ELSE content) \in InPlay
  BY DEF InPlay
<1>1. CASE content \in Held
  BY <1>1 DEF InPlay
<1>2. CASE content \in ToSave
  <2>1. content # Absent
    BY <1>2, AsReadType, ContentsDistinct DEF ToSave, TypeOK
  <2> QED
    BY <1>2, <2>1 DEF InPlay
<1> QED
  BY <1>1, <1>2

LEMMA LessToSave ==
    ASSUME \A q \in Processes : pc'[q] \in {"open", "write", "rename"} =>
               pc[q] \in {"open", "write", "rename"} /\ store'[q] = store[q]
    PROVE  ToSave' \subseteq ToSave
BY DEF ToSave

LEMMA LessHeld ==
    ASSUME tmp' = tmp, file' = file, disk' \subseteq disk \cup {file},
           \A q \in Processes : pc'[q] \in {"write", "rename"} => pc[q] \in {"write", "rename"}
    PROVE  Held' \subseteq Held
BY DEF Held

LEMMA ForgetToSave ==
    ASSUME TypeOK, NEW p \in Processes, NEW label \in {"out", "ready"}, Forget(p, label)
    PROVE  /\ ToSave' \subseteq ToSave
           /\ \A q \in Processes : pc'[q] \in {"write", "rename"} => pc[q] \in {"write", "rename"}
<1>1. \A q \in Processes : pc'[q] \in {"open", "write", "rename"} =>
          pc[q] \in {"open", "write", "rename"} /\ store'[q] = store[q] /\ pc'[q] = pc[q]
  BY DEF TypeOK, Forget, Goto
<1> QED
  BY <1>1, LessToSave

LEMMA PutHeld ==
    ASSUME TypeOK, NEW p \in Processes, pc[p] = "write", NEW inTmp, NEW inFile,
           Put(p, inTmp, inFile),
           inTmp \subseteq {tmp} \cup ToSave \cup {Empty, Torn},
           inFile \subseteq {file} \cup ToSave \cup {Empty, Torn}
    PROVE  Held' \subseteq Held \cup ToSave \cup {Empty, Torn}
<1>1. tmp' \in {tmp} \cup ToSave \cup {Empty, Torn}
  BY DEF Put
<1>2. /\ file' \in {file} \cup ToSave \cup {Empty, Torn}
      /\ disk' \subseteq disk \cup {file} \cup ToSave \cup {Empty, Torn}
  BY DEF Put
<1>3. tmp = Absent \/ tmp \in Held
  BY DEF Held
<1>4. file \in Held /\ disk \subseteq Held
  BY DEF Held
<1>5. Held' \subseteq {file'} \cup disk' \cup ({tmp'} \ {Absent})
  BY DEF Held
<1> QED
  BY <1>1, <1>2, <1>3, <1>4, <1>5

LEMMA OthersAddNone ==
    ASSUME TypeOK, [Next]_vars, ~\E p \in Processes, name \in Names : Load(p, name)
    PROVE  InPlay' \subseteq InPlay
<1> SUFFICES Held' \subseteq Held \cup ToSave \cup {Empty, Torn} /\ ToSave' \subseteq ToSave
  BY NoneAdded
<1> DEFINE Goal == Held' \subseteq Held \cup ToSave \cup {Empty, Torn} /\ ToSave' \subseteq ToSave
<1>1. ASSUME NEW p \in Processes, Start(p) PROVE Goal
  <2>1. \A q \in Processes : pc'[q] \in {"open", "write", "rename"} => pc'[q] = pc[q] /\ store'[q] = store[q]
    BY <1>1 DEF TypeOK, Start, Goto
  <2> QED
    BY <1>1, <2>1, LessToSave, LessHeld DEF Start
<1>2. ASSUME NEW p \in Processes, OpenTemporary(p) PROVE Goal
  <2>1. \A q \in Processes : pc'[q] \in {"open", "write", "rename"} =>
            pc[q] \in {"open", "write", "rename"} /\ store'[q] = store[q]
    BY <1>2 DEF TypeOK, OpenTemporary, Goto
  <2>2. Held' \subseteq Held \cup {Empty}
    BY <1>2 DEF Held, OpenTemporary
  <2> QED
    BY <2>1, <2>2, LessToSave
<1>3. ASSUME NEW p \in Processes, WriteTemporary(p) PROVE Goal
  <2> DEFINE new == AsRead(store[p])
  <2>1. pc[p] = "write" /\ Put(p, Overwritten(tmp, new), Overwritten(file, new))
    BY <1>3 DEF WriteTemporary
  <2>2. new \in ToSave
    BY <2>1 DEF ToSave
  <2> HIDE DEF new
  <2>3. Overwritten(tmp, new) \subseteq ToSave \cup {Torn} /\ Overwritten(file, new) \subseteq ToSave \cup {Torn}
    BY <2>2 DEF Overwritten
  <2>4. Held' \subseteq Held \cup ToSave \cup {Empty, Torn}
    BY <2>1, <2>3, PutHeld
  <2>5. \A q \in Processes : pc'[q] \in {"open", "write", "rename"} =>
            pc[q] \in {"open", "write", "rename"} /\ store'[q] = store[q]
    BY <1>3 DEF TypeOK, WriteTemporary, Goto
  <2> QED
    BY <2>4, <2>5, LessToSave
<1>4. ASSUME NEW p \in Processes, WriteFails(p) PROVE Goal
  <2>1. Held' \subseteq Held \cup ToSave \cup {Empty, Torn}
    BY <1>4, PutHeld DEF WriteFails
  <2> QED
    BY <1>4, <2>1, ForgetToSave DEF WriteFails
<1>5. ASSUME NEW p \in Processes, RenameTemporary(p) PROVE Goal
  <2>1. \A q \in Processes : pc'[q] \in {"open", "write", "rename"} =>
            pc[q] \in {"open", "write", "rename"} /\ store'[q] = store[q]
    BY <1>5 DEF TypeOK, RenameTemporary, Goto
  <2>2. tmp \in Held
    BY <1>5 DEF Held, RenameTemporary
  <2>3. Held' \subseteq Held \cup {Empty, Torn}
    BY <1>5, <2>2 DEF Held, RenameTemporary
  <2> QED
    BY <2>1, <2>3, LessToSave
<1>6. ASSUME NEW p \in Processes, SaveFails(p) \/ Report(p) \/ End(p) PROVE Goal
  <2>1. PICK label \in {"out", "ready"} : Forget(p, label)
    BY <1>6 DEF SaveFails, Report, End
  <2>2. tmp' = tmp /\ file' = file /\ disk' = disk
    BY <1>6 DEF SaveFails, Report, End
  <2> QED
    BY <2>1, <2>2, ForgetToSave, LessHeld
<1>7. CASE WriteBack
  BY <1>7, LessToSave, LessHeld DEF WriteBack, procVars
<1>8. CASE PowerLoss
  <2>1. \A q \in Processes : pc'[q] = "out"
    BY <1>8 DEF PowerLoss
  <2>2. Held' \subseteq Held
    BY <1>8, <2>1 DEF Held, PowerLoss
  <2> QED
    BY <2>1, <2>2, LessToSave
<1>9. CASE UNCHANGED vars
  BY <1>9, LessToSave, LessHeld DEF vars, procVars
<1> QED
  BY <1>1, <1>2, <1>3, <1>4, <1>5, <1>6, <1>7, <1>8, <1>9 DEF Next

(* What a command that has loaded the file is about to save.               *)
LEMMA LoadAdds ==
    ASSUME TypeOK, NEW p \in Processes, NEW name \in Names, Load(p, name),
           NEW added \in InPlay', added \notin InPlay
    PROVE  added = AsRead(With(Loaded, name, NewKey(p)))
<1>1. \A q \in Processes : q # p => pc'[q] = pc[q] /\ store'[q] = store[q]
  BY DEF TypeOK, Load, Goto
<1>2. pc'[p] = "open" /\ store'[p] = With(Loaded, name, NewKey(p))
  BY DEF TypeOK, Load, Goto
<1>3. ToSave' \subseteq ToSave \cup {AsRead(With(Loaded, name, NewKey(p)))}
  BY <1>1, <1>2 DEF ToSave
<1>4. Held' \subseteq Held
  BY <1>1, <1>2, LessHeld DEF Load
<1> QED
  BY <1>3, <1>4 DEF InPlay

LEMMA LoadKeeps ==
    ASSUME TypeOK, NEW p \in Processes, NEW name \in Names, Load(p, name),
           NEW wallet \in Names \X Keys, Has(Loaded, wallet),
           ~(name \in Unreadable /\ ReadBack[name] = wallet[1])
    PROVE  Has(AsRead(With(Loaded, name, NewKey(p))), wallet)
<1> DEFINE w == wallet[1]
           new == With(Loaded, name, NewKey(p))
<1>1. PICK N \in SUBSET (Names \ Unreadable) : Loaded \in [N -> Keys]
  BY LoadedType DEF Load, Stores, StoresOf
<1>2. w \in N /\ name \notin N /\ DOMAIN Loaded = N
  BY <1>1 DEF Has, Load, IsFree
<1>3. NewKey(p) \in Keys
  BY MaxKeysAssumption DEF TypeOK, Load, NewKey, Keys
<1>4. new \in StoresOf(Names)
  BY <1>3, LoadedType, WithType DEF Load
<1>5. DOMAIN new = N \cup {name} /\ new[w] = Loaded[w]
  BY <1>2 DEF With
<1>6. \A n \in DOMAIN new : NameRead(n) = w <=> n = w
  <2>1. \A n \in N : NameRead(n) = n
    BY <1>1 DEF NameRead
  <2>2. NameRead(name) # w
    BY <1>2 DEF NameRead
  <2> QED
    BY <1>2, <1>5, <2>1, <2>2
<1> HIDE DEF new
<1>7. w \in DOMAIN AsRead(new) /\ AsRead(new)[w] = new[w]
  BY <1>2, <1>4, <1>5, <1>6, AsReadKeeps
<1> QED
  BY <1>5, <1>7 DEF Has, new

(* SettledStay: however commands overlap, fail, are killed or lose power, what  *)
(* they save has the wallets that every store in play had (cli.go, save and     *)
(* cmdWalletCreate).                                                            *)
THEOREM SettledWalletsStay == Spec => SettledStay
<1> DEFINE Step ==
        \A added \in InPlay' \ InPlay :
           \A wallet \in {w \in Names \X Keys : \A held \in InPlay : Has(held, w)} :
              \/ Has(added, wallet)
              \/ \E p \in Processes :
                    /\ pc[p] = "ready" /\ pc'[p] = "open"
                    /\ creating'[p] \in Unreadable /\ ReadBack[creating'[p]] = wallet[1]
<1>1. ASSUME TypeOK, [Next]_vars,
             NEW added \in InPlay' \ InPlay,
             NEW wallet \in {w \in Names \X Keys : \A held \in InPlay : Has(held, w)}
      PROVE  \/ Has(added, wallet)
             \/ \E p \in Processes :
                   /\ pc[p] = "ready" /\ pc'[p] = "open"
                   /\ creating'[p] \in Unreadable /\ ReadBack[creating'[p]] = wallet[1]
  <2>1. PICK p \in Processes, name \in Names : Load(p, name)
    BY <1>1, OthersAddNone
  <2>2. added = AsRead(With(Loaded, name, NewKey(p)))
    BY <1>1, <2>1, LoadAdds
  <2>3. Loaded \in InPlay
    <3>1. file \in Held \ {Empty, Torn}
      BY <2>1 DEF Held, Load, CanLoad
    <3>2. Loaded = IF file = Absent THEN NoWallets ELSE file
      BY <3>1 DEF Loaded
    <3> QED
      BY <3>1, <3>2 DEF InPlay
  <2>4. wallet \in Names \X Keys /\ Has(Loaded, wallet)
    BY <2>3
  <2>5. CASE name \in Unreadable /\ ReadBack[name] = wallet[1]
    BY <1>1, <2>1, <2>5 DEF TypeOK, Load, Goto
  <2>6. CASE ~(name \in Unreadable /\ ReadBack[name] = wallet[1])
    BY <1>1, <2>1, <2>2, <2>4, <2>6, LoadKeeps
  <2> QED
    BY <2>5, <2>6
<1>2. TypeOK /\ [Next]_vars => Step
  BY <1>1
<1> HIDE DEF Step
<1>3. Spec => [][Step]_vars
  BY <1>2, TypeCorrect, PTL DEF Spec
<1> QED
  BY <1>3 DEF SettledStay, Step

-----------------------------------------------------------------------------
(***************************************************************************)
(* KeyStore.  As long as nothing disturbed it there is one command at a    *)
(* time, the file is what it loaded, and the temporary file is its own:    *)
(* what it writes is the file with one more wallet.                        *)
(***************************************************************************)
Alone == \A p, q \in Processes : InCommand(p) /\ InCommand(q) => p = q

Saving(p) ==
    /\ creating[p] \in Names /\ creating[p] \notin DOMAIN Loaded
    /\ \E key \in Keys : store[p] = With(Loaded, creating[p], key)

Handled(p) ==
    /\ handle[p] # "none" => pc[p] = "write"
    /\ pc[p] = "write" => handle[p] = "tmp" /\ tmp = Empty
    /\ pc[p] = "rename" => tmp = AsRead(store[p])
    /\ pc[p] \in {"open", "write", "rename"} => Saving(p)
    /\ pc[p] = "report" /\ creating[p] \in Plain =>
          /\ file # Absent /\ creating[p] \in DOMAIN file
          /\ file[creating[p]] = store[p][creating[p]]

Intact ==
    /\ ~Damaged
    /\ Alone
    /\ \A p \in Processes : Handled(p)

IInv == TypeOK /\ (~disturbed => Intact)

VisibleTold == {wallet \in told : wallet[1] \in Plain}

LEMMA VisibleIs ==
    ASSUME TypeOK, ~Damaged
    PROVE  Visible = [name \in DOMAIN Loaded \cap Plain |-> Loaded[name]]
<1>1. CASE file = Absent
  BY <1>1, ContentsDistinct DEF Visible, Loaded, NoWallets
<1>2. CASE file # Absent
  BY <1>2 DEF Visible, Loaded, Damaged
<1> QED
  BY <1>1, <1>2

LEMMA InitIntact == Init => IInv
BY InitType, ContentsDistinct DEF Init, IInv, Intact, Damaged, Alone, Handled, InCommand

(* What a process wrote is the file with its wallet added, if that is plain.    *)
LEMMA SavedIs ==
    ASSUME TypeOK, ~Damaged, NEW p \in Processes, Saving(p)
    PROVE  /\ AsRead(store[p]) \in Stores
           /\ DOMAIN AsRead(store[p]) \cap Plain = (DOMAIN Loaded \cup {creating[p]}) \cap Plain
           /\ \A name \in DOMAIN Loaded \cap Plain : AsRead(store[p])[name] = Loaded[name]
           /\ creating[p] \in Plain => AsRead(store[p])[creating[p]] = store[p][creating[p]]
<1>1. PICK key \in Keys : store[p] = With(Loaded, creating[p], key)
  BY DEF Saving
<1>2. store[p] \in StoresOf(Names)
  BY DEF TypeOK
<1>3. DOMAIN store[p] = DOMAIN Loaded \cup {creating[p]}
  BY <1>1 DEF With
<1>4. \A name \in DOMAIN Loaded : store[p][name] = Loaded[name]
  BY <1>1 DEF With, Saving
<1> QED
  BY <1>2, <1>3, <1>4, AsReadType

LEMMA NoneInCommand ==
    ASSUME Intact, NEW p \in Processes, NEW q \in Processes, InCommand(p), q # p
    PROVE  ~InCommand(q) /\ handle[q] = "none"
BY DEF Intact, Alone, Handled, InCommand

LEMMA IntactStart ==
    ASSUME TypeOK, Intact, NEW p \in Processes, Start(p) PROVE Intact'
BY DEF TypeOK, Intact, Alone, Handled, Saving, Loaded, Damaged, InCommand, Start, Goto

LEMMA IntactLoad ==
    ASSUME TypeOK, Intact, NEW p \in Processes, NEW name \in Names, Load(p, name), ~disturbed'
    PROVE  Intact'
<1>1. \A q \in Processes : ~InCommand(q)
  BY DEF Load
<1>2. \A q \in Processes : InCommand(q)' => q = p
  BY <1>1 DEF TypeOK, Load, Goto, InCommand
<1>3. NewKey(p) \in Keys
  BY MaxKeysAssumption DEF TypeOK, Load, NewKey, Keys
<1>4. Saving(p)'
  BY <1>3 DEF TypeOK, Load, IsFree, Saving, Loaded
<1>5. \A q \in Processes : handle[q] = "none" /\ handle'[q] = "none"
  BY <1>1 DEF Intact, Handled, Load, InCommand
<1>6. Handled(p)'
  BY <1>4, <1>5 DEF Handled, TypeOK, Load, Goto
<1>7. \A q \in Processes : q # p => Handled(q)'
  BY <1>1, <1>2, <1>5 DEF Handled, InCommand
<1> QED
  BY <1>2, <1>6, <1>7 DEF Intact, Alone, Load, Damaged

LEMMA IntactOpen ==
    ASSUME TypeOK, Intact, NEW p \in Processes, OpenTemporary(p) PROVE Intact'
<1>1. InCommand(p) /\ InCommand(p)'
  BY DEF TypeOK, OpenTemporary, Goto, InCommand
<1>2. \A q \in Processes : q # p => ~InCommand(q)' /\ handle'[q] = "none"
  BY <1>1, NoneInCommand DEF TypeOK, OpenTemporary, Goto, InCommand
<1>3. Saving(p)' /\ pc'[p] = "write" /\ handle'[p] = "tmp" /\ tmp' = Empty
  BY DEF TypeOK, Intact, Handled, OpenTemporary, Goto, Saving, Loaded
<1> QED
  BY <1>2, <1>3 DEF Intact, Alone, Handled, Damaged, OpenTemporary, InCommand

LEMMA IntactWrite ==
    ASSUME TypeOK, Intact, NEW p \in Processes, WriteTemporary(p) PROVE Intact'
<1>1. InCommand(p)
  BY DEF WriteTemporary, InCommand
<1>2. handle[p] = "tmp" /\ tmp = Empty /\ Saving(p)
  BY DEF Intact, Handled, WriteTemporary
<1>3. /\ tmp' = AsRead(store[p]) /\ UNCHANGED <<file, disk>>
      /\ handle' = [handle EXCEPT ![p] = "none"]
  BY <1>2 DEF WriteTemporary, Put, Overwritten
<1>4. \A q \in Processes : q # p => ~InCommand(q)' /\ handle'[q] = "none"
  BY <1>1, <1>3, NoneInCommand DEF TypeOK, WriteTemporary, Goto, InCommand
<1>5. Saving(p)' /\ pc'[p] = "rename" /\ handle'[p] = "none" /\ tmp' = AsRead(store'[p])
  BY <1>2, <1>3 DEF TypeOK, WriteTemporary, Goto, Saving, Loaded
<1> QED
  BY <1>3, <1>4, <1>5 DEF Intact, Alone, Handled, Damaged, InCommand

LEMMA IntactRename ==
    ASSUME TypeOK, Intact, NEW p \in Processes, RenameTemporary(p) PROVE Intact'
<1>1. InCommand(p)
  BY DEF RenameTemporary, InCommand
<1>2. tmp = AsRead(store[p]) /\ Saving(p) /\ ~Damaged
  BY DEF Intact, Handled, RenameTemporary
<1>3. \A q \in Processes : handle[q] = "none"
  BY <1>1, NoneInCommand DEF Intact, Handled, RenameTemporary
<1>4. \A q \in Processes : handle'[q] = "none"
  BY <1>3 DEF RenameTemporary
<1>5. \A q \in Processes : q # p => ~InCommand(q)'
  BY <1>1, NoneInCommand DEF TypeOK, RenameTemporary, Goto, InCommand
<1>6. file' = AsRead(store[p]) /\ file' \in Stores /\ pc'[p] = "report" /\ UNCHANGED <<store, creating>>
  BY <1>2, SavedIs DEF TypeOK, RenameTemporary, Goto
<1>7. file' # Absent /\ ~Damaged'
  BY <1>6, ContentsDistinct DEF Damaged
<1>8. creating[p] \in Plain =>
          creating[p] \in DOMAIN file' /\ file'[creating[p]] = store[p][creating[p]]
  BY <1>2, <1>6, SavedIs
<1>9. Handled(p)'
  BY <1>4, <1>6, <1>7, <1>8 DEF Handled
<1> QED
  BY <1>4, <1>5, <1>7, <1>9 DEF Intact, Alone, Handled, InCommand

(* A command that ends leaves no trace but, perhaps, its temporary file.        *)
LEMMA IntactForget ==
    ASSUME TypeOK, Intact, NEW p \in Processes, NEW label \in {"out", "ready"},
           Forget(p, label), file' = file, handle' = [handle EXCEPT ![p] = "none"],
           tmp' = tmp \/ InCommand(p)
    PROVE  Intact'
<1>1. ~InCommand(p)' /\ handle'[p] = "none" /\ pc'[p] = label
  BY DEF TypeOK, Forget, Goto, InCommand
<1>2. \A q \in Processes : q # p =>
          pc'[q] = pc[q] /\ store'[q] = store[q] /\ creating'[q] = creating[q] /\ handle'[q] = handle[q]
  BY DEF TypeOK, Forget, Goto
<1>3. ASSUME NEW q \in Processes, q # p PROVE Handled(q)'
  <2>1. CASE InCommand(p)
    BY <1>2, <1>3, <2>1, NoneInCommand DEF Handled, InCommand
  <2>2. CASE tmp' = tmp
    BY <1>2, <1>3, <2>2 DEF Intact, Handled, Saving, Loaded
  <2> QED
    BY <2>1, <2>2
<1>4. Handled(p)'
  BY <1>1 DEF Handled
<1>5. Alone'
  BY <1>1, <1>2 DEF Intact, Alone, InCommand
<1> QED
  BY <1>3, <1>4, <1>5 DEF Intact, Damaged

LEMMA IntactPowerLoss == ASSUME Intact, PowerLoss, ~disturbed' PROVE Intact'
<1>1. disk = {file}
  BY DEF PowerLoss
<1>2. file' = file
  BY <1>1 DEF PowerLoss
<1>3. \A p \in Processes : pc'[p] = "out" /\ handle'[p] = "none"
  BY DEF PowerLoss
<1> QED
  BY <1>2, <1>3 DEF Intact, Damaged, Alone, Handled, InCommand

LEMMA NextIntact == ASSUME IInv, [Next]_vars PROVE IInv'
<1>1. TypeOK'
  BY NextType DEF IInv
<1> SUFFICES ASSUME ~disturbed' PROVE Intact'
  BY <1>1 DEF IInv
<1>2. ~disturbed
  BY DEF Next, vars, Start, Load, OpenTemporary, WriteTemporary, WriteFails, RenameTemporary,
         SaveFails, Report, End, WriteBack, PowerLoss
<1>3. TypeOK /\ Intact
  BY <1>2 DEF IInv
<1>4. ASSUME NEW p \in Processes, WriteFails(p) PROVE Intact'
  <2>1. handle[p] = "tmp" /\ InCommand(p)
    BY <1>3, <1>4 DEF Intact, Handled, WriteFails, InCommand
  <2> QED
    BY <1>3, <1>4, <2>1, IntactForget DEF WriteFails, Put
<1>5. ASSUME NEW p \in Processes, SaveFails(p) \/ Report(p) PROVE Intact'
  <2>1. handle[p] = "none"
    BY <1>3, <1>5 DEF Intact, Handled, SaveFails, Report
  <2>2. handle' = [handle EXCEPT ![p] = "none"]
    BY <1>3, <1>5, <2>1 DEF TypeOK, SaveFails, Report
  <2> QED
    BY <1>3, <1>5, <2>2, IntactForget DEF SaveFails, Report
<1>6. ASSUME NEW p \in Processes, End(p) PROVE Intact'
  BY <1>3, <1>6, IntactForget DEF End
<1>7. CASE WriteBack
  BY <1>3, <1>7 DEF WriteBack, procVars, Intact, Alone, Handled, Saving, Loaded, Damaged, InCommand
<1>8. CASE UNCHANGED vars
  BY <1>3, <1>8 DEF vars, procVars, Intact, Alone, Handled, Saving, Loaded, Damaged, InCommand
<1> QED
  BY <1>3, <1>4, <1>5, <1>6, <1>7, <1>8, IntactStart, IntactLoad, IntactOpen, IntactWrite,
     IntactRename, IntactPowerLoss DEF Next

-----------------------------------------------------------------------------
(* Refinement *)

LEMMA VisibleUnchanged == ASSUME file' = file PROVE Visible' = Visible
BY DEF Visible

LEMMA CreatesWallet ==
    ASSUME TypeOK, Intact, NEW p \in Processes, RenameTemporary(p)
    PROVE  \/ Visible' = Visible
           \/ \E name \in Plain, key \in Keys : name \notin DOMAIN Visible /\ Visible' = Promise!Given(Visible, name, key)
<1>1. tmp = AsRead(store[p]) /\ Saving(p) /\ ~Damaged /\ file' = tmp
  BY DEF Intact, Handled, RenameTemporary
<1>2. /\ file' \in Stores
      /\ DOMAIN file' \cap Plain = (DOMAIN Loaded \cup {creating[p]}) \cap Plain
      /\ \A name \in DOMAIN Loaded \cap Plain : file'[name] = Loaded[name]
      /\ creating[p] \in Plain => file'[creating[p]] = store[p][creating[p]]
  BY <1>1, SavedIs
<1>3. Visible = [name \in DOMAIN Loaded \cap Plain |-> Loaded[name]]
  BY <1>1, VisibleIs
<1>4. Visible' = [name \in DOMAIN file' \cap Plain |-> file'[name]]
  BY <1>2, ContentsDistinct DEF Visible
<1>5. PICK key \in Keys : store[p] = With(Loaded, creating[p], key)
  BY <1>1 DEF Saving
<1>6. store[p][creating[p]] = key
  BY <1>5 DEF With
<1>7. CASE creating[p] \notin Plain
  <2>1. DOMAIN file' \cap Plain = DOMAIN Loaded \cap Plain
    BY <1>2, <1>7
  <2> QED
    BY <2>1, <1>2, <1>3, <1>4
<1>8. CASE creating[p] \in Plain
  <2>1. creating[p] \notin DOMAIN Visible
    BY <1>1, <1>3 DEF Saving
  <2>2. DOMAIN Visible' = DOMAIN Visible \cup {creating[p]}
    BY <1>2, <1>3, <1>4, <1>8
  <2>3. \A name \in DOMAIN Visible : name # creating[p] /\ Visible'[name] = Visible[name]
    BY <1>2, <1>3, <1>4, <2>1
  <2>4. Visible'[creating[p]] = key
    BY <1>2, <1>4, <1>6, <1>8, <2>2
  <2>5. Visible' = [n \in DOMAIN Visible' |-> Visible'[n]]
    BY <1>4
  <2>6. Visible' = Promise!Given(Visible, creating[p], key)
    BY <2>2, <2>3, <2>4, <2>5 DEF Promise!Given
  <2> QED
    BY <1>8, <2>1, <2>6
<1> QED
  BY <1>7, <1>8

LEMMA TellsWallet ==
    ASSUME TypeOK, Intact, NEW p \in Processes, Report(p), creating[p] \in Plain
    PROVE  /\ creating[p] \in DOMAIN Visible
           /\ VisibleTold' = VisibleTold \cup {<<creating[p], Visible[creating[p]]>>}
<1>1. /\ file # Absent /\ ~Damaged /\ creating[p] \in DOMAIN file
      /\ file[creating[p]] = store[p][creating[p]]
  BY DEF Intact, Handled, Report
<1>2. creating[p] \in DOMAIN Visible /\ Visible[creating[p]] = store[p][creating[p]]
  BY <1>1 DEF Visible, Damaged
<1> QED
  BY <1>2 DEF VisibleTold, Report

LEMMA NextImplements == ASSUME IInv, [Next]_vars PROVE [Promise!Next]_<<Visible, VisibleTold, disturbed>>
<1> DEFINE view == <<Visible, VisibleTold, disturbed>>
<1>1. CASE disturbed'
  BY <1>1 DEF Promise!Next
<1>2. CASE ~disturbed'
  <2>1. ~disturbed
    BY <1>2 DEF Next, vars, Start, Load, OpenTemporary, WriteTemporary, WriteFails, RenameTemporary,
           SaveFails, Report, End, WriteBack, PowerLoss
  <2>2. TypeOK /\ Intact /\ disturbed \in BOOLEAN /\ disturbed' \in BOOLEAN
    BY <2>1, NextType DEF IInv, TypeOK
  <2>3. UNCHANGED disturbed
    BY <1>2, <2>1, <2>2
  <2>4. ASSUME file' = file, told' = told PROVE UNCHANGED view
    BY <2>3, <2>4, VisibleUnchanged DEF VisibleTold
  <2>5. ASSUME NEW p \in Processes, RenameTemporary(p) PROVE Promise!Next \/ UNCHANGED view
    <3>1. VisibleTold' = VisibleTold
      BY <2>5 DEF RenameTemporary, VisibleTold
    <3> QED
      BY <1>2, <2>1, <2>2, <2>3, <2>5, <3>1, CreatesWallet DEF Promise!Next, Promise!Create, VisibleTold
  <2>6. ASSUME NEW p \in Processes, Report(p) PROVE Promise!Next \/ UNCHANGED view
    <3>1. Visible' = Visible
      BY <2>6, VisibleUnchanged DEF Report
    <3>2. CASE creating[p] \in Plain
      <4>1. \E key \in Keys : TRUE
        BY <2>2, <2>6, MaxKeysAssumption DEF TypeOK, Report, InCommand, StoresOf
      <4>2. Promise!Tell(creating[p])
        BY <2>2, <2>6, <3>1, <3>2, TellsWallet DEF Promise!Tell, VisibleTold
      <4>3. \E name \in Plain, key \in Keys : Promise!Create(name, key) \/ Promise!Tell(name)
        BY <3>2, <4>1, <4>2 DEF Promise!Tell
      <4> QED
        BY <1>2, <2>1, <4>3 DEF Promise!Next
    <3>3. CASE creating[p] \notin Plain
      <4>1. VisibleTold' = VisibleTold
        BY <2>6, <3>3 DEF Report, VisibleTold
      <4> QED
        BY <2>3, <3>1, <4>1
    <3> QED
      BY <3>2, <3>3
  <2>7. ASSUME NEW p \in Processes, WriteTemporary(p) \/ WriteFails(p) PROVE UNCHANGED view
    <3>1. handle[p] = "tmp"
      BY <2>2, <2>7 DEF Intact, Handled, WriteTemporary, WriteFails
    <3>2. file' = file /\ told' = told
      BY <2>7, <3>1 DEF WriteTemporary, WriteFails, Put
    <3> QED
      BY <2>4, <3>2
  <2>8. CASE PowerLoss
    <3>1. disk = {file}
      BY <1>2, <2>8 DEF PowerLoss
    <3>2. file' = file /\ told' = told
      BY <2>8, <3>1 DEF PowerLoss
    <3> QED
      BY <2>4, <3>2
  <2>9. ASSUME NEW p \in Processes,
               Start(p) \/ (\E name \in Names : Load(p, name)) \/ OpenTemporary(p) \/ SaveFails(p) \/ End(p)
        PROVE  UNCHANGED view
    BY <2>4, <2>9 DEF Start, Load, OpenTemporary, SaveFails, End
  <2>10. CASE WriteBack \/ UNCHANGED vars
    BY <2>4, <2>10 DEF WriteBack, vars
  <2> QED
    BY <2>5, <2>6, <2>7, <2>8, <2>9, <2>10 DEF Next
<1> QED
  BY <1>1, <1>2

(* The wallet file keeps what it promises until two commands overlap or power   *)
(* fails too early (cli.go, cmdWalletCreate).                                   *)
THEOREM KeysAreKept == Spec => ImplementsKeyStore
<1>1. Init => Promise!Init
  BY DEF Init, Promise!Init, Visible, NoWallets
<1>2. IInv /\ [Next]_vars => [Promise!Next]_<<Visible, VisibleTold, disturbed>>
  BY NextImplements
<1>3. IInv /\ [Next]_vars => [Promise!Next]_(Promise!vars)
  BY <1>2 DEF Promise!vars, VisibleTold
<1>4. IInv /\ [Next]_vars => IInv'
  BY NextIntact
<1> QED
  BY <1>1, <1>3, <1>4, InitIntact, PTL DEF Spec, ImplementsKeyStore, Promise!Spec
==========================================================================
