---------------------------- MODULE NodeProofs ----------------------------
(***************************************************************************)
(* Theorems about Node.tla, for any number of nodes, accounts, payments    *)
(* and policies and for any bounds.  The inductive invariant Inv says of   *)
(* every chain what Chain.Validate would find and what it does not look    *)
(* at: that the pool replays, that blocks keep to the chain's block size,  *)
(* and that nothing is younger than the clock.                             *)
(***************************************************************************)
EXTENDS Node, ChainProofs

-----------------------------------------------------------------------------
(* Transactions that can be met *)

Names == Accounts \cup {Blank}

Signatures ==
    {tx.signature : tx \in TxPool} \cup {Unsigned}
        \cup {Signed(q[1], q[2], q[3], q[4]).signature : q \in Names \X Names \X Int \X Nat}

Tx == [sender : Names, recipient : Names, amount : Int, nonce : Nat, signature : Signatures]

LEMMA TxClosed == IsClosed(Tx)
<1> SUFFICES ASSUME NEW tx \in Tx PROVE IsTransaction(tx) /\ TransactionRead(tx) \in Tx
  BY DEF IsClosed
<1>1. /\ tx = [sender |-> tx.sender, recipient |-> tx.recipient, amount |-> tx.amount,
               nonce |-> tx.nonce, signature |-> tx.signature]
      /\ tx.sender \in Names /\ tx.recipient \in Names
      /\ tx.amount \in Int /\ tx.nonce \in Nat /\ tx.signature \in Signatures
  BY DEF Tx
<1>2. IsTransaction(tx)
  BY ONLY <1>1 DEF IsTransaction, Names
<1>3. TransactionRead(tx) =
                [sender |-> NameRead(tx.sender), recipient |-> NameRead(tx.recipient),
                 amount |-> tx.amount, nonce |-> tx.nonce, signature |-> tx.signature]
  BY <1>2, TransactionReadFields
<1>4. NameRead(tx.sender) \in Names /\ NameRead(tx.recipient) \in Names
  BY <1>1, NameReadIsName DEF Names
<1> DEFINE sender == NameRead(tx.sender)
           recipient == NameRead(tx.recipient)
<1>5. [sender |-> sender, recipient |-> recipient,
       amount |-> tx.amount, nonce |-> tx.nonce, signature |-> tx.signature] \in Tx
  <2>1. sender \in Names /\ recipient \in Names
    BY <1>4
  <2> HIDE DEF sender, recipient
  <2> QED
    BY ONLY <1>1, <2>1 DEF Tx
<1> QED
  BY <1>2, <1>3, <1>5

LEMMA PoolTx == \A tx \in TxPool : tx \in Tx
<1> SUFFICES ASSUME NEW tx \in TxPool PROVE tx \in Tx
  OBVIOUS
<1> DEFINE given == {t.signature : t \in TxPool}
<1>1. tx \in [sender : Names, recipient : Names, amount : Int, nonce : Nat, signature : given]
  BY TxPoolAssumption DEF Names
<1>2. given \subseteq Signatures
  BY DEF Signatures
<1> HIDE DEF given
<1> QED
  BY <1>1, <1>2 DEF Tx

LEMMA FaucetTxIsTx ==
    ASSUME NEW to \in Names, NEW amount \in Int
    PROVE  FaucetTx(to, amount) \in Tx
<1>1. Unsigned \in Signatures /\ Faucet \in Names
  BY FaucetAssumption DEF Signatures, Names
<1> QED
  BY <1>1 DEF FaucetTx, Tx

LEMMA SignedIsTx ==
    ASSUME NEW key \in Names, NEW to \in Names, NEW amount \in Int, NEW nonce \in Nat
    PROVE  Signed(key, to, amount, nonce) \in Tx
<1> DEFINE tx == Signed(key, to, amount, nonce)
           signature == tx.signature
<1>1. signature \in Signatures
  <2> DEFINE q == <<key, to, amount, nonce>>
  <2>1. q \in Names \X Names \X Int \X Nat /\ q[1] = key /\ q[2] = to /\ q[3] = amount /\ q[4] = nonce
    OBVIOUS
  <2> HIDE DEF q
  <2>2. signature = Signed(q[1], q[2], q[3], q[4]).signature
    BY <2>1
  <2> QED
    BY <2>1, <2>2 DEF Signatures
<1>2. tx = [sender |-> key, recipient |-> to, amount |-> amount, nonce |-> nonce,
            signature |-> signature]
  BY DEF Signed
<1> HIDE DEF tx, signature
<1>3. tx \in Tx
  BY <1>1, <1>2 DEF Tx
<1> QED
  BY <1>3 DEF tx

-----------------------------------------------------------------------------
(* The inductive invariant *)

IsFunction(f) == f = [x \in DOMAIN f |-> f[x]]

ScheduleOK(c) ==
    /\ IsFunction(c.schedule)
    /\ 0 \in DOMAIN c.schedule
    /\ \A h \in DOMAIN c.schedule : h \in 0 .. Len(c.blocks) /\ c.schedule[h] \in 0 .. MaxDifficulty64

(* Block i of c, seen at time t. *)
BlockOK(c, i, t) ==
    /\ IsBlock(c.blocks[i])
    /\ c.blocks[i].height = i - 1
    /\ c.blocks[i].time \in 0 .. t
    /\ c.blocks[i].nonce \in Nat
    /\ Len(c.blocks[i].transactions) <= c.maxTx
    /\ c.blocks[i].difficulty = ExpectedDifficulty(c, i - 1)
    /\ Intact(c.blocks[i])
    /\ i > 1 => Follows(c.blocks[i], c.blocks[i - 1])

ChainOK(c, t) ==
    /\ Holds(Tx, c)
    /\ Len(c.blocks) \in 1 .. MaxHeight + 1
    /\ c.maxTx \in Nat \ {0}
    /\ c.retarget \in Policies /\ ValidRetarget(c.retarget)
    /\ ScheduleOK(c)
    /\ \E d \in 0 .. MaxDifficulty64 : c.blocks[1] = Genesis(d)
    /\ \A i \in 1 .. Len(c.blocks) : BlockOK(c, i, t)
    /\ PendingLedger(c) # Rejected

Inv ==
    /\ now \in 1 .. MaxTime
    /\ chain = [n \in Nodes |-> chain[n]]
    /\ \A n \in Nodes : ChainOK(chain[n], now)

-----------------------------------------------------------------------------
(* Genesis *)

LEMMA GenesisFields ==
    ASSUME NEW d
    PROVE  /\ IsBlock(Genesis(d))
           /\ Genesis(d) =
                [height |-> 0, time |-> 0, transactions |-> <<>>, root |-> EmptyRoot,
                 prev |-> GenesisPrevHash, difficulty |-> d, nonce |-> 0,
                 hash |-> <<0, 0, EmptyRoot, GenesisPrevHash, 0, d>>]
           /\ Intact(Genesis(d))
<1> DEFINE b == Genesis(d)
<1>1. b = [height |-> 0, time |-> 0, transactions |-> <<>>, root |-> EmptyRoot,
           prev |-> GenesisPrevHash, difficulty |-> d, nonce |-> 0,
           hash |-> <<0, 0, EmptyRoot, GenesisPrevHash, 0, d>>]
  BY DEF Genesis, Sealed, ComputeHash
<1> HIDE DEF b
<1>2. IsBlock(b)
  BY ONLY <1>1 DEF IsBlock
<1>3. MerkleRoot(<<>>) = EmptyRoot
  <2>1. Texts(<<>>) = <<>>
    BY DEF Texts
  <2> QED
    BY <2>1 DEF MerkleRoot, CalculateMerkleRoot
<1>4. Intact(b)
  BY <1>1, <1>3 DEF Intact, ComputeHash
<1> QED
  BY <1>1, <1>2, <1>4 DEF b

LEMMA NewChainOK ==
    ASSUME NEW difficulty \in Genesises, NEW policy \in Policies, NEW size \in BlockSizes,
           CanCreate(difficulty, policy), NEW t \in Nat
    PROVE  LET c == NewChain(difficulty, policy, size) IN
           ChainOK(c, t) /\ Transactions(c.blocks) \o c.pending = <<>>
<1> DEFINE x == StartDifficulty(difficulty)
           g == Genesis(x)
           schedule == [h \in {0} |-> x]
           maxTx == IF size <= 0 THEN DefaultMaxTxPerBlock ELSE size
           c == NewChain(difficulty, policy, size)
<1>1. c = [blocks |-> <<g>>, pending |-> <<>>, schedule |-> schedule, retarget |-> policy,
           maxTx |-> maxTx]
  BY DEF NewChain
<1>2. x \in 0 .. MaxDifficulty64 /\ ValidRetarget(policy)
  BY DEF CanCreate, ValidRetarget, MaxDifficulty64
<1>3. maxTx \in Nat \ {0}
  BY BlockSizeAssumption DEF DefaultMaxTxPerBlock
<1>4. schedule = [h \in DOMAIN schedule |-> schedule[h]] /\ DOMAIN schedule = {0} /\ schedule[0] = x
  OBVIOUS
<1>5. /\ IsBlock(g)
      /\ g = [height |-> 0, time |-> 0, transactions |-> <<>>, root |-> EmptyRoot,
              prev |-> GenesisPrevHash, difficulty |-> x, nonce |-> 0,
              hash |-> <<0, 0, EmptyRoot, GenesisPrevHash, 0, x>>]
      /\ Intact(g)
  BY GenesisFields
<1> HIDE DEF x, schedule, maxTx, c
<1>6. x = x /\ \E d \in 0 .. MaxDifficulty64 : g = Genesis(d)
  BY <1>2
<1> HIDE DEF g
<1>7. IsChain(c) /\ c.blocks = <<g>> /\ c.pending = <<>> /\ c.schedule = schedule
       /\ c.retarget = policy /\ c.maxTx = maxTx
  BY ONLY <1>1 DEF IsChain
<1>8. Len(<<g>>) = 1 /\ <<g>>[1] = g /\ IsList(<<g>>)
  <2>1. <<g>> \in Seq({g})
    OBVIOUS
  <2> QED
    BY <2>1, SeqIsList
<1>9. Holds(Tx, c)
  <2>1. <<>> \in Seq(Tx)
    BY EmptySeq
  <2>2. g.transactions = <<>>
    BY <1>5
  <2>3. ASSUME NEW i \in 1 .. Len(c.blocks) PROVE c.blocks[i].transactions \in Seq(Tx)
    <3>1. i = 1 /\ c.blocks[i] = g
      BY <1>7, <1>8
    <3> QED
      BY <3>1, <2>1, <2>2
  <2>4. IsList(c.blocks) /\ c.pending \in Seq(Tx)
    BY <1>7, <1>8, <2>1
  <2> QED
    BY ONLY <1>7, <2>3, <2>4 DEF Holds
<1>10. ScheduleOK(c)
  BY <1>2, <1>4, <1>7, <1>8 DEF ScheduleOK, IsFunction
<1>11. ASSUME NEW i \in 1 .. Len(c.blocks) PROVE BlockOK(c, i, t)
  <2>1. i = 1 /\ c.blocks[i] = g /\ i - 1 = 0
    BY <1>7, <1>8
  <2>2. ExpectedDifficulty(c, 0) = x
    BY <1>4, <1>7, ExpectedFirst DEF FirstDifficulty
  <2>3. /\ g.height = 0 /\ g.time = 0 /\ g.nonce = 0
        /\ g.difficulty = x /\ g.transactions = <<>>
    BY <1>5
  <2>4. Len(<<>>) = 0
    OBVIOUS
  <2>5. ~(i > 1)
    BY <2>1
  <2> QED
    BY <1>3, <1>5, <1>7, <2>1, <2>2, <2>3, <2>4, <2>5 DEF BlockOK
<1>12. Transactions(c.blocks) = <<>>
  <2> DEFINE s == [i \in DOMAIN c.blocks |-> c.blocks[i].transactions]
  <2>1. DOMAIN c.blocks = 1 .. 1 /\ c.blocks[1] = g
    BY <1>7, <1>8
  <2>2. s = [i \in 1 .. 1 |-> s[i]] /\ s[1] = <<>> /\ Len(s) = 1
    BY <1>5, <2>1
  <2>3. Transactions(c.blocks) = FlattenSeq(s)
    BY DEF Transactions
  <2> HIDE DEF s
  <2>4. PICK flat : IsFlatten(flat, s, 1) /\ FlattenSeq(s) = flat[1]
    <3>1. 1 \in Nat /\ 1 # 0 /\ Len(s) = 1
      BY <2>2
    <3>2. \E flat : IsFlatten(flat, s, 1) /\ FlattenSeq(s) = flat[1]
      BY ONLY <3>1, FlattenResult
    <3> QED
      BY ONLY <3>2
  <2>5. flat[1] = FlattenThen(s, 1, flat[0])
    <3>1. \A i \in 1 .. 1 : flat[i] = FlattenThen(s, i, flat[i - 1])
      BY <2>4, FlattenSteps
    <3> QED
      BY <3>1
  <2> QED
    BY <2>2, <2>3, <2>4, <2>5 DEF FlattenThen
<1>13. Transactions(c.blocks) \o c.pending = <<>>
  BY <1>7, <1>12
<1>14. PendingLedger(c) # Rejected
  BY <1>13, ReplayEmpty, NewLedgerIsLedger, LedgerIsNotRejected DEF PendingLedger
<1>15. Len(c.blocks) \in 1 .. MaxHeight + 1
  BY <1>7, <1>8, BoundsAssumption
<1>16. ChainOK(c, t)
  BY <1>2, <1>3, <1>6, <1>7, <1>8, <1>9, <1>10, <1>11, <1>14, <1>15 DEF ChainOK
<1> QED
  BY <1>13, <1>16 DEF c

-----------------------------------------------------------------------------
(* What each operation makes of a chain *)

LEMMA PolicyFields ==
    ASSUME NEW r \in Policies, ValidRetarget(r)
    PROVE  /\ r.enabled \in BOOLEAN
           /\ r.interval \in Nat /\ r.interval >= 2
           /\ r.min \in 0 .. MaxDifficulty64 /\ r.max \in 0 .. MaxDifficulty64 /\ r.min <= r.max
<1>1. r \in [enabled : BOOLEAN, interval : Int, target : Int, min : Int, max : Int]
  BY PolicyAssumption
<1> QED
  BY <1>1 DEF ValidRetarget

(* The shape of a chain that is in order, for the lemmas below. *)
LEMMA ChainFields ==
    ASSUME NEW c, NEW t, ChainOK(c, t)
    PROVE  /\ IsChain(c)
           /\ IsList(c.blocks) /\ Len(c.blocks) \in Nat \ {0}
           /\ DOMAIN c.blocks = 1 .. Len(c.blocks)
           /\ c.blocks[Len(c.blocks)].height = Len(c.blocks) - 1
           /\ c.retarget.interval \in Nat \ {0}
<1>1. IsChain(c) /\ IsList(c.blocks) /\ Len(c.blocks) \in 1 .. MaxHeight + 1
  BY DEF ChainOK, Holds
<1>2. Len(c.blocks) \in Nat \ {0} /\ Len(c.blocks) \in 1 .. Len(c.blocks)
  BY <1>1 DEF IsList
<1>3. DOMAIN c.blocks = 1 .. Len(c.blocks)
  BY <1>1 DEF IsList
<1>4. BlockOK(c, Len(c.blocks), t)
  BY <1>2 DEF ChainOK
<1>5. c.retarget.interval \in Nat \ {0}
  BY PolicyFields DEF ChainOK
<1> QED
  BY <1>1, <1>2, <1>3, <1>4, <1>5 DEF BlockOK

(* Two chains whose rules and times are the same below a height. *)
LEMMA SameExpected ==
    ASSUME NEW c, NEW d, NEW h \in Nat, c.schedule = d.schedule, c.retarget = d.retarget,
           c.retarget.interval \in Nat \ {0}, Len(c.blocks) \in Nat, Len(d.blocks) \in Nat,
           h <= Len(c.blocks), h <= Len(d.blocks),
           \A k \in 1 .. h : c.blocks[k] = d.blocks[k]
    PROVE  ExpectedDifficulty(c, h) = ExpectedDifficulty(d, h)
<1>1. \A i \in 0 .. h : SameRule(c, d, i)
  BY DEF SameRule
<1>2. \A k \in 1 .. h : c.blocks[k].time = d.blocks[k].time
  OBVIOUS
<1> QED
  BY <1>1, <1>2, ExpectedSame

LEMMA SameBlocksOK ==
    ASSUME NEW c, NEW t, ChainOK(c, t), NEW d, Holds(Tx, d), PendingLedger(d) # Rejected,
           d.blocks = c.blocks, d.schedule = c.schedule, d.retarget = c.retarget, d.maxTx = c.maxTx
    PROVE  ChainOK(d, t)
<1>1. Len(c.blocks) \in Nat \ {0} /\ c.retarget.interval \in Nat \ {0}
  BY ChainFields
<1>2. ASSUME NEW i \in 1 .. Len(d.blocks) PROVE BlockOK(d, i, t)
  <2>1. BlockOK(c, i, t)
    BY DEF ChainOK
  <2>2. ExpectedDifficulty(c, i - 1) = ExpectedDifficulty(d, i - 1)
    <3>1. i - 1 \in Nat /\ i - 1 <= Len(c.blocks)
      BY <1>1
    <3> QED
      BY <3>1, <1>1, SameExpected
  <2> QED
    BY <2>1, <2>2 DEF BlockOK
<1> QED
  BY <1>2 DEF ChainOK, ScheduleOK

LEMMA LaterOK ==
    ASSUME NEW c, NEW t \in Nat, NEW u \in Nat, t <= u, ChainOK(c, t)
    PROVE  ChainOK(c, u)
<1>1. ASSUME NEW i \in 1 .. Len(c.blocks) PROVE BlockOK(c, i, u)
  <2>1. BlockOK(c, i, t)
    BY DEF ChainOK
  <2> QED
    BY <2>1 DEF BlockOK
<1> QED
  BY <1>1 DEF ChainOK

LEMMA AddOK ==
    ASSUME NEW c, NEW t, ChainOK(c, t), NEW tx \in Tx, CanAdd(c, tx)
    PROVE  ChainOK(AddPending(c, tx), t)
<1> DEFINE more == Append(c.pending, tx)
           d == WithPool(c, more)
<1>1. AddPending(c, tx) = d
  BY DEF AddPending, WithPool
<1>2. Holds(Tx, c) /\ \A x \in Tx : IsTransaction(x)
  BY TxClosed DEF ChainOK, IsClosed
<1>3. PendingLedger(d) # Rejected /\ Holds(Tx, d)
  BY <1>2, PoolGrows
<1>4. more \in Seq(Tx)
  BY <1>2, AppendProperties DEF Holds
<1> HIDE DEF more
<1>5. d = [blocks |-> c.blocks, pending |-> more, schedule |-> c.schedule,
           retarget |-> c.retarget, maxTx |-> c.maxTx]
  BY <1>2, <1>4, WithPoolFields
<1> HIDE DEF d
<1>6. d.blocks = c.blocks /\ d.schedule = c.schedule /\ d.retarget = c.retarget /\ d.maxTx = c.maxTx
  BY <1>5
<1> QED
  BY <1>1, <1>3, <1>6, SameBlocksOK

LEMMA NewBlockFields ==
    ASSUME NEW c, NEW time, NEW nonce
    PROVE  /\ IsBlock(NewBlock(c, time, nonce))
           /\ Intact(NewBlock(c, time, nonce))
           /\ NewBlock(c, time, nonce).height = Height(c) + 1
           /\ NewBlock(c, time, nonce).time = time
           /\ NewBlock(c, time, nonce).nonce = nonce
           /\ NewBlock(c, time, nonce).transactions = Batch(c)
           /\ NewBlock(c, time, nonce).prev = Latest(c).hash
           /\ NewBlock(c, time, nonce).difficulty = NextDifficulty(c)
<1> DEFINE b == NewBlock(c, time, nonce)
           batch == Batch(c)
           root == MerkleRoot(batch)
           height == Height(c) + 1
           prev == Latest(c).hash
           difficulty == NextDifficulty(c)
           hash == <<height, time, root, prev, nonce, difficulty>>
<1>1. b = [height |-> height, time |-> time, transactions |-> batch, root |-> root, prev |-> prev,
           difficulty |-> difficulty, nonce |-> nonce, hash |-> hash]
  <2> HIDE DEF batch, root, height, prev, difficulty
  <2>1. b = Sealed([height |-> height, time |-> time, transactions |-> batch, root |-> root,
                    prev |-> prev, difficulty |-> difficulty, nonce |-> nonce, hash |-> <<>>])
    BY DEF NewBlock, batch, root, height, prev, difficulty
  <2> QED
    BY <2>1 DEF Sealed, ComputeHash
<1> HIDE DEF b, height, prev, difficulty, batch, root
<1>2. IsBlock(b)
  BY ONLY <1>1 DEF IsBlock
<1>3. Intact(b)
  BY <1>1 DEF Intact, ComputeHash, root
<1> QED
  BY <1>1, <1>2, <1>3 DEF b, height, prev, difficulty, batch

LEMMA MineOK ==
    ASSUME NEW c, NEW t \in Nat, ChainOK(c, t), Height(c) < MaxHeight, NEW nonce \in Nat
    PROVE  ChainOK(Mined(c, t, nonce), t)
<1> DEFINE b == NewBlock(c, t, nonce)
           d == Mined(c, t, nonce)
           n == Len(c.blocks)
<1>1. IsChain(c) /\ IsList(c.blocks) /\ n \in Nat \ {0} /\ Height(c) = n - 1
       /\ c.retarget.interval \in Nat \ {0}
  BY ChainFields DEF Height
<1>2. Holds(Tx, c) /\ c.maxTx \in Nat /\ PendingLedger(c) # Rejected /\ ScheduleOK(c)
       /\ \A i \in 1 .. n : BlockOK(c, i, t)
  BY DEF ChainOK
<1>3. /\ Holds(Tx, d)
      /\ PendingLedger(d) = PendingLedger(c)
      /\ Batch(c) \in Seq(Tx) /\ Len(Batch(c)) <= c.maxTx
  BY <1>2, MinedLedger
<1>4. /\ IsBlock(b) /\ Intact(b)
      /\ b.height = n
      /\ b.time = t
      /\ b.nonce = nonce
      /\ b.transactions = Batch(c)
      /\ b.prev = c.blocks[n].hash
      /\ b.difficulty = ExpectedDifficulty(c, n)
  BY <1>1, NewBlockFields DEF Latest, NextDifficulty
<1>5. d.blocks = Append(c.blocks, b) /\ d.schedule = c.schedule /\ d.retarget = c.retarget
       /\ d.maxTx = c.maxTx
  <2> DEFINE rest == SubSeq(c.pending, Len(Batch(c)) + 1, Len(c.pending))
             blocks == Append(c.blocks, b)
  <2>1. d = [c EXCEPT !.blocks = blocks, !.pending = rest]
    BY DEF Mined
  <2>2. c = [blocks |-> c.blocks, pending |-> c.pending, schedule |-> c.schedule,
             retarget |-> c.retarget, maxTx |-> c.maxTx]
    BY <1>1 DEF IsChain
  <2> HIDE DEF blocks, rest, d
  <2>3. d = [blocks |-> blocks, pending |-> rest, schedule |-> c.schedule,
             retarget |-> c.retarget, maxTx |-> c.maxTx]
    BY ONLY <2>1, <2>2
  <2> QED
    BY <2>3 DEF blocks
<1> HIDE DEF b, d
<1>6. /\ IsList(d.blocks)
      /\ Len(d.blocks) = n + 1
      /\ \A i \in 1 .. n : d.blocks[i] = c.blocks[i]
      /\ d.blocks[n + 1] = b
  BY <1>1, <1>5, ListAppend
<1> HIDE DEF n
<1>7. ASSUME NEW h \in 0 .. n PROVE ExpectedDifficulty(c, h) = ExpectedDifficulty(d, h)
  <2>1. h \in Nat /\ h <= n /\ h <= Len(d.blocks) /\ Len(d.blocks) \in Nat
         /\ \A k \in 1 .. h : c.blocks[k] = d.blocks[k]
    BY <1>1, <1>6
  <2>2. h <= Len(c.blocks) /\ Len(c.blocks) \in Nat
    BY <2>1, <1>1 DEF n
  <2>3. c.schedule = d.schedule /\ c.retarget = d.retarget
    BY <1>5
  <2> QED
    BY ONLY <2>1, <2>2, <2>3, <1>1, SameExpected
<1>8. ASSUME NEW i \in 1 .. Len(d.blocks) PROVE BlockOK(d, i, t)
  <2>1. CASE i <= n
    <3>1. i \in 1 .. n /\ i - 1 \in 0 .. n /\ d.blocks[i] = c.blocks[i]
      BY <2>1, <1>1, <1>6
    <3>2. BlockOK(c, i, t)
      BY <3>1, <1>2
    <3>3. i > 1 => d.blocks[i - 1] = c.blocks[i - 1]
      BY <3>1, <1>6
    <3>4. ExpectedDifficulty(c, i - 1) = ExpectedDifficulty(d, i - 1)
      BY <3>1, <1>7
    <3> QED
      BY <3>1, <3>2, <3>3, <3>4, <1>5 DEF BlockOK
  <2>2. CASE i = n + 1
    <3>1. d.blocks[i] = b /\ i - 1 = n /\ n \in 1 .. n /\ n \in 0 .. n /\ d.blocks[i - 1] = c.blocks[n]
      BY <2>2, <1>1, <1>6
    <3>2. BlockOK(c, n, t)
      BY <3>1, <1>2
    <3>3. Follows(b, c.blocks[n])
      BY <3>2, <1>1, <1>4 DEF Follows, BlockOK
    <3>4. b.difficulty = ExpectedDifficulty(d, n)
      BY <3>1, <1>4, <1>7
    <3> QED
      <4>1. b.height = i - 1 /\ b.difficulty = ExpectedDifficulty(d, i - 1)
        BY <3>1, <3>4, <1>4
      <4>2. b.time \in 0 .. t /\ b.nonce \in Nat
        BY <1>4
      <4>3. Len(b.transactions) <= d.maxTx
        BY <1>3, <1>4, <1>5
      <4>4. IsBlock(b) /\ Intact(b) /\ Follows(b, d.blocks[i - 1])
        BY <3>1, <3>3, <1>4
      <4> QED
        BY ONLY <4>1, <4>2, <4>3, <4>4, <3>1 DEF BlockOK
  <2> QED
    BY <2>1, <2>2, <1>1, <1>6
<1>9. ScheduleOK(d)
  <2>1. \A h \in 0 .. n : h \in 0 .. n + 1
    BY <1>1
  <2> QED
    BY <2>1, <1>2, <1>5, <1>6 DEF ScheduleOK, n
<1>10. Len(d.blocks) \in 1 .. MaxHeight + 1
  BY <1>1, <1>6, BoundsAssumption
<1>11. d.blocks[1] = c.blocks[1]
  BY <1>1, <1>6
<1> QED
  BY <1>2, <1>3, <1>5, <1>8, <1>9, <1>10, <1>11 DEF ChainOK, d

(* A new rule is for a height above all that are mined. *)
LEMMA RuleFields ==
    ASSUME NEW c, NEW t, ChainOK(c, t), NEW difficulty,
           NEW d, d = WithDifficulty(c, difficulty), NEW n, n = Len(c.blocks)
    PROVE  /\ IsChain(d)
           /\ d.blocks = c.blocks /\ d.pending = c.pending /\ d.retarget = c.retarget
           /\ d.maxTx = c.maxTx
           /\ IsFunction(d.schedule)
           /\ DOMAIN d.schedule = DOMAIN c.schedule \cup {n}
           /\ \A h \in DOMAIN d.schedule :
                  d.schedule[h] = IF h = n THEN difficulty ELSE c.schedule[h]
<1> DEFINE schedule == [h \in DOMAIN c.schedule \cup {n} |->
                               IF h = n THEN difficulty ELSE c.schedule[h]]
<1>1. Height(c) + 1 = n
  BY ChainFields DEF Height
<1>2. c = [blocks |-> c.blocks, pending |-> c.pending, schedule |-> c.schedule,
           retarget |-> c.retarget, maxTx |-> c.maxTx]
  BY ChainFields DEF IsChain
<1>3. d = [c EXCEPT !.schedule = schedule]
  <2>1. WithDifficulty(c, difficulty) =
          [c EXCEPT !.schedule = [h \in DOMAIN c.schedule \cup {n} |->
                                     IF h = n THEN difficulty ELSE c.schedule[h]]]
    BY <1>1, <1>2 DEF WithDifficulty
  <2> QED
    BY <2>1
<1> HIDE DEF schedule
<1>4. d = [blocks |-> c.blocks, pending |-> c.pending, schedule |-> schedule,
           retarget |-> c.retarget, maxTx |-> c.maxTx]
  BY ONLY <1>2, <1>3
<1>5. IsChain(d)
  BY ONLY <1>4 DEF IsChain
<1>6. /\ IsFunction(schedule)
      /\ DOMAIN schedule = DOMAIN c.schedule \cup {n}
      /\ \A h \in DOMAIN schedule : schedule[h] = IF h = n THEN difficulty ELSE c.schedule[h]
  BY DEF schedule, IsFunction
<1>7. d.schedule = schedule /\ d.blocks = c.blocks /\ d.pending = c.pending
       /\ d.retarget = c.retarget /\ d.maxTx = c.maxTx
  BY ONLY <1>4
<1> QED
  BY ONLY <1>5, <1>6, <1>7

LEMMA SetOK ==
    ASSUME NEW c, NEW t, ChainOK(c, t), NEW difficulty \in 0 .. MaxDifficulty64
    PROVE  ChainOK(WithDifficulty(c, difficulty), t)
<1> DEFINE d == WithDifficulty(c, difficulty)
           n == Len(c.blocks)
<1>1. /\ IsChain(d)
      /\ d.blocks = c.blocks /\ d.pending = c.pending /\ d.retarget = c.retarget
      /\ d.maxTx = c.maxTx
      /\ IsFunction(d.schedule)
      /\ DOMAIN d.schedule = DOMAIN c.schedule \cup {n}
      /\ \A h \in DOMAIN d.schedule : d.schedule[h] = IF h = n THEN difficulty ELSE c.schedule[h]
  <2>1. d = WithDifficulty(c, difficulty) /\ n = Len(c.blocks)
    OBVIOUS
  <2> HIDE DEF d, n
  <2> QED
    BY ONLY <2>1, ChainOK(c, t), RuleFields
<1> HIDE DEF d
<1>2. n \in Nat \ {0} /\ c.retarget.interval \in Nat \ {0}
  BY ChainFields
<1>3. Holds(Tx, c) /\ ScheduleOK(c) /\ PendingLedger(c) # Rejected
  BY DEF ChainOK
<1>4. Holds(Tx, d) /\ PendingLedger(d) # Rejected
  BY <1>1, <1>3 DEF Holds, PendingLedger
<1>5. ScheduleOK(d)
  <2>1. IsFunction(d.schedule)
         /\ DOMAIN d.schedule = DOMAIN c.schedule \cup {n}
         /\ \A h \in DOMAIN d.schedule : d.schedule[h] = IF h = n THEN difficulty ELSE c.schedule[h]
    BY <1>1
  <2>2. Len(d.blocks) = n /\ n \in 0 .. n
    BY <1>1, <1>2
  <2>3. \A h \in DOMAIN c.schedule : h \in 0 .. n /\ c.schedule[h] \in 0 .. MaxDifficulty64
    BY <1>3 DEF ScheduleOK
  <2>4. 0 \in DOMAIN c.schedule
    BY <1>3 DEF ScheduleOK
  <2> HIDE DEF n
  <2> QED
    BY <2>1, <2>2, <2>3, <2>4 DEF ScheduleOK
<1>6. ASSUME NEW h \in 0 .. n - 1
      PROVE  ExpectedDifficulty(c, h) = ExpectedDifficulty(d, h)
  <2>1. \A i \in 0 .. h : i # n /\ SameRule(c, d, i)
    <3> SUFFICES ASSUME NEW i \in 0 .. h PROVE i # n /\ SameRule(c, d, i)
      OBVIOUS
    <3>1. i # n
      BY <1>2
    <3> QED
      BY <3>1, <1>1 DEF SameRule
  <2>2. h \in Nat /\ h <= n
    BY <1>2
  <2>3. \A k \in 1 .. h : c.blocks[k].time = d.blocks[k].time
    BY <1>1
  <2> QED
    BY <2>1, <2>2, <2>3, <1>1, <1>2, ExpectedSame
<1>7. ASSUME NEW i \in 1 .. Len(d.blocks) PROVE BlockOK(d, i, t)
  <2>1. i \in 1 .. n /\ i - 1 \in 0 .. n - 1
    BY <1>1, <1>2
  <2>2. BlockOK(c, i, t)
    BY <2>1 DEF ChainOK
  <2>3. ExpectedDifficulty(c, i - 1) = ExpectedDifficulty(d, i - 1)
    BY <2>1, <1>6
  <2> QED
    BY <2>2, <2>3, <1>1 DEF BlockOK
<1> QED
  BY <1>1, <1>4, <1>5, <1>7 DEF ChainOK, d

LEMMA PolicyChange ==
    ASSUME NEW c, IsChain(c), NEW policy
    PROVE  [c EXCEPT !.retarget = policy] =
             [blocks |-> c.blocks, pending |-> c.pending, schedule |-> c.schedule,
              retarget |-> policy, maxTx |-> c.maxTx]
<1>1. c = [blocks |-> c.blocks, pending |-> c.pending, schedule |-> c.schedule,
           retarget |-> c.retarget, maxTx |-> c.maxTx]
  BY DEF IsChain
<1> DEFINE d == [c EXCEPT !.retarget = policy]
<1>2. d = [c EXCEPT !.retarget = policy]
  OBVIOUS
<1> HIDE DEF d
<1>3. d = [blocks |-> c.blocks, pending |-> c.pending, schedule |-> c.schedule,
           retarget |-> policy, maxTx |-> c.maxTx]
  BY ONLY <1>1, <1>2
<1> QED
  BY <1>3 DEF d

LEMMA ConfigureOK ==
    ASSUME NEW c, NEW t, ChainOK(c, t), NEW policy \in Policies, ValidRetarget(policy),
           Len(c.blocks) = 1
    PROVE  ChainOK([c EXCEPT !.retarget = policy], t)
<1> DEFINE d == [c EXCEPT !.retarget = policy]
<1>1. IsChain(c)
  BY ChainFields
<1>2. d = [blocks |-> c.blocks, pending |-> c.pending, schedule |-> c.schedule,
           retarget |-> policy, maxTx |-> c.maxTx]
  BY <1>1, PolicyChange
<1> HIDE DEF d
<1>3. IsChain(d) /\ d.blocks = c.blocks /\ d.pending = c.pending /\ d.schedule = c.schedule
       /\ d.retarget = policy /\ d.maxTx = c.maxTx
  BY ONLY <1>2 DEF IsChain
<1>4. Holds(Tx, d) /\ PendingLedger(d) # Rejected
  BY <1>3 DEF ChainOK, Holds, PendingLedger
<1>5. ScheduleOK(d)
  BY <1>3 DEF ChainOK, ScheduleOK
<1>6. ASSUME NEW i \in 1 .. Len(d.blocks) PROVE BlockOK(d, i, t)
  <2>1. i = 1 /\ i - 1 = 0
    <3>1. Len(d.blocks) = 1
      BY <1>3
    <3> QED
      BY ONLY <3>1, i \in 1 .. Len(d.blocks)
  <2>2. BlockOK(c, i, t)
    BY <1>3 DEF ChainOK
  <2>3. ExpectedDifficulty(d, 0) = ExpectedDifficulty(c, 0)
    BY <1>3, ExpectedFirst DEF FirstDifficulty
  <2> QED
    BY <2>1, <2>2, <2>3, <1>3 DEF BlockOK
<1> QED
  BY <1>3, <1>4, <1>5, <1>6 DEF ChainOK, d

(* What a node reads of another one's file, and what it makes of it. *)
LEMMA AdoptedFields ==
    ASSUME NEW c, NEW m, NEW t, ChainOK(c, t), ChainOK(m, t),
           NEW e, e = RoundTrip(m), Valid(e), NEW d, d = Adopted(c, e)
    PROVE  /\ Holds(Tx, d) /\ PendingLedger(d) # Rejected
           /\ d.blocks = e.blocks /\ d.schedule = m.schedule /\ d.retarget = m.retarget
           /\ d.maxTx = m.maxTx
           /\ Holds(Tx, e)
           /\ Len(e.blocks) = Len(m.blocks)
           /\ \A i \in 1 .. Len(m.blocks) : e.blocks[i] = BlockRead(m.blocks[i])
           /\ e.schedule = m.schedule /\ e.retarget = m.retarget /\ e.maxTx = m.maxTx
<1> DEFINE copy == RoundTrip(e)
           txs == copy.pending \o c.pending
           pool == Revalidated(copy, txs)
<1>1. Holds(Tx, m) /\ Holds(Tx, c) /\ IsClosed(Tx) /\ \A i \in 1 .. Len(m.blocks) : IsBlock(m.blocks[i])
  BY TxClosed DEF ChainOK, BlockOK
<1>2. /\ Holds(Tx, e)
      /\ Len(e.blocks) = Len(m.blocks)
      /\ \A i \in 1 .. Len(m.blocks) : e.blocks[i] = BlockRead(m.blocks[i])
      /\ e.schedule = m.schedule /\ e.retarget = m.retarget /\ e.maxTx = m.maxTx
  BY <1>1, RoundTripFields
<1>3. copy.blocks = e.blocks
  BY <1>1, RoundTripTwice
<1>4. Rebuild(e.blocks) # Rejected
  BY DEF Valid
<1>5. ASSUME NEW i \in 1 .. Len(e.blocks) PROVE IsBlock(e.blocks[i])
  <2>1. IsBlock(m.blocks[i]) /\ m.blocks[i].transactions \in Seq(Tx)
    BY <1>1, <1>2, <1>5 DEF Holds
  <2>2. IsBlock(BlockRead(m.blocks[i]))
    BY <2>1, <1>1, BlockReadTwice
  <2> QED
    BY <1>2, <1>5, <2>2
<1>6. /\ Holds(Tx, copy)
      /\ copy.schedule = e.schedule /\ copy.retarget = e.retarget /\ copy.maxTx = e.maxTx
  BY <1>1, <1>2, <1>5, RoundTripFields
<1> HIDE DEF copy
<1>7. txs \in Seq(Tx)
  BY <1>1, <1>6, ConcatProperties DEF Holds
<1> HIDE DEF txs
<1>8. pool \in Seq(Tx) /\ PendingLedger(WithPool(copy, pool)) # Rejected
  BY <1>1, <1>3, <1>4, <1>6, <1>7, RevalidatedReplays
<1>9. d = WithPool(copy, pool)
  BY DEF Adopted, WithPool, copy, txs
<1> HIDE DEF pool
<1>10. /\ d = [blocks |-> copy.blocks, pending |-> pool, schedule |-> copy.schedule,
               retarget |-> copy.retarget, maxTx |-> copy.maxTx]
       /\ Holds(Tx, d)
  BY <1>6, <1>8, <1>9, WithPoolFields
<1>11. d.blocks = e.blocks /\ d.schedule = m.schedule /\ d.retarget = m.retarget /\ d.maxTx = m.maxTx
  BY <1>2, <1>3, <1>6, <1>10
<1>12. PendingLedger(d) # Rejected
  BY <1>8, <1>9
<1> QED
  BY <1>2, <1>10, <1>11, <1>12

LEMMA GenesisRead ==
    ASSUME NEW x
    PROVE  BlockRead(Genesis(x)) = Genesis(x)
<1> DEFINE g == Genesis(x)
<1>1. IsBlock(g) /\ g.transactions = <<>>
  BY GenesisFields
<1>2. Read(<<>>) = <<>>
  BY DEF Read
<1> HIDE DEF g
<1>3. BlockRead(g) =
             [height |-> g.height, time |-> g.time, transactions |-> Read(g.transactions),
              root |-> g.root, prev |-> g.prev, difficulty |-> g.difficulty,
              nonce |-> g.nonce, hash |-> g.hash]
  BY <1>1, BlockReadFields
<1>4. Read(g.transactions) = g.transactions
  BY <1>1, <1>2
<1>5. BlockRead(g) = g
  BY ONLY <1>1, <1>3, <1>4 DEF IsBlock
<1> QED
  BY <1>5 DEF g

LEMMA AdoptOK ==
    ASSUME NEW c, NEW m, NEW t, ChainOK(c, t), ChainOK(m, t), CanAdopt(c, RoundTrip(m))
    PROVE  ChainOK(Adopted(c, RoundTrip(m)), t)
<1> DEFINE e == RoundTrip(m)
           d == Adopted(c, e)
           n == Len(m.blocks)
<1>1. e = RoundTrip(m) /\ d = Adopted(c, e) /\ Valid(e)
  BY DEF CanAdopt
<1> HIDE DEF e, d
<1>2. /\ Holds(Tx, d) /\ PendingLedger(d) # Rejected
      /\ d.blocks = e.blocks /\ d.schedule = m.schedule /\ d.retarget = m.retarget
      /\ d.maxTx = m.maxTx
      /\ Holds(Tx, e)
      /\ Len(e.blocks) = Len(m.blocks)
      /\ \A i \in 1 .. Len(m.blocks) : e.blocks[i] = BlockRead(m.blocks[i])
      /\ e.schedule = m.schedule /\ e.retarget = m.retarget /\ e.maxTx = m.maxTx
  BY ONLY <1>1, ChainOK(c, t), ChainOK(m, t), AdoptedFields
<1>3. n \in Nat \ {0} /\ m.retarget.interval \in Nat \ {0} /\ ScheduleOK(m)
  BY ChainFields DEF ChainOK
<1>4. DOMAIN e.blocks = 1 .. n
  BY <1>2, SeqIsList DEF Holds, IsList
<1>5. ASSUME NEW i \in 1 .. n
      PROVE  /\ IsBlock(m.blocks[i])
             /\ IsBlock(e.blocks[i])
             /\ e.blocks[i].height = i - 1
             /\ e.blocks[i].time \in 0 .. t
             /\ e.blocks[i].nonce \in Nat
             /\ Len(e.blocks[i].transactions) <= m.maxTx
  <2>1. BlockOK(m, i, t) /\ m.blocks[i].transactions \in Seq(Tx)
    BY DEF ChainOK, Holds
  <2>2. IsBlock(m.blocks[i])
    BY <2>1 DEF BlockOK
  <2>3. /\ IsBlock(BlockRead(m.blocks[i]))
        /\ Len(BlockRead(m.blocks[i]).transactions) = Len(m.blocks[i].transactions)
    BY ONLY <2>1, <2>2, TxClosed, BlockReadTwice
  <2>4. BlockRead(m.blocks[i]).height = m.blocks[i].height
         /\ BlockRead(m.blocks[i]).time = m.blocks[i].time
         /\ BlockRead(m.blocks[i]).nonce = m.blocks[i].nonce
    BY <2>2, BlockReadFields
  <2> QED
    BY <2>1, <2>2, <2>3, <2>4, <1>2 DEF BlockOK
<1>6. /\ \A i \in 1 .. n : e.blocks[i].difficulty = ExpectedDifficulty(e, e.blocks[i].height)
                           /\ Intact(e.blocks[i])
      /\ \A i \in 2 .. n : Follows(e.blocks[i], e.blocks[i - 1])
  BY <1>1, <1>2, <1>4 DEF Valid, Linked
<1> HIDE DEF n
<1>7. ASSUME NEW i \in 1 .. Len(d.blocks) PROVE BlockOK(d, i, t)
  <2>1. i \in 1 .. n /\ i - 1 \in Nat /\ i - 1 <= n /\ (i > 1 => i \in 2 .. n)
    BY <1>2, <1>3 DEF n
  <2>2. ExpectedDifficulty(e, i - 1) = ExpectedDifficulty(d, i - 1)
    <3>1. Len(e.blocks) = n /\ Len(d.blocks) = n /\ n \in Nat
      BY <1>2, <1>3 DEF n
    <3>2. i - 1 <= Len(e.blocks) /\ i - 1 <= Len(d.blocks) /\ Len(e.blocks) \in Nat
           /\ Len(d.blocks) \in Nat
      BY <2>1, <3>1
    <3>3. e.schedule = d.schedule /\ e.retarget = d.retarget /\ e.retarget.interval \in Nat \ {0}
      BY <1>2, <1>3
    <3>4. \A k \in 1 .. i - 1 : e.blocks[k] = d.blocks[k]
      BY <1>2
    <3> QED
      BY ONLY <2>1, <3>2, <3>3, <3>4, SameExpected
  <2>3. e.blocks[i].difficulty = ExpectedDifficulty(d, i - 1) /\ Intact(e.blocks[i])
    BY <2>1, <2>2, <1>5, <1>6
  <2>4. i > 1 => Follows(e.blocks[i], e.blocks[i - 1])
    BY <2>1, <1>6
  <2>5. IsBlock(e.blocks[i]) /\ e.blocks[i].height = i - 1 /\ e.blocks[i].time \in 0 .. t
         /\ e.blocks[i].nonce \in Nat
         /\ Len(e.blocks[i].transactions) <= m.maxTx
    BY <2>1, <1>5
  <2> QED
    BY ONLY <2>3, <2>4, <2>5, <1>2 DEF BlockOK
<1>8. \E x \in 0 .. MaxDifficulty64 : d.blocks[1] = Genesis(x)
  <2>1. PICK x \in 0 .. MaxDifficulty64 : m.blocks[1] = Genesis(x)
    BY DEF ChainOK
  <2>2. e.blocks[1] = BlockRead(Genesis(x))
    BY <2>1, <1>2, <1>3 DEF n
  <2> QED
    BY <2>2, <1>2, GenesisRead
<1>9. ScheduleOK(d)
  BY <1>2, <1>3 DEF ScheduleOK
<1>10. Len(d.blocks) \in 1 .. MaxHeight + 1 /\ d.maxTx \in Nat \ {0}
        /\ d.retarget \in Policies /\ ValidRetarget(d.retarget)
  BY <1>2 DEF ChainOK
<1> QED
  BY <1>2, <1>7, <1>8, <1>9, <1>10 DEF ChainOK, d, e

-----------------------------------------------------------------------------
(* Every step keeps the invariant *)

LEMMA InitInv == Init => Inv
<1> SUFFICES ASSUME Init PROVE Inv
  OBVIOUS
<1>1. now \in 1 .. MaxTime /\ now \in Nat
  BY BoundsAssumption DEF Init
<1>2. chain \in [Nodes -> NewChains]
  BY DEF Init
<1>3. ASSUME NEW n \in Nodes PROVE ChainOK(chain[n], now)
  <2>1. chain[n] \in NewChains
    BY <1>2
  <2>2. PICK q \in Genesises \X Policies \X BlockSizes :
           CanCreate(q[1], q[2]) /\ chain[n] = NewChain(q[1], q[2], q[3])
    BY <2>1 DEF NewChains
  <2>3. q[1] \in Genesises /\ q[2] \in Policies /\ q[3] \in BlockSizes
    OBVIOUS
  <2> QED
    BY <2>2, <2>3, <1>1, NewChainOK
<1> QED
  BY <1>1, <1>2, <1>3 DEF Inv

(* The chains of all nodes, seen at time t. *)
AllOK(chains, t) ==
    /\ chains = [n \in Nodes |-> chains[n]]
    /\ \A n \in Nodes : ChainOK(chains[n], t)

LEMMA UpdateOK ==
    ASSUME NEW t, AllOK(chain, t), NEW n \in Nodes, NEW c, ChainOK(c, t), Update(n, c)
    PROVE  AllOK(chain', t)
<1>1. chain' = [chain EXCEPT ![n] = c] /\ chain = [k \in Nodes |-> chain[k]]
  BY DEF Update, AllOK
<1>2. chain' = [k \in Nodes |-> chain'[k]] /\ \A k \in Nodes : chain'[k] = IF k = n THEN c ELSE chain[k]
  BY ONLY <1>1, n \in Nodes
<1>3. \A k \in Nodes : ChainOK(chain'[k], t)
  BY <1>2 DEF AllOK
<1> QED
  BY <1>2, <1>3 DEF AllOK

(* The transactions that users make are transactions. *)
LEMMA GrantIsTx ==
    ASSUME NEW order \in Orders
    PROVE  FaucetTx(order.to, order.amount) \in Tx
<1>1. order.to \in Names /\ order.amount \in Int
  BY OrderAssumption DEF Names
<1> QED
  BY <1>1, FaucetTxIsTx

LEMMA PendingLedgerIsLedger ==
    ASSUME NEW c, NEW t, ChainOK(c, t)
    PROVE  /\ IsLedger(PendingLedger(c))
           /\ Transactions(c.blocks) \o c.pending \in Seq(Tx)
           /\ \A i \in DOMAIN (Transactions(c.blocks) \o c.pending) :
                 IsSent((Transactions(c.blocks) \o c.pending)[i])
<1> DEFINE all == Transactions(c.blocks) \o c.pending
<1>1. all \in Seq(Tx)
  BY TransactionsTyped, ConcatProperties DEF ChainOK, Holds
<1>2. PendingLedger(c) = Replay(NewLedger, all) /\ PendingLedger(c) # Rejected
  BY DEF PendingLedger, ChainOK
<1> HIDE DEF all
<1>3. ASSUME NEW i \in DOMAIN all PROVE IsSent(all[i])
  <2>1. all[i] \in Tx
    BY <1>1, LenProperties, ElementOfSeq
  <2> QED
    BY <2>1, TxClosed DEF IsClosed, IsTransaction, IsSent
<1>4. IsLedger(Replay(NewLedger, all))
  BY <1>1, <1>2, <1>3, ReplayedIsLedger
<1> QED
  BY <1>1, <1>2, <1>3, <1>4 DEF all

LEMMA PaymentIsTx ==
    ASSUME NEW c, NEW t, ChainOK(c, t), NEW order \in Orders
    PROVE  SendTx(c, order.from, order.to, order.amount) \in Tx
<1>1. order.from \in Accounts /\ order.to \in Names /\ order.amount \in Int
  BY OrderAssumption DEF Names
<1>2. PendingLedger(c).nonce \in [Accounts -> Nat]
  BY PendingLedgerIsLedger DEF IsLedger
<1>3. NextNonce(PendingLedger(c), order.from) \in Nat
  BY <1>1, <1>2 DEF NextNonce
<1>4. order.from \in Names
  BY <1>1 DEF Names
<1> QED
  BY <1>1, <1>3, <1>4, SignedIsTx DEF SendTx

LEMMA AddTransactionOK ==
    ASSUME NEW t, AllOK(chain, t), NEW n \in Nodes, NEW tx \in Tx, AddTransaction(n, tx)
    PROVE  AllOK(chain', t)
<1>1. CanAdd(chain[n], tx) /\ Update(n, AddPending(chain[n], tx))
  BY DEF AddTransaction
<1>2. ChainOK(AddPending(chain[n], tx), t)
  BY <1>1, AddOK DEF AllOK
<1> QED
  BY <1>1, <1>2, UpdateOK

(* No block of a chain is younger than its last. *)
LEMMA EarlierOK ==
    ASSUME NEW c, NEW t \in Nat, NEW u \in Nat, ChainOK(c, t), Latest(c).time <= u
    PROVE  ChainOK(c, u)
<1> DEFINE n == Len(c.blocks)
           time(i) == c.blocks[i].time
<1>1. n \in Nat \ {0} /\ \A i \in 1 .. n : BlockOK(c, i, t)
  BY ChainFields DEF ChainOK
<1>2. \A i \in 1 .. n : time(i) \in Nat /\ (i > 1 => time(i - 1) <= time(i))
  <2> SUFFICES ASSUME NEW i \in 1 .. n PROVE time(i) \in Nat /\ (i > 1 => time(i - 1) <= time(i))
    OBVIOUS
  <2>1. time(i) \in Nat
    BY <1>1 DEF BlockOK
  <2>2. ASSUME i > 1 PROVE time(i - 1) <= time(i)
    <3>1. i - 1 \in 1 .. n
      BY <1>1, <2>2
    <3>2. time(i - 1) \in Nat
      BY <3>1, <1>1 DEF BlockOK
    <3>3. time(i) >= time(i - 1)
      BY <1>1, <2>2 DEF BlockOK, Follows
    <3> QED
      BY ONLY <2>1, <3>2, <3>3
  <2> QED
    BY <2>1, <2>2
<1>3. time(n) <= u
  BY DEF Latest
<1> HIDE DEF n, time
<1> DEFINE Q == {k \in Nat : k < n => time(n - k) <= u}
<1>4. 0 \in Q
  <2>1. n - 0 = n
    BY <1>1
  <2> QED
    BY <1>3, <2>1
<1>5. ASSUME NEW k \in Nat, k \in Q PROVE k + 1 \in Q
  <2> SUFFICES ASSUME k + 1 < n PROVE time(n - (k + 1)) <= u
    OBVIOUS
  <2>1. n - k \in 1 .. n /\ n - k > 1 /\ (n - k) - 1 = n - (k + 1) /\ n - (k + 1) \in 1 .. n /\ k < n
    BY <1>1
  <2>2. time(n - k) \in Nat /\ time(n - (k + 1)) \in Nat /\ time(n - (k + 1)) <= time(n - k)
    BY <1>2, <2>1
  <2>3. time(n - k) <= u
    BY <1>5, <2>1
  <2> QED
    BY ONLY <2>2, <2>3, u \in Nat
<1> HIDE DEF Q
<1>6. ASSUME NEW i \in 1 .. n PROVE time(i) \in 0 .. u
  <2>1. n - i \in Nat /\ n - i < n /\ n - (n - i) = i
    BY <1>1
  <2>2. n - i \in Q
    BY <1>4, <1>5, <2>1, R!Induction
  <2>3. time(i) <= u
    BY <2>1, <2>2 DEF Q
  <2> QED
    BY <2>3, <1>2
<1>7. ASSUME NEW i \in 1 .. Len(c.blocks) PROVE BlockOK(c, i, u)
  BY <1>1, <1>6 DEF BlockOK, n, time
<1> QED
  BY <1>7 DEF ChainOK

(* Operations keep chains as they should be at any time that the clock has  *)
(* not passed, if no block is mined with an older time than the one before. *)
LEMMA OperationOK ==
    ASSUME NEW t \in Nat, AllOK(chain, t), now \in 0 .. t, Next,
           \A n \in Nodes : MineBlock(n) => Latest(chain[n]).time <= now
    PROVE  AllOK(chain', t)
<1>1. \A n \in Nodes : ChainOK(chain[n], t)
  BY DEF AllOK
<1>2. ASSUME NEW n \in Nodes, NEW tx \in TxPool, AddTransaction(n, tx) PROVE AllOK(chain', t)
  BY <1>2, PoolTx, AddTransactionOK
<1>3. ASSUME NEW n \in Nodes, NEW order \in Orders, FaucetGrant(n, order) PROVE AllOK(chain', t)
  BY <1>3, GrantIsTx, AddTransactionOK DEF FaucetGrant
<1>4. ASSUME NEW n \in Nodes, NEW order \in Orders, Send(n, order) PROVE AllOK(chain', t)
  <2>1. SendTx(chain[n], order.from, order.to, order.amount) \in Tx
    BY <1>1, PaymentIsTx
  <2> QED
    BY <1>4, <2>1, AddTransactionOK DEF Send
<1>5. ASSUME NEW n \in Nodes, MineBlock(n) PROVE AllOK(chain', t)
  <2>1. PICK nonce \in BlockNonces : Update(n, Mined(chain[n], now, nonce))
    BY <1>5 DEF MineBlock
  <2>2. now \in Nat /\ now <= t /\ Height(chain[n]) < MaxHeight /\ nonce \in Nat
    BY <1>5, BlockNonceAssumption DEF MineBlock
  <2>3. ChainOK(chain[n], now)
    BY <1>1, <1>5, <2>2, EarlierOK
  <2>4. ChainOK(Mined(chain[n], now, nonce), now)
    BY <2>2, <2>3, MineOK
  <2>5. ChainOK(Mined(chain[n], now, nonce), t)
    BY <2>2, <2>4, LaterOK
  <2> QED
    BY <2>1, <2>5, UpdateOK
<1>6. ASSUME NEW n \in Nodes, NEW d \in Difficulties, SetDifficulty(n, d) PROVE AllOK(chain', t)
  <2>1. d \in 0 .. MaxDifficulty64 /\ Update(n, WithDifficulty(chain[n], d))
    BY <1>6 DEF SetDifficulty
  <2>2. ChainOK(WithDifficulty(chain[n], d), t)
    BY <1>1, <2>1, SetOK
  <2> QED
    BY <2>1, <2>2, UpdateOK
<1>7. ASSUME NEW n \in Nodes, NEW policy \in Policies, ConfigureRetarget(n, policy)
      PROVE  AllOK(chain', t)
  <2>1. /\ Len(chain[n].blocks) = 1 /\ ValidRetarget(policy)
        /\ Update(n, [chain[n] EXCEPT !.retarget = policy])
    BY <1>7 DEF ConfigureRetarget
  <2>2. ChainOK([chain[n] EXCEPT !.retarget = policy], t)
    BY <1>1, <2>1, ConfigureOK
  <2> QED
    BY <2>1, <2>2, UpdateOK
<1>8. ASSUME NEW n \in Nodes, NEW m \in Nodes, ResolveFork(n, m) PROVE AllOK(chain', t)
  <2>1. /\ CanAdopt(chain[n], RoundTrip(chain[m]))
        /\ Update(n, Adopted(chain[n], RoundTrip(chain[m])))
    BY <1>8 DEF ResolveFork
  <2>2. ChainOK(Adopted(chain[n], RoundTrip(chain[m])), t)
    BY <1>1, <2>1, AdoptOK
  <2> QED
    BY <2>1, <2>2, UpdateOK
<1>9. ASSUME Tick PROVE AllOK(chain', t)
  BY <1>9 DEF Tick, AllOK
<1> QED
  BY <1>2, <1>3, <1>4, <1>5, <1>6, <1>7, <1>8, <1>9 DEF Next

(* Only Tick moves the clock. *)
LEMMA NextNow == Next => now' = now \/ Tick
BY DEF Next, AddTransaction, FaucetGrant, Send, MineBlock, SetDifficulty, ConfigureRetarget, ResolveFork

LEMMA NextInv == Inv /\ [Next]_vars => Inv'
<1> SUFFICES ASSUME Inv, [Next]_vars PROVE Inv'
  OBVIOUS
<1>1. CASE UNCHANGED vars
  BY <1>1 DEF vars, Inv
<1>2. CASE Next
  <2>1. now \in Nat /\ now \in 0 .. now /\ AllOK(chain, now)
    BY BoundsAssumption DEF Inv, AllOK
  <2>2. \A n \in Nodes : Latest(chain[n]).time <= now
    <3> SUFFICES ASSUME NEW n \in Nodes PROVE Latest(chain[n]).time <= now
      OBVIOUS
    <3>1. ChainOK(chain[n], now) /\ Len(chain[n].blocks) \in 1 .. Len(chain[n].blocks)
      BY ChainFields DEF Inv
    <3>2. BlockOK(chain[n], Len(chain[n].blocks), now)
      BY <3>1 DEF ChainOK
    <3> QED
      BY <2>1, <3>2 DEF BlockOK, Latest
  <2>3. AllOK(chain', now)
    BY <1>2, <2>1, <2>2, OperationOK
  <2>4. now' \in 1 .. MaxTime /\ now' \in Nat /\ now <= now'
    BY <1>2, <2>1, NextNow, BoundsAssumption DEF Tick, Inv
  <2>5. AllOK(chain', now')
    BY <2>1, <2>3, <2>4, LaterOK DEF AllOK
  <2> QED
    BY <2>4, <2>5 DEF AllOK, Inv
<1> QED
  BY <1>1, <1>2

(* What the invariant says holds in every state of every behaviour. *)
THEOREM Invariance == Spec => []Inv
BY InitInv, NextInv, PTL DEF Spec

-----------------------------------------------------------------------------
(* Invariants *)

LEMMA ChainOKIsValid ==
    ASSUME NEW c, NEW t, ChainOK(c, t)
    PROVE  Valid(c)
<1>1. /\ Holds(Tx, c) /\ PendingLedger(c) # Rejected
      /\ ValidRetarget(c.retarget) /\ ScheduleOK(c)
      /\ \A i \in 1 .. Len(c.blocks) : BlockOK(c, i, t)
  BY DEF ChainOK
<1>2. Len(c.blocks) \in Nat \ {0} /\ DOMAIN c.blocks = 1 .. Len(c.blocks)
  BY ChainFields
<1>3. c.blocks # <<>>
  <2>1. Len(<<>>) = 0
    OBVIOUS
  <2> QED
    BY <2>1, <1>2
<1>4. DOMAIN c.schedule # {}
  BY <1>1 DEF ScheduleOK
<1>5. Rebuild(c.blocks) # Rejected
  BY <1>1, BlocksAreReplayed
<1>6. ASSUME NEW i \in DOMAIN c.blocks
      PROVE  /\ c.blocks[i].difficulty = ExpectedDifficulty(c, c.blocks[i].height)
             /\ c.blocks[i].difficulty \in 0 .. MaxDifficulty64
             /\ Intact(c.blocks[i])
  <2>1. BlockOK(c, i, t) /\ i - 1 \in Nat
    BY <1>1, <1>2
  <2>2. ExpectedDifficulty(c, i - 1) \in 0 .. MaxDifficulty64
    BY <2>1, <1>1, ExpectedInRange DEF ScheduleOK
  <2> QED
    BY <2>1, <2>2 DEF BlockOK
<1>7. Linked(c.blocks)
  <2>1. ValidGenesis(c.blocks[1])
    <3>1. PICK d : c.blocks[1] = Genesis(d)
      BY DEF ChainOK
    <3>2. Genesis(d).height = 0 /\ Genesis(d).prev = GenesisPrevHash
      BY GenesisFields
    <3> QED
      BY <3>1, <3>2 DEF ValidGenesis
  <2>2. \A i \in 2 .. Len(c.blocks) : Follows(c.blocks[i], c.blocks[i - 1])
    <3> SUFFICES ASSUME NEW i \in 2 .. Len(c.blocks)
                 PROVE  Follows(c.blocks[i], c.blocks[i - 1])
      OBVIOUS
    <3>1. i \in 1 .. Len(c.blocks) /\ i > 1
      BY <1>2
    <3> QED
      BY <3>1, <1>1 DEF BlockOK
  <2> QED
    BY <2>1, <2>2, <1>3 DEF Linked
<1> QED
  BY <1>1, <1>3, <1>4, <1>5, <1>6, <1>7 DEF Valid

(* AlwaysValid: Chain.Validate accepts every chain that operations build, so *)
(* the next process can load it.                                             *)
THEOREM ChainsAreValid == Spec => []AlwaysValid
<1>1. Inv => AlwaysValid
  BY ChainOKIsValid DEF Inv, AlwaysValid
<1> QED
  BY <1>1, Invariance, PTL

(* PendingReplays: the pool applies after the blocks, whatever was mined or  *)
(* adopted since its transactions were accepted.                             *)
THEOREM PoolsReplay == Spec => []PendingReplays
<1>1. Inv => PendingReplays
  BY DEF Inv, ChainOK, PendingReplays
<1> QED
  BY <1>1, Invariance, PTL

(* NoReplay: a sender uses a nonce once in a chain and its pool.             *)
THEOREM NoncesAreUsedOnce == Spec => []NoReplay
<1>1. Inv => NoReplay
  <2> SUFFICES ASSUME Inv, NEW n \in Nodes,
                      NEW i \in DOMAIN (Confirmed(n) \o chain[n].pending),
                      NEW j \in DOMAIN (Confirmed(n) \o chain[n].pending),
                      i < j,
                      (Confirmed(n) \o chain[n].pending)[i].sender
                        = (Confirmed(n) \o chain[n].pending)[j].sender,
                      (Confirmed(n) \o chain[n].pending)[i].sender # Faucet
               PROVE  (Confirmed(n) \o chain[n].pending)[i].nonce
                        < (Confirmed(n) \o chain[n].pending)[j].nonce
    BY DEF NoReplay
  <2> DEFINE all == Confirmed(n) \o chain[n].pending
  <2>1. ChainOK(chain[n], now)
    BY DEF Inv
  <2>2. all = Transactions(chain[n].blocks) \o chain[n].pending
    BY DEF Confirmed
  <2>3. all \in Seq(Tx) /\ \A k \in DOMAIN all : IsSent(all[k])
    BY <2>1, <2>2, PendingLedgerIsLedger
  <2>4. Replay(NewLedger, all) # Rejected
    BY <2>1, <2>2 DEF ChainOK, PendingLedger
  <2>5. i \in DOMAIN all /\ j \in DOMAIN all /\ i < j /\ all[i].sender = all[j].sender
         /\ all[i].sender # Faucet
    OBVIOUS
  <2> HIDE DEF all
  <2>6. all[i].nonce < all[j].nonce
    BY ONLY <2>3, <2>4, <2>5, NoncesIncrease
  <2> QED
    BY <2>6 DEF all
<1> QED
  BY <1>1, Invariance, PTL

(* Conservation: money comes from the faucet alone, and nobody is in debt    *)
(* while an int64 holds what the faucet gave.                                *)
THEOREM MoneyIsConserved == Spec => []Conservation
<1>1. ASSUME Inv, NEW n \in Nodes
      PROVE  LET balance == PendingLedger(chain[n]).balance
                 minted  == Minted(Confirmed(n) \o chain[n].pending)
             IN  /\ Wrap(Total(balance)) = Wrap(minted)
                 /\ minted <= MaxInt => \A a \in Accounts : balance[a] >= 0
  <2> DEFINE all == Confirmed(n) \o chain[n].pending
             balance == PendingLedger(chain[n]).balance
  <2>1. ChainOK(chain[n], now)
    BY <1>1 DEF Inv
  <2>2. all = Transactions(chain[n].blocks) \o chain[n].pending
    BY DEF Confirmed
  <2>3. all \in Seq(Tx)
    BY <2>1, <2>2, PendingLedgerIsLedger
  <2>4. PendingLedger(chain[n]) = Replay(NewLedger, all) /\ Replay(NewLedger, all) # Rejected
    BY <2>1, <2>2 DEF ChainOK, PendingLedger
  <2> HIDE DEF all
  <2>5. \A i \in DOMAIN all : IsPayment(all[i])
    <3> SUFFICES ASSUME NEW i \in DOMAIN all PROVE IsPayment(all[i])
      OBVIOUS
    <3>1. all[i] \in Tx
      BY <2>3
    <3> DEFINE tx == all[i]
    <3> HIDE DEF tx
    <3>2. tx \in Tx
      BY <3>1 DEF tx
    <3>3. IsTransaction(tx)
      BY <3>2, TxClosed DEF IsClosed
    <3> QED
      BY <3>3 DEF tx, IsTransaction, IsPayment, IsSent
  <2>6. Minted(all) \in Nat /\ Conserved(Replay(NewLedger, all).balance, Minted(all))
    BY ONLY <2>3, <2>4, <2>5, AccountsAssumption, ReplayConserves
  <2>7. Conserved(balance, Minted(all))
    BY <2>4, <2>6
  <2> HIDE DEF balance
  <2>8. /\ Wrap(Total(balance)) = Wrap(Minted(all))
        /\ Minted(all) <= MaxInt => \A a \in Accounts : balance[a] >= 0
    BY ONLY <2>6, <2>7, ConservedMeans
  <2> QED
    BY <2>8 DEF all, balance
<1>2. Inv => Conservation
  BY <1>1 DEF Conservation
<1> QED
  BY <1>2, Invariance, PTL

(* What Sign makes verifies, when the signer is an account. *)
LEMMA SignedIsValid ==
    ASSUME NEW key \in Accounts \ {Faucet}, NEW to, to # Blank, to # key,
           NEW amount \in Int, amount > 0, NEW nonce \in Nat \ {0},
           NEW tx, tx = Signed(key, to, amount, nonce)
    PROVE  /\ tx.sender = key /\ tx.amount = amount /\ tx.nonce = nonce
           /\ ValidTransaction(tx)
<1> DEFINE text == <<NameText(key), NameText(to), amount, nonce>>
           signature == [key |-> key, text |-> text]
<1>1. tx = [sender |-> key, recipient |-> to, amount |-> amount, nonce |-> nonce,
            signature |-> signature]
  BY DEF Signed, SigningText
<1>2. SigningText(tx) = text
  <2> HIDE DEF signature
  <2> QED
    BY <1>1 DEF SigningText
<1>3. key # Blank
  BY BlankAssumption
<1>4. signature # Unsigned /\ signature.key = key /\ signature.text = text
  <2>1. signature.key = key /\ signature.text = text /\ Unsigned.key = Blank
    BY DEF Unsigned
  <2> QED
    BY <1>3, <2>1
<1> HIDE DEF text, signature
<1>5. /\ tx.sender = key /\ tx.recipient = to /\ tx.amount = amount /\ tx.nonce = nonce
      /\ tx.signature = signature
  BY ONLY <1>1
<1>6. SignatureOK(tx)
  BY <1>2, <1>4, <1>5 DEF SignatureOK
<1> QED
  BY <1>3, <1>5, <1>6 DEF ValidTransaction

(* SpendableIsSendable: whatever the pool holds, the transaction that the    *)
(* send command makes of any part of a balance is accepted.                  *)
THEOREM BalancesCanBeSent == Spec => []SpendableIsSendable
<1>1. ASSUME Inv, NEW n \in Nodes, NEW order \in Orders,
             order.from # Faucet, order.to # order.from, order.to # Blank,
             NEW amount \in 1 .. PendingLedger(chain[n]).balance[order.from]
      PROVE  CanAdd(chain[n], SendTx(chain[n], order.from, order.to, amount))
  <2> DEFINE c == chain[n]
             ledger == PendingLedger(c)
             from == order.from
             nonce == NextNonce(ledger, from)
             tx == SendTx(c, from, order.to, amount)
  <2>1. ChainOK(c, now)
    BY <1>1 DEF Inv
  <2>2. IsLedger(ledger) /\ ledger # Rejected
    BY <2>1, PendingLedgerIsLedger DEF ChainOK
  <2>3. from \in Accounts \ {Faucet}
    BY <1>1, OrderAssumption
  <2>4. tx = Signed(from, order.to, amount, nonce)
    BY DEF SendTx
  <2>5. amount \in 1 .. ledger.balance[from] /\ order.to # from /\ order.to # Blank
    BY <1>1
  <2>6. CanAdd(c, tx) <=> CanApply(ledger, tx)
    BY <2>2 DEF CanAdd
  <2> HIDE DEF c, tx, ledger, from
  <2>7. ledger.balance[from] \in Int /\ nonce \in Nat \ {0}
    BY <2>2, <2>3 DEF IsLedger, NextNonce
  <2>8. amount \in Int /\ amount > 0 /\ ledger.balance[from] >= amount
    BY <2>5, <2>7
  <2> HIDE DEF nonce
  <2>9. tx.sender = from /\ tx.amount = amount /\ tx.nonce = nonce /\ ValidTransaction(tx)
    BY ONLY <2>3, <2>4, <2>5, <2>7, <2>8, SignedIsValid
  <2>10. CanApply(ledger, tx)
    BY <2>8, <2>9 DEF CanApply, nonce
  <2> QED
    BY <2>6, <2>10 DEF c, tx, from
<1>2. Inv => SpendableIsSendable
  BY <1>1 DEF SpendableIsSendable
<1> QED
  BY <1>2, Invariance, PTL

(* TypeOK: chains keep their shape: a bounded height, rules for heights up   *)
(* to the next block, an allowed policy, a positive block size.              *)
THEOREM TypeCorrectness == Spec => []TypeOK
<1>1. Inv => TypeOK
  <2> SUFFICES ASSUME Inv PROVE TypeOK
    OBVIOUS
  <2>1. now \in 1 .. MaxTime /\ DOMAIN chain = Nodes
    BY DEF Inv
  <2>2. ASSUME NEW n \in Nodes
        PROVE  LET c == chain[n] IN
               /\ DOMAIN c = {"blocks", "pending", "schedule", "retarget", "maxTx"}
               /\ Len(c.blocks) \in 1 .. MaxHeight + 1
               /\ \A i \in DOMAIN c.pending : c.pending[i].recipient \in Accounts
               /\ \A h \in DOMAIN c.schedule :
                     h \in 0 .. MaxHeight + 1 /\ c.schedule[h] \in 0 .. MaxDifficulty64
               /\ c.retarget \in Policies /\ c.maxTx > 0
    <3> DEFINE c == chain[n]
    <3>1. ChainOK(c, now)
      BY DEF Inv
    <3> HIDE DEF c
    <3>2. DOMAIN c = {"blocks", "pending", "schedule", "retarget", "maxTx"}
      <4>1. c = [blocks |-> c.blocks, pending |-> c.pending, schedule |-> c.schedule,
                 retarget |-> c.retarget, maxTx |-> c.maxTx]
        BY <3>1, ChainFields DEF IsChain
      <4>2. DOMAIN [blocks |-> c.blocks, pending |-> c.pending, schedule |-> c.schedule,
                    retarget |-> c.retarget, maxTx |-> c.maxTx]
              = {"blocks", "pending", "schedule", "retarget", "maxTx"}
        OBVIOUS
      <4> QED
        BY ONLY <4>1, <4>2
    <3>3. Len(c.blocks) \in 1 .. MaxHeight + 1 /\ MaxHeight \in Nat
      BY <3>1, BoundsAssumption DEF ChainOK
    <3>4. ASSUME NEW i \in DOMAIN c.pending PROVE c.pending[i].recipient \in Accounts
      <4> DEFINE confirmed == Transactions(c.blocks)
                 all == confirmed \o c.pending
      <4>1. c.pending \in Seq(Tx) /\ confirmed \in Seq(Tx)
        BY <3>1, TransactionsTyped DEF ChainOK, Holds
      <4>2. all \in Seq(Tx)
        BY <3>1, PendingLedgerIsLedger
      <4>3. Replay(NewLedger, all) # Rejected
        BY <3>1 DEF ChainOK, PendingLedger
      <4> HIDE DEF confirmed
      <4>4. i \in 1 .. Len(c.pending) /\ c.pending[i] \in Tx
        BY <4>1, LenProperties, ElementOfSeq
      <4>5. /\ Len(confirmed) + i \in 1 .. Len(all)
            /\ all[Len(confirmed) + i] = c.pending[i]
        BY <4>1, <4>4, ConcatProperties
      <4> HIDE DEF all
      <4>6. Len(confirmed) + i \in DOMAIN all
        BY <4>2, <4>5, LenProperties
      <4>7. ValidTransaction(all[Len(confirmed) + i])
        BY <4>2, <4>3, <4>6, ReplayedIsValid
      <4>8. c.pending[i].recipient # Blank /\ c.pending[i].recipient \in Names
        BY <4>4, <4>5, <4>7 DEF ValidTransaction, Tx
      <4> QED
        BY <4>8 DEF Names
    <3>5. \A h \in DOMAIN c.schedule :
             h \in 0 .. MaxHeight + 1 /\ c.schedule[h] \in 0 .. MaxDifficulty64
      BY <3>1, <3>3 DEF ChainOK, ScheduleOK
    <3>6. c.retarget \in Policies /\ c.maxTx > 0
      BY <3>1 DEF ChainOK
    <3> QED
      BY <3>2, <3>3, <3>4, <3>5, <3>6 DEF c
  <2> QED
    BY <2>1, <2>2 DEF TypeOK
<1> QED
  BY <1>1, Invariance, PTL

-----------------------------------------------------------------------------
(* Steps *)

SameRules(c, d) == d.schedule = c.schedule /\ d.retarget = c.retarget /\ d.maxTx = c.maxTx

(* What a step may make of a chain c. *)
PoolStep(c, d) == d.blocks = c.blocks /\ SameRules(c, d)

MineStep(c, d) == SameRules(c, d) /\ \E b : d.blocks = Append(c.blocks, b)

RuleStep(c, d) ==
    /\ d.blocks = c.blocks /\ d.retarget = c.retarget /\ d.maxTx = c.maxTx
    /\ DOMAIN d.schedule = DOMAIN c.schedule \cup {Len(c.blocks)}
    /\ \A h \in DOMAIN c.schedule : h # Len(c.blocks) => d.schedule[h] = c.schedule[h]

PolicyStep(c, d) ==
    /\ d.blocks = c.blocks /\ d.schedule = c.schedule /\ d.maxTx = c.maxTx
    /\ Len(c.blocks) = 1

AdoptStep(c, d) ==
    /\ SameRules(c, d)
    /\ TotalWork(d) > TotalWork(c)
    /\ d.blocks[1] = c.blocks[1]

ChainStep(c, d) ==
    PoolStep(c, d) \/ MineStep(c, d) \/ RuleStep(c, d) \/ PolicyStep(c, d) \/ AdoptStep(c, d)

LEMMA UpdateStep ==
    ASSUME Inv, NEW n \in Nodes, NEW c, Update(n, c), ChainStep(chain[n], c)
    PROVE  \A k \in Nodes : ChainStep(chain[k], chain'[k])
<1>1. chain' = [chain EXCEPT ![n] = c] /\ chain = [k \in Nodes |-> chain[k]]
  BY DEF Update, Inv
<1>2. \A k \in Nodes : chain'[k] = IF k = n THEN c ELSE chain[k]
  BY ONLY <1>1, n \in Nodes
<1>3. \A k \in Nodes : ChainStep(chain[k], chain[k])
  BY DEF ChainStep, PoolStep, SameRules
<1> QED
  BY <1>2, <1>3

LEMMA AddStep ==
    ASSUME NEW c, NEW t, ChainOK(c, t), NEW tx
    PROVE  ChainStep(c, AddPending(c, tx))
<1> DEFINE more == Append(c.pending, tx)
           d == AddPending(c, tx)
<1>1. c = [blocks |-> c.blocks, pending |-> c.pending, schedule |-> c.schedule,
           retarget |-> c.retarget, maxTx |-> c.maxTx]
  BY ChainFields DEF IsChain
<1>2. d = [c EXCEPT !.pending = more]
  BY DEF AddPending
<1> HIDE DEF more, d
<1>3. d = [blocks |-> c.blocks, pending |-> more, schedule |-> c.schedule,
           retarget |-> c.retarget, maxTx |-> c.maxTx]
  BY ONLY <1>1, <1>2
<1>4. PoolStep(c, d)
  BY ONLY <1>3 DEF PoolStep, SameRules
<1> QED
  BY <1>4 DEF ChainStep, d

LEMMA MinedStep ==
    ASSUME NEW c, NEW t, ChainOK(c, t), NEW time, NEW nonce
    PROVE  ChainStep(c, Mined(c, time, nonce))
<1> DEFINE rest == SubSeq(c.pending, Len(Batch(c)) + 1, Len(c.pending))
           b == NewBlock(c, time, nonce)
           blocks == Append(c.blocks, b)
           d == Mined(c, time, nonce)
<1>1. c = [blocks |-> c.blocks, pending |-> c.pending, schedule |-> c.schedule,
           retarget |-> c.retarget, maxTx |-> c.maxTx]
  BY ChainFields DEF IsChain
<1>2. d = [c EXCEPT !.blocks = blocks, !.pending = rest]
  BY DEF Mined
<1> HIDE DEF blocks, rest, d
<1>3. d = [blocks |-> blocks, pending |-> rest, schedule |-> c.schedule,
           retarget |-> c.retarget, maxTx |-> c.maxTx]
  BY ONLY <1>1, <1>2
<1>4. SameRules(c, d) /\ d.blocks = blocks
  BY ONLY <1>3 DEF SameRules
<1>5. MineStep(c, d)
  BY <1>4 DEF MineStep, blocks
<1> QED
  BY <1>5 DEF ChainStep, d

LEMMA RuleIsStep ==
    ASSUME NEW c, NEW t, ChainOK(c, t), NEW difficulty
    PROVE  ChainStep(c, WithDifficulty(c, difficulty))
<1> DEFINE d == WithDifficulty(c, difficulty)
           n == Len(c.blocks)
<1>1. d = WithDifficulty(c, difficulty) /\ n = Len(c.blocks)
  OBVIOUS
<1> HIDE DEF d, n
<1>2. /\ d.blocks = c.blocks /\ d.retarget = c.retarget /\ d.maxTx = c.maxTx
      /\ DOMAIN d.schedule = DOMAIN c.schedule \cup {n}
      /\ \A h \in DOMAIN d.schedule : d.schedule[h] = IF h = n THEN difficulty ELSE c.schedule[h]
  BY ONLY <1>1, ChainOK(c, t), RuleFields
<1>3. RuleStep(c, d)
  BY ONLY <1>1, <1>2 DEF RuleStep
<1> QED
  BY <1>3 DEF ChainStep, d

LEMMA PolicyIsStep ==
    ASSUME NEW c, NEW t, ChainOK(c, t), NEW policy, Len(c.blocks) = 1
    PROVE  ChainStep(c, [c EXCEPT !.retarget = policy])
<1> DEFINE d == [c EXCEPT !.retarget = policy]
<1>1. d = [blocks |-> c.blocks, pending |-> c.pending, schedule |-> c.schedule,
           retarget |-> policy, maxTx |-> c.maxTx]
  BY ChainFields, PolicyChange
<1> HIDE DEF d
<1>2. d.blocks = c.blocks /\ d.schedule = c.schedule /\ d.maxTx = c.maxTx
  BY ONLY <1>1
<1>3. PolicyStep(c, d)
  BY <1>2 DEF PolicyStep
<1> QED
  BY <1>3 DEF ChainStep, d

LEMMA AdoptIsStep ==
    ASSUME NEW c, NEW m, NEW t, ChainOK(c, t), ChainOK(m, t), CanAdopt(c, RoundTrip(m))
    PROVE  ChainStep(c, Adopted(c, RoundTrip(m)))
<1> DEFINE e == RoundTrip(m)
           d == Adopted(c, e)
<1>1. e = RoundTrip(m) /\ d = Adopted(c, e) /\ Valid(e)
  BY DEF CanAdopt
<1>2. /\ c.blocks[1].hash = e.blocks[1].hash
      /\ SameConsensus(c, e)
      /\ TotalWork(e) > TotalWork(c)
  BY DEF CanAdopt, Stronger
<1> HIDE DEF e, d
<1>3. ChainOK(d, t)
  BY AdoptOK DEF d, e
<1>4. /\ d.blocks = e.blocks /\ d.schedule = m.schedule /\ d.retarget = m.retarget
      /\ d.maxTx = m.maxTx
      /\ e.schedule = m.schedule /\ e.retarget = m.retarget /\ e.maxTx = m.maxTx
  BY ONLY <1>1, ChainOK(c, t), ChainOK(m, t), AdoptedFields
<1>5. SameRules(c, d)
  BY <1>2, <1>4 DEF SameRules, SameConsensus
<1>6. TotalWork(d) = TotalWork(e)
  BY <1>4 DEF TotalWork
<1>7. d.blocks[1] = c.blocks[1]
  <2>1. PICK x : c.blocks[1] = Genesis(x)
    BY DEF ChainOK
  <2>2. PICK y : d.blocks[1] = Genesis(y)
    BY <1>3 DEF ChainOK
  <2>3. Genesis(x).hash = Genesis(y).hash
    BY <2>1, <2>2, <1>2, <1>4
  <2>4. Genesis(x).hash = <<0, 0, EmptyRoot, GenesisPrevHash, 0, x>>
         /\ Genesis(y).hash = <<0, 0, EmptyRoot, GenesisPrevHash, 0, y>>
    BY GenesisFields
  <2> DEFINE p == <<0, 0, EmptyRoot, GenesisPrevHash, 0, x>>
             q == <<0, 0, EmptyRoot, GenesisPrevHash, 0, y>>
  <2>5. p[6] = x /\ q[6] = y
    OBVIOUS
  <2>6. p = q
    BY <2>3, <2>4
  <2> HIDE DEF p, q
  <2>7. x = y
    BY ONLY <2>5, <2>6
  <2> QED
    BY <2>1, <2>2, <2>7
<1>8. AdoptStep(c, d)
  BY <1>2, <1>5, <1>6, <1>7 DEF AdoptStep
<1> QED
  BY <1>8 DEF ChainStep, d, e

LEMMA NextStep == Inv /\ [Next]_vars => \A k \in Nodes : ChainStep(chain[k], chain'[k])
<1> SUFFICES ASSUME Inv, [Next]_vars PROVE \A k \in Nodes : ChainStep(chain[k], chain'[k])
  OBVIOUS
<1> DEFINE Goal == \A k \in Nodes : ChainStep(chain[k], chain'[k])
<1>1. \A n \in Nodes : ChainOK(chain[n], now)
  BY DEF Inv
<1>2. ASSUME NEW n \in Nodes, NEW tx, AddTransaction(n, tx) PROVE Goal
  <2>1. Update(n, AddPending(chain[n], tx))
    BY <1>2 DEF AddTransaction
  <2>2. ChainStep(chain[n], AddPending(chain[n], tx))
    BY <1>1, AddStep
  <2> QED
    BY <2>1, <2>2, UpdateStep
<1>3. ASSUME NEW n \in Nodes, NEW order \in Orders, FaucetGrant(n, order) \/ Send(n, order) PROVE Goal
  BY <1>2, <1>3 DEF FaucetGrant, Send
<1>4. ASSUME NEW n \in Nodes, MineBlock(n) PROVE Goal
  <2>1. PICK nonce \in BlockNonces : Update(n, Mined(chain[n], now, nonce))
    BY <1>4 DEF MineBlock
  <2>2. ChainStep(chain[n], Mined(chain[n], now, nonce))
    BY <1>1, MinedStep
  <2> QED
    BY <2>1, <2>2, UpdateStep
<1>5. ASSUME NEW n \in Nodes, NEW d \in Difficulties, SetDifficulty(n, d) PROVE Goal
  <2>1. Update(n, WithDifficulty(chain[n], d))
    BY <1>5 DEF SetDifficulty
  <2>2. ChainStep(chain[n], WithDifficulty(chain[n], d))
    BY <1>1, RuleIsStep
  <2> QED
    BY <2>1, <2>2, UpdateStep
<1>6. ASSUME NEW n \in Nodes, NEW policy \in Policies, ConfigureRetarget(n, policy) PROVE Goal
  <2>1. Len(chain[n].blocks) = 1 /\ Update(n, [chain[n] EXCEPT !.retarget = policy])
    BY <1>6 DEF ConfigureRetarget
  <2>2. ChainStep(chain[n], [chain[n] EXCEPT !.retarget = policy])
    BY <1>1, <2>1, PolicyIsStep
  <2> QED
    BY <2>1, <2>2, UpdateStep
<1>7. ASSUME NEW n \in Nodes, NEW m \in Nodes, ResolveFork(n, m) PROVE Goal
  <2>1. /\ CanAdopt(chain[n], RoundTrip(chain[m]))
        /\ Update(n, Adopted(chain[n], RoundTrip(chain[m])))
    BY <1>7 DEF ResolveFork
  <2>2. ChainStep(chain[n], Adopted(chain[n], RoundTrip(chain[m])))
    BY <1>1, <2>1, AdoptIsStep
  <2> QED
    BY <2>1, <2>2, UpdateStep
<1>8. ASSUME chain' = chain PROVE Goal
  BY <1>8 DEF ChainStep, PoolStep, SameRules
<1>9. Tick \/ UNCHANGED vars => chain' = chain
  BY DEF Tick, vars
<1> QED
  BY <1>2, <1>3, <1>4, <1>5, <1>6, <1>7, <1>8, <1>9 DEF Next

-----------------------------------------------------------------------------
(* Action properties *)

LEMMA SamePrefix ==
    ASSUME NEW s, NEW t, Len(s) \in Nat, Len(t) \in Nat, Len(s) <= Len(t),
           \A i \in 1 .. Len(s) : s[i] = t[i]
    PROVE  IsPrefix(s, t)
<1> DEFINE n == Len(s)
           S == {s[i] : i \in 1 .. n}
<1>1. n \in Nat /\ \A i \in 1 .. n : s[i] \in S /\ t[i] \in S /\ s[i] = t[i]
  OBVIOUS
<1> HIDE DEF n, S
<1>2. /\ SubSeq(s, 1, n) \in Seq(S) /\ SubSeq(t, 1, n) \in Seq(S)
      /\ Len(SubSeq(s, 1, n)) = n /\ Len(SubSeq(t, 1, n)) = n
      /\ \A i \in 1 .. n : SubSeq(s, 1, n)[i] = s[i] /\ SubSeq(t, 1, n)[i] = t[i]
  BY <1>1, SubSeqProperties
<1> DEFINE p == SubSeq(s, 1, n)
           q == SubSeq(t, 1, n)
<1>3. /\ p \in Seq(S) /\ q \in Seq(S) /\ Len(p) = Len(q)
      /\ \A i \in 1 .. Len(p) : p[i] = q[i]
  BY <1>1, <1>2
<1> HIDE DEF p, q
<1>4. p = q
  BY ONLY <1>3, SeqEqual
<1> QED
  BY <1>4 DEF p, q, n, IsPrefix

(* HistoryKept: the blocks of a node grow at their end, or are replaced by   *)
(* blocks of more work over the same genesis block.                          *)
THEOREM HistoryIsKept == Spec => HistoryKept
<1>1. ASSUME Inv, [Next]_vars, NEW n \in Nodes
      PROVE  \/ IsPrefix(chain[n].blocks, chain'[n].blocks)
             \/ /\ TotalWork(chain'[n]) > TotalWork(chain[n])
                /\ chain'[n].blocks[1] = chain[n].blocks[1]
  <2> DEFINE c == chain[n]
             d == chain'[n]
  <2>1. IsList(c.blocks) /\ Len(c.blocks) \in Nat
    BY <1>1, ChainFields DEF Inv
  <2>2. ChainStep(c, d)
    BY <1>1, NextStep
  <2> HIDE DEF c, d
  <2>3. CASE d.blocks = c.blocks
    <3>1. IsPrefix(c.blocks, d.blocks)
      BY <2>1, <2>3, SamePrefix
    <3> QED
      BY <3>1 DEF c, d
  <2>4. CASE MineStep(c, d)
    <3>1. PICK b : d.blocks = Append(c.blocks, b)
      BY <2>4 DEF MineStep
    <3>2. /\ Len(d.blocks) = Len(c.blocks) + 1
          /\ \A i \in 1 .. Len(c.blocks) : d.blocks[i] = c.blocks[i]
      BY <2>1, <3>1, ListAppend
    <3>3. IsPrefix(c.blocks, d.blocks)
      BY <2>1, <3>2, SamePrefix
    <3> QED
      BY <3>3 DEF c, d
  <2>5. CASE AdoptStep(c, d)
    BY <2>5 DEF AdoptStep, c, d
  <2> QED
    BY <2>2, <2>3, <2>4, <2>5 DEF ChainStep, PoolStep, RuleStep, PolicyStep
<1>2. Inv /\ [Next]_vars =>
        [\A n \in Nodes :
            \/ IsPrefix(chain[n].blocks, chain'[n].blocks)
            \/ /\ TotalWork(chain'[n]) > TotalWork(chain[n])
               /\ chain'[n].blocks[1] = chain[n].blocks[1]]_vars
  BY <1>1
<1> QED
  BY <1>2, Invariance, PTL DEF Spec, HistoryKept

(* PolicyKept: a node's block size, its policy once it has mined and its     *)
(* rules for mined heights stay its own, whichever chains it adopts.         *)
THEOREM PoliciesAreKept == Spec => PolicyKept
<1> DEFINE Kept(c, d) ==
              /\ \A i \in DOMAIN d.blocks : Len(d.blocks[i].transactions) <= c.maxTx
              /\ Height(c) > 0 => d.retarget = c.retarget
              /\ RestrictDomain(d.schedule, LAMBDA h : h <= Height(c))
                    = RestrictDomain(c.schedule, LAMBDA h : h <= Height(c))
<1>1. ASSUME Inv, [Next]_vars, NEW n \in Nodes PROVE Kept(chain[n], chain'[n])
  <2> DEFINE c == chain[n]
             d == chain'[n]
  <2>1. Inv'
    BY <1>1, NextInv
  <2>2. ChainOK(c, now) /\ ChainOK(d, now')
    BY <1>1, <2>1 DEF Inv
  <2>3. ChainStep(c, d)
    BY <1>1, NextStep
  <2> HIDE DEF c, d
  <2>4. d.maxTx = c.maxTx
    BY <2>3 DEF ChainStep, PoolStep, MineStep, RuleStep, PolicyStep, AdoptStep, SameRules
  <2>5. Len(c.blocks) \in Nat \ {0} /\ Height(c) = Len(c.blocks) - 1
    BY <2>2, ChainFields DEF Height
  <2>6. ASSUME NEW i \in DOMAIN d.blocks PROVE Len(d.blocks[i].transactions) <= c.maxTx
    <3>1. i \in 1 .. Len(d.blocks)
      BY <2>2, ChainFields
    <3>2. BlockOK(d, i, now')
      BY <2>2, <3>1 DEF ChainOK
    <3> QED
      BY <2>4, <3>2 DEF BlockOK
  <2>7. Height(c) > 0 => d.retarget = c.retarget
    <3>1. d.retarget = c.retarget \/ Len(c.blocks) = 1
      BY <2>3 DEF ChainStep, PoolStep, MineStep, RuleStep, PolicyStep, AdoptStep, SameRules
    <3>2. Len(c.blocks) = 1 => ~(Height(c) > 0)
      BY <2>5
    <3> QED
      BY ONLY <3>1, <3>2
  <2>8. RestrictDomain(d.schedule, LAMBDA h : h <= Height(c))
          = RestrictDomain(c.schedule, LAMBDA h : h <= Height(c))
    <3>1. CASE d.schedule = c.schedule
      BY <3>1
    <3>2. CASE RuleStep(c, d)
      <4> DEFINE old == {h \in DOMAIN c.schedule : h <= Height(c)}
                 new == {h \in DOMAIN d.schedule : h <= Height(c)}
      <4>1. \A h \in old : h \in DOMAIN d.schedule /\ d.schedule[h] = c.schedule[h]
        BY <2>2, <2>5, <3>2 DEF RuleStep, ChainOK, ScheduleOK
      <4>2. new = old
        BY <2>5, <3>2, <4>1 DEF RuleStep
      <4>3. Restrict(d.schedule, new) = Restrict(c.schedule, old)
        <5> HIDE DEF old, new
        <5> QED
          BY <4>1, <4>2 DEF Restrict
      <4> QED
        BY <4>3 DEF RestrictDomain
    <3> QED
      BY <2>3, <3>1, <3>2 DEF ChainStep, PoolStep, MineStep, PolicyStep, AdoptStep, SameRules
  <2> QED
    BY <2>6, <2>7, <2>8 DEF c, d
<1>2. Inv /\ [Next]_vars =>
        [\A n \in Nodes : LET c == chain[n]  d == chain'[n] IN
          /\ \A i \in DOMAIN d.blocks : Len(d.blocks[i].transactions) <= c.maxTx
          /\ Height(c) > 0 => d.retarget = c.retarget
          /\ RestrictDomain(d.schedule, LAMBDA h : h <= Height(c))
                = RestrictDomain(c.schedule, LAMBDA h : h <= Height(c))]_vars
  BY <1>1
<1> QED
  BY <1>2, Invariance, PTL DEF Spec, PolicyKept

-----------------------------------------------------------------------------
(* Retargeting *)

LEMMA ClampedCases ==
    ASSUME NEW r, r.min \in Int, r.max \in Int, r.min <= r.max,
           NEW x \in Int, NEW y \in {x - 1, x, x + 1}
    PROVE  \/ Clamped(r, y) = x
           \/ /\ Clamped(r, y) \in r.min .. r.max
              /\ \/ Clamped(r, y) - x \in {-1, 1}
                 \/ x > r.max /\ Clamped(r, y) = r.max
                 \/ x < r.min /\ Clamped(r, y) = r.min
BY DEF Clamped

(* RetargetIsGradual: without a manual rule the difficulty moves at retarget *)
(* heights only, by one or back into the policy's bounds.                    *)
THEOREM RetargetsAreGradual == Spec => []RetargetIsGradual
<1>1. ASSUME Inv, NEW n \in Nodes, NEW h \in 1 .. Height(chain[n]),
             h \notin DOMAIN chain[n].schedule
      PROVE  LET c == chain[n]
                 before == BlockAt(c, h - 1).difficulty
                 after  == BlockAt(c, h).difficulty
             IN  \/ after = before
                 \/ /\ ShouldRetarget(c, h)
                    /\ after \in c.retarget.min .. c.retarget.max
                    /\ \/ after - before \in {-1, 1}
                       \/ before > c.retarget.max /\ after = c.retarget.max
                       \/ before < c.retarget.min /\ after = c.retarget.min
  <2> DEFINE c == chain[n]
             r == c.retarget
             before == BlockAt(c, h - 1).difficulty
             after  == BlockAt(c, h).difficulty
  <2>1. ChainOK(c, now)
    BY <1>1 DEF Inv
  <2>2. h \in 1 .. Height(c) /\ h \notin DOMAIN c.schedule
    BY <1>1
  <2> HIDE DEF c
  <2>3. Len(c.blocks) \in Nat \ {0} /\ Height(c) = Len(c.blocks) - 1
    BY <2>1, ChainFields DEF Height
  <2>4. h \in 1 .. Len(c.blocks) /\ h + 1 \in 1 .. Len(c.blocks) /\ h - 1 \in Nat
         /\ (h - 1) + 1 = h /\ (h + 1) - 1 = h
    BY <2>2, <2>3
  <2>5. BlockOK(c, h, now) /\ BlockOK(c, h + 1, now)
    BY <2>1, <2>4 DEF ChainOK
  <2>6. before = ExpectedDifficulty(c, h - 1) /\ after = ExpectedDifficulty(c, h)
    BY <2>4, <2>5 DEF BlockOK, BlockAt
  <2>7. ExpectedDifficulty(c, (h - 1) + 1)
          = DifficultyAfter(c, (h - 1) + 1, ExpectedDifficulty(c, h - 1))
    BY ONLY <2>4, ExpectedAfter
  <2>8. after = DifficultyAfter(c, h, before)
    BY <2>4, <2>6, <2>7
  <2>9. before \in 0 .. MaxDifficulty64
    BY <2>1, <2>4, <2>6, ExpectedInRange DEF ChainOK, ScheduleOK
  <2>10. r.min \in 0 .. MaxDifficulty64 /\ r.max \in 0 .. MaxDifficulty64 /\ r.min <= r.max
    BY <2>1 DEF ChainOK, ValidRetarget
  <2> DEFINE adjusted == Adjusted(r, ActualSeconds(c, h), before)
  <2>11. adjusted \in {before - 1, before, before + 1}
    BY <2>9, AdjustedByOne DEF MaxDifficulty64
  <2>12. after = before \/ (ShouldRetarget(c, h) /\ after = Clamped(r, adjusted))
    BY <2>2, <2>8 DEF DifficultyAfter, RetargetDifficulty
  <2> HIDE DEF before, after, adjusted, r
  <2>13. \/ Clamped(r, adjusted) = before
         \/ /\ Clamped(r, adjusted) \in r.min .. r.max
            /\ \/ Clamped(r, adjusted) - before \in {-1, 1}
               \/ before > r.max /\ Clamped(r, adjusted) = r.max
               \/ before < r.min /\ Clamped(r, adjusted) = r.min
    BY <2>9, <2>10, <2>11, ClampedCases DEF MaxDifficulty64
  <2>14. \/ after = before
         \/ /\ ShouldRetarget(c, h)
            /\ after \in r.min .. r.max
            /\ \/ after - before \in {-1, 1}
               \/ before > r.max /\ after = r.max
               \/ before < r.min /\ after = r.min
    BY <2>12, <2>13
  <2> QED
    BY <2>14 DEF before, after, r, c
<1>2. Inv => RetargetIsGradual
  BY <1>1 DEF RetargetIsGradual
<1> QED
  BY <1>2, Invariance, PTL

LEMMA Multiples ==
    ASSUME NEW n \in Nat \ {0}, NEW q \in Int
    PROVE  n * q + n = n * (q + 1) /\ n * q + n + n = n * (q + 2)
OBVIOUS

(* The arithmetic of NextRetargetHeight: for a window of n blocks, the next  *)
(* height above n that leaves no remainder.                                  *)
LEMMA NextMultiple ==
    ASSUME NEW n \in Nat \ {0}, NEW next \in Int, next > n + 1,
           NEW o, o = (next - (n + 1)) % n
    PROVE  /\ o \in 0 .. n - 1
           /\ o = 0 => (next - 1) % n = 0
           /\ (next + (n - o) - 1) % n = 0
           /\ \A h \in next .. next + (n - o) - 1 : o # 0 => (h - 1) % n # 0
<1> DEFINE a == next - (n + 1)
<1>1. a \in Int /\ next - 1 = a + n
  OBVIOUS
<1>2. PICK q \in Int : a = n * q + (a % n) /\ a % n \in 0 .. n - 1
  <2> HIDE DEF a
  <2> QED
    BY ONLY <1>1, n \in Nat \ {0}, Division
<1>3. a = n * q + o /\ o \in 0 .. n - 1
  BY <1>2
<1> HIDE DEF a
<1> DEFINE m == n * q
<1>4. m \in Int /\ m + n = n * (q + 1) /\ m + n + n = n * (q + 2) /\ q + 1 \in Int /\ q + 2 \in Int
       /\ 0 \in 0 .. n - 1
  BY Multiples
<1>5. a = m + o
  BY <1>3
<1> HIDE DEF m
<1>6. ASSUME o = 0 PROVE (next - 1) % n = 0
  <2>1. next - 1 = n * (q + 1) + 0 /\ next - 1 \in Int
    BY <1>1, <1>4, <1>5, <1>6
  <2> QED
    BY ONLY <2>1, <1>4, n \in Nat \ {0}, Remainder
<1>7. (next + (n - o) - 1) % n = 0
  <2>1. next + (n - o) - 1 = n * (q + 2) + 0 /\ next + (n - o) - 1 \in Int
    <3>1. next + (n - o) - 1 = m + n + n
      BY <1>1, <1>3, <1>4, <1>5
    <3> QED
      BY <3>1, <1>4
  <2> DEFINE x == next + (n - o) - 1
  <2>2. x = n * (q + 2) + 0 /\ x \in Int
    BY <2>1
  <2> HIDE DEF x
  <2>3. x % n = 0
    BY ONLY <2>2, <1>4, n \in Nat \ {0}, Remainder
  <2> QED
    BY <2>3 DEF x
<1>8. ASSUME NEW h \in next .. next + (n - o) - 1, o # 0 PROVE (h - 1) % n # 0
  <2> DEFINE r == o + (h - next)
             x == h - 1
  <2>1. r \in 1 .. n - 1 /\ r \in 0 .. n - 1
    BY <1>3, <1>8
  <2>2. x \in Int /\ x = n * (q + 1) + r
    <3>1. x = (m + n) + r
      BY <1>1, <1>3, <1>4, <1>5
    <3> QED
      BY <3>1, <1>4
  <2> HIDE DEF r, x
  <2>3. x % n = r
    BY ONLY <2>1, <2>2, <1>4, n \in Nat \ {0}, Remainder
  <2> QED
    BY <2>1, <2>3 DEF x
<1> QED
  BY <1>3, <1>6, <1>7, <1>8

(* NextRetargetAnnounced: the height that the retarget command shows is the  *)
(* next one that retargets.                                                  *)
THEOREM AnnouncedHeightIsNext == Spec => []NextRetargetAnnounced
<1>1. ASSUME Inv, NEW n \in Nodes, chain[n].retarget.enabled
      PROVE  LET c == chain[n] IN
             /\ ShouldRetarget(c, NextRetargetHeight(c))
             /\ NextRetargetHeight(c) > Height(c)
             /\ \A h \in Height(c) + 1 .. NextRetargetHeight(c) - 1 : ~ShouldRetarget(c, h)
  <2> DEFINE c == chain[n]
             i == c.retarget.interval
             next == Height(c) + 1
             o == (next - (i + 1)) % i
             announced == NextRetargetHeight(c)
  <2>1. i \in Nat /\ i >= 2 /\ Height(c) \in Nat /\ next \in Nat /\ c.retarget.enabled
    <3>1. ChainOK(c, now)
      BY <1>1 DEF Inv
    <3>2. i \in Nat /\ i >= 2
      BY <3>1, PolicyFields DEF ChainOK
    <3>3. Height(c) \in Nat
      BY <3>1, ChainFields DEF Height
    <3> QED
      BY <1>1, <3>2, <3>3
  <2>2. announced = IF next <= i + 1 THEN i + 1
                    ELSE IF o = 0 THEN next ELSE next + (i - o)
    BY <2>1 DEF NextRetargetHeight, FirstRetargetHeight
  <2>3. \A h : ShouldRetarget(c, h) <=> h > i /\ (h - 1) % i = 0
    BY <2>1 DEF ShouldRetarget
  <2>4. Height(c) = next - 1
    BY <2>1
  <2> HIDE DEF announced, next, i
  <2>5. CASE next <= i + 1
    <3>1. announced = i + 1 /\ (i + 1) - 1 = i /\ i = i * 1 + 0
      BY <2>1, <2>2, <2>5
    <3>2. i % i = 0
      BY <2>1
    <3> QED
      BY <2>1, <2>3, <2>4, <2>5, <3>1, <3>2 DEF c, announced
  <2>6. CASE next > i + 1
    <3>1. /\ o \in 0 .. i - 1
          /\ o = 0 => (next - 1) % i = 0
          /\ (next + (i - o) - 1) % i = 0
          /\ \A h \in next .. next + (i - o) - 1 : o # 0 => (h - 1) % i # 0
      <4>1. i \in Nat \ {0} /\ next \in Int
        BY <2>1
      <4> QED
        BY <4>1, <2>6, NextMultiple
    <3> HIDE DEF o, c
    <3>2. ShouldRetarget(c, announced) /\ announced > Height(c)
      BY <2>1, <2>2, <2>3, <2>4, <2>6, <3>1
    <3>3. ASSUME NEW h \in Height(c) + 1 .. announced - 1 PROVE ~ShouldRetarget(c, h)
      BY <2>1, <2>2, <2>3, <2>4, <2>6, <3>1, <3>3
    <3> QED
      BY <3>2, <3>3 DEF c, announced
  <2> QED
    BY <2>1, <2>5, <2>6
<1>2. Inv => NextRetargetAnnounced
  BY <1>1 DEF NextRetargetAnnounced
<1> QED
  BY <1>2, Invariance, PTL

(* The time a window should take, when it fits an int64, and twice that time. *)
LEMMA ExpectedIsExact ==
    ASSUME NEW r, NEW interval \in Nat, interval = r.interval, interval >= 2,
           NEW target \in Nat \ {0}, target = r.target,
           NEW e, e = (interval - 1) * target
    PROVE  /\ e \in Nat \ {0}
           /\ e <= MaxInt => Half(ExpectedSeconds(r)) = e \div 2
           /\ e * 2 <= MaxInt => e <= MaxInt /\ Wrap(ExpectedSeconds(r) * 2) = e * 2
<1>1. e \in Nat \ {0}
  <2>1. interval - 1 \in Nat \ {0}
    OBVIOUS
  <2>2. \A x, y \in Nat \ {0} : x * y \in Nat \ {0}
    OBVIOUS
  <2> QED
    BY ONLY <2>1, <2>2, target \in Nat \ {0}, e = (interval - 1) * target
<1>2. /\ e \in Int /\ -MaxInt <= e
      /\ e * 2 \in Int /\ -MaxInt <= e * 2
      /\ e * 2 <= MaxInt => e <= MaxInt
  BY <1>1, MaxIntAssumption
<1>3. ExpectedSeconds(r) = Wrap(e)
  BY DEF ExpectedSeconds
<1>4. e <= MaxInt => ExpectedSeconds(r) = e
  BY ONLY <1>2, <1>3, WrapIsExact
<1>5. e * 2 <= MaxInt => Wrap(e * 2) = e * 2
  BY ONLY <1>2, WrapIsExact
<1>6. Half(e) = e \div 2
  BY <1>1 DEF Half
<1> QED
  BY <1>1, <1>2, <1>4, <1>5, <1>6

(* What a retarget makes of a window, whatever twice the time came to. *)
LEMMA AdjustedFollows ==
    ASSUME NEW r, NEW min \in Int, NEW max \in Int, min = r.min, max = r.max, min <= max,
           NEW e \in Nat \ {0}, Half(ExpectedSeconds(r)) = e \div 2,
           NEW actual \in Int, NEW x \in Int,
           NEW y, y = Clamped(r, Adjusted(r, actual, x))
    PROVE  /\ y > x => actual < e \div 2 \/ x < min
           /\ y < x => ~(actual < e \div 2) \/ x > max
           /\ y = x => ~(actual < e \div 2) \/ x \in {min, max}
           /\ Wrap(ExpectedSeconds(r) * 2) = e * 2 =>
                 /\ y < x => actual > e * 2 \/ x > max
                 /\ y = x => ~(actual > e * 2) \/ x \in {min, max}
<1> DEFINE half == e \div 2
           late == actual > Wrap(ExpectedSeconds(r) * 2)
           slow == actual > e * 2
           z == Adjusted(r, actual, x)
<1>1. /\ half \in Int
      /\ Wrap(ExpectedSeconds(r) * 2) = e * 2 => (late <=> slow)
      /\ slow => ~(actual < half)
  OBVIOUS
<1>2. z = IF actual < half THEN x + 1 ELSE IF late THEN x - 1 ELSE x
  BY DEF Adjusted
<1>3. y = LET atLeast == IF z < min THEN min ELSE z IN IF atLeast > max THEN max ELSE atLeast
  BY DEF Clamped
<1> DEFINE doubled == Wrap(ExpectedSeconds(r) * 2) = e * 2
<1>4. doubled => (late <=> slow)
  BY <1>1
<1>5. doubled \in BOOLEAN /\ late \in BOOLEAN /\ slow \in BOOLEAN
  OBVIOUS
<1> HIDE DEF half, late, slow, z, doubled
<1>6. CASE late
  <2>1. z = IF actual < half THEN x + 1 ELSE x - 1
    BY ONLY <1>2, <1>6
  <2>2. /\ y > x => actual < half \/ x < min
        /\ y < x => ~(actual < half) \/ x > max
        /\ y = x => ~(actual < half) \/ x \in {min, max}
    BY ONLY <1>1, <1>3, <2>1, min \in Int, max \in Int, min <= max, actual \in Int, x \in Int
  <2>3. doubled => slow
    BY <1>4, <1>6
  <2>4. slow => (y = x => x \in {min, max})
    BY ONLY <1>1, <1>3, <2>1, min \in Int, max \in Int, min <= max, actual \in Int, x \in Int
  <2> QED
    BY ONLY <2>2, <2>3, <2>4 DEF half, slow, doubled
<1>7. CASE ~late
  <2>1. z = IF actual < half THEN x + 1 ELSE x
    BY ONLY <1>2, <1>7
  <2>2. /\ y > x => actual < half \/ x < min
        /\ y < x => ~(actual < half) \/ x > max
        /\ y = x => ~(actual < half) \/ x \in {min, max}
        /\ y < x => x > max
    BY ONLY <1>1, <1>3, <2>1, min \in Int, max \in Int, min <= max, actual \in Int, x \in Int
  <2>3. doubled => ~slow
    BY <1>4, <1>7
  <2> QED
    BY ONLY <2>2, <2>3 DEF half, slow, doubled
<1> QED
  BY <1>6, <1>7

(* RetargetFollowsWindow: a window that was too fast makes mining harder and *)
(* is never taken for a slow one; one too slow makes it easier and only such *)
(* a one does, as long as twice the expected time fits an int64.             *)
THEOREM RetargetsFollowWindows == Spec => []RetargetFollowsWindow
<1>1. ASSUME Inv, NEW n \in Nodes, NEW h \in 1 .. Height(chain[n]),
             h \notin DOMAIN chain[n].schedule, ShouldRetarget(chain[n], h)
      PROVE  LET c == chain[n]  r == c.retarget
                 before   == BlockAt(c, h - 1).difficulty
                 after    == BlockAt(c, h).difficulty
                 actual   == BlockAt(c, h - 1).time - BlockAt(c, h - r.interval).time
                 expected == (r.interval - 1) * r.target
                 fast == actual < expected \div 2
                 slow == actual > expected * 2
             IN  /\ expected <= MaxInt =>
                       /\ after > before => fast \/ before < r.min
                       /\ after < before => ~fast \/ before > r.max
                       /\ after = before => ~fast \/ before \in {r.min, r.max}
                 /\ expected * 2 <= MaxInt =>
                       /\ after < before => slow \/ before > r.max
                       /\ after = before => ~slow \/ before \in {r.min, r.max}
  <2> DEFINE c == chain[n]
             r == c.retarget
             i == r.interval
             before == BlockAt(c, h - 1).difficulty
             after  == BlockAt(c, h).difficulty
             actual == BlockAt(c, h - 1).time - BlockAt(c, h - r.interval).time
             expected == (r.interval - 1) * r.target
  <2>1. ChainOK(c, now) /\ now \in 1 .. MaxTime
    BY <1>1 DEF Inv
  <2>2. h \in 1 .. Height(c) /\ h \notin DOMAIN c.schedule /\ ShouldRetarget(c, h)
    BY <1>1
  <2> HIDE DEF c
  <2>3. /\ r \in Policies /\ ValidRetarget(r)
        /\ i \in Nat /\ i >= 2
        /\ r.min \in 0 .. MaxDifficulty64 /\ r.max \in 0 .. MaxDifficulty64 /\ r.min <= r.max
    BY <2>1, PolicyFields DEF ChainOK
  <2>4. r.target \in Nat \ {0}
    <3>1. r \in [enabled : BOOLEAN, interval : Int, target : Int, min : Int, max : Int]
      BY <2>3, PolicyAssumption
    <3> QED
      BY <2>3, <3>1 DEF ValidRetarget
  <2>5. Len(c.blocks) \in Nat \ {0} /\ Height(c) = Len(c.blocks) - 1
    BY <2>1, ChainFields DEF Height
  <2>6. h > i
    BY <2>2 DEF ShouldRetarget
  <2>7. /\ h \in 1 .. Len(c.blocks) /\ h + 1 \in 1 .. Len(c.blocks)
        /\ (h - i) + 1 \in 1 .. Len(c.blocks)
        /\ h - 1 \in Nat /\ (h - 1) + 1 = h /\ (h + 1) - 1 = h
        /\ ~(h - i < 1) /\ ~(h > Len(c.blocks))
    <3> DEFINE len == Len(c.blocks)
               w == i
    <3>1. len \in Nat /\ h \in 1 .. len - 1 /\ w \in Nat /\ w >= 2 /\ h > w
      BY <2>2, <2>3, <2>5, <2>6
    <3> HIDE DEF len, w
    <3>2. /\ h \in 1 .. len /\ h + 1 \in 1 .. len
          /\ (h - w) + 1 \in 1 .. len
          /\ h - 1 \in Nat /\ (h - 1) + 1 = h /\ (h + 1) - 1 = h
          /\ ~(h - w < 1) /\ ~(h > len)
      BY ONLY <3>1
    <3> QED
      BY <3>2 DEF len, w
  <2>8. BlockOK(c, h, now) /\ BlockOK(c, h + 1, now) /\ BlockOK(c, (h - i) + 1, now)
    BY <2>1, <2>7 DEF ChainOK
  <2>9. before = ExpectedDifficulty(c, h - 1) /\ after = ExpectedDifficulty(c, h)
    BY <2>7, <2>8 DEF BlockOK, BlockAt
  <2>10. ExpectedDifficulty(c, (h - 1) + 1)
           = DifficultyAfter(c, (h - 1) + 1, ExpectedDifficulty(c, h - 1))
    BY ONLY <2>7, ExpectedAfter
  <2>11. after = DifficultyAfter(c, h, before)
    BY <2>7, <2>9, <2>10
  <2>12. before \in 0 .. MaxDifficulty64
    BY <2>1, <2>7, <2>9, ExpectedInRange DEF ChainOK, ScheduleOK
  <2>13. after = Clamped(r, Adjusted(r, ActualSeconds(c, h), before))
    BY <2>2, <2>7, <2>11 DEF DifficultyAfter, RetargetDifficulty
  <2>14. BlockAt(c, h - 1).time \in 0 .. now /\ BlockAt(c, h - i).time \in 0 .. now
    BY <2>7, <2>8 DEF BlockOK, BlockAt
  <2>15. actual \in Int /\ actual <= MaxInt /\ -MaxInt <= actual
    BY <2>1, <2>14, ClockAssumption, BoundsAssumption, MaxIntAssumption
  <2>16. ActualSeconds(c, h) = Wrap(actual)
    BY DEF ActualSeconds
  <2> HIDE DEF actual, before, after
  <2>17. Wrap(actual) = actual
    BY ONLY <2>15, WrapIsExact
  <2>18. /\ expected \in Nat \ {0}
         /\ expected <= MaxInt => Half(ExpectedSeconds(r)) = expected \div 2
         /\ expected * 2 <= MaxInt =>
               expected <= MaxInt /\ Wrap(ExpectedSeconds(r) * 2) = expected * 2
    BY <2>3, <2>4, ExpectedIsExact
  <2> HIDE DEF expected
  <2>19. after = Clamped(r, Adjusted(r, actual, before))
    BY <2>13, <2>16, <2>17
  <2>20. r.min \in Int /\ r.max \in Int /\ r.min <= r.max /\ before \in Int
    BY <2>3, <2>12 DEF MaxDifficulty64
  <2> HIDE DEF r
  <2> DEFINE fast == actual < expected \div 2
             slow == actual > expected * 2
  <2>21. ASSUME expected <= MaxInt
         PROVE  /\ after > before => fast \/ before < r.min
                /\ after < before => ~fast \/ before > r.max
                /\ after = before => ~fast \/ before \in {r.min, r.max}
                /\ Wrap(ExpectedSeconds(r) * 2) = expected * 2 =>
                      /\ after < before => slow \/ before > r.max
                      /\ after = before => ~slow \/ before \in {r.min, r.max}
    BY ONLY <2>15, <2>18, <2>19, <2>20, <2>21, AdjustedFollows
  <2>22. /\ expected <= MaxInt =>
               /\ after > before => fast \/ before < r.min
               /\ after < before => ~fast \/ before > r.max
               /\ after = before => ~fast \/ before \in {r.min, r.max}
         /\ expected * 2 <= MaxInt =>
               /\ after < before => slow \/ before > r.max
               /\ after = before => ~slow \/ before \in {r.min, r.max}
    BY ONLY <2>18, <2>21
  <2> QED
    BY <2>22 DEF r, before, after, actual, expected, c
<1>2. Inv => RetargetFollowsWindow
  BY <1>1 DEF RetargetFollowsWindow
<1> QED
  BY <1>2, Invariance, PTL

-----------------------------------------------------------------------------
(* Hashes *)

LEMMA MaxIsGreatest ==
    ASSUME NEW bound \in Nat, NEW N \in SUBSET (0 .. bound), N # {}
    PROVE  Max(N) \in N /\ \A n \in N : n <= Max(N)
<1>1. \E x \in N : \A y \in N : x >= y
  <2>1. PICK greatest \in N : \A n \in N : n <= greatest
    BY R!GreatestElement
  <2>2. \A n \in N : greatest >= n
    BY <2>1
  <2> QED
    BY <2>2
<1>2. Max(N) \in N /\ \A y \in N : Max(N) >= y
  BY <1>1 DEF Max
<1> QED
  BY <1>2

(* A hash is of all that a block says but its transactions, whose root it has. *)
LEMMA HashFields ==
    ASSUME NEW b, NEW d, ComputeHash(b) = ComputeHash(d)
    PROVE  /\ b.height = d.height /\ b.time = d.time /\ b.root = d.root
           /\ b.prev = d.prev /\ b.nonce = d.nonce /\ b.difficulty = d.difficulty
BY DEF ComputeHash

TxTexts == {TransactionText(tx) : tx \in Tx}

LEMMA TextsTyped ==
    ASSUME NEW txs \in Seq(Tx)
    PROVE  /\ Texts(txs) \in Seq(TxTexts) /\ Len(Texts(txs)) = Len(txs)
           /\ DOMAIN Texts(txs) = 1 .. Len(txs)
           /\ \A i \in 1 .. Len(txs) : Texts(txs)[i] = TransactionText(txs[i])
<1> DEFINE n == Len(txs)
           texts == Texts(txs)
<1>1. n \in Nat /\ DOMAIN txs = 1 .. n /\ \A i \in 1 .. n : txs[i] \in Tx
  BY LenProperties, ElementOfSeq
<1>2. texts = [i \in 1 .. n |-> TransactionText(txs[i])]
  BY <1>1 DEF Texts
<1> HIDE DEF n, texts
<1>3. \A i \in 1 .. n : TransactionText(txs[i]) \in TxTexts
  BY <1>1 DEF TxTexts
<1>4. texts \in [1 .. n -> TxTexts]
  BY <1>2, <1>3
<1>5. texts \in Seq(TxTexts)
  BY <1>1, <1>4, SeqDef
<1>6. DOMAIN texts = 1 .. n /\ \A i \in 1 .. n : texts[i] = TransactionText(txs[i])
  BY <1>2
<1>7. Len(texts) = n
  BY <1>1, <1>5, <1>6, LenProperties
<1> QED
  BY <1>5, <1>6, <1>7 DEF n, texts

(* The blocks of a chain, as far as its hashes tell of them.                *)
LEMMA ChainHashes ==
    ASSUME NEW c, NEW t, ChainOK(c, t), NEW i \in 1 .. Len(c.blocks)
    PROVE  /\ IsBlock(c.blocks[i]) /\ c.blocks[i].height = i - 1
           /\ c.blocks[i].hash = ComputeHash(c.blocks[i])
           /\ c.blocks[i].root = MerkleRoot(c.blocks[i].transactions)
           /\ c.blocks[i].transactions \in Seq(Tx)
           /\ i > 1 => c.blocks[i].prev = c.blocks[i - 1].hash
BY DEF ChainOK, BlockOK, Holds, Intact, Follows

(* Below a height up to which hashes agree two chains expect the same of it,  *)
(* if one came from the other in a step.                                      *)
LEMMA SharedPastExpectsSame ==
    ASSUME NEW c, NEW t, ChainOK(c, t), NEW d, NEW u, ChainOK(d, u), ChainStep(c, d),
           NEW i \in 1 .. Len(c.blocks), i \in 1 .. Len(d.blocks),
           \A k \in 1 .. i - 1 : c.blocks[k].hash = d.blocks[k].hash
    PROVE  ExpectedDifficulty(d, i - 1) = ExpectedDifficulty(c, i - 1)
<1>1. CASE d.blocks = c.blocks
  <2>1. BlockOK(c, i, t) /\ BlockOK(d, i, u)
    BY DEF ChainOK
  <2> QED
    BY <1>1, <2>1 DEF BlockOK
<1>2. CASE SameRules(c, d)
  <2>1. /\ Len(c.blocks) \in Nat /\ Len(d.blocks) \in Nat
        /\ c.retarget.interval \in Nat \ {0}
    BY ChainFields
  <2>2. i - 1 \in Nat /\ i - 1 <= Len(c.blocks) /\ i - 1 <= Len(d.blocks)
    BY <2>1
  <2>3. ASSUME NEW k \in 1 .. i - 1 PROVE c.blocks[k].time = d.blocks[k].time
    <3>1. k \in 1 .. Len(c.blocks) /\ k \in 1 .. Len(d.blocks)
      BY <2>1
    <3>2. /\ c.blocks[k].hash = ComputeHash(c.blocks[k])
          /\ d.blocks[k].hash = ComputeHash(d.blocks[k])
      BY <3>1, ChainHashes
    <3>3. ComputeHash(c.blocks[k]) = ComputeHash(d.blocks[k])
      BY <3>2
    <3> QED
      BY ONLY <3>3, HashFields
  <2>4. c.retarget = d.retarget /\ \A h \in 0 .. i - 1 : SameRule(c, d, h)
    BY <1>2 DEF SameRules, SameRule
  <2> DEFINE h == i - 1
  <2>5. /\ h \in Nat /\ h <= Len(c.blocks) /\ h <= Len(d.blocks)
        /\ \A k \in 1 .. h : c.blocks[k].time = d.blocks[k].time
        /\ \A k \in 0 .. h : SameRule(c, d, k)
    BY <2>2, <2>3, <2>4
  <2> HIDE DEF h
  <2>6. ExpectedDifficulty(c, h) = ExpectedDifficulty(d, h)
    BY ONLY <2>1, <2>4, <2>5, ExpectedSame
  <2> QED
    BY <2>6 DEF h
<1> QED
  BY <1>1, <1>2 DEF ChainStep, PoolStep, MineStep, RuleStep, PolicyStep, AdoptStep

(* PastDifficultyFixed: no rule or policy changes what was expected of a     *)
(* block that is mined, and an adopted fork had to meet what was expected of *)
(* the blocks that it shares and of its first own one.                       *)
THEOREM PastDifficultiesStay == Spec => PastDifficultyFixed
<1>1. ASSUME Inv, [Next]_vars, NEW n \in Nodes,
             NEW i \in DOMAIN chain[n].blocks \cap DOMAIN chain'[n].blocks,
             \A k \in 1 .. i - 1 : chain[n].blocks[k].hash = chain'[n].blocks[k].hash
      PROVE  ExpectedDifficulty(chain'[n], i - 1) = ExpectedDifficulty(chain[n], i - 1)
  <2>1. Inv'
    BY <1>1, NextInv
  <2> DEFINE c == chain[n]
             d == chain'[n]
  <2>2. ChainOK(c, now) /\ ChainOK(d, now')
    BY <1>1, <2>1 DEF Inv
  <2>3. ChainStep(c, d)
    BY <1>1, NextStep
  <2>4. i \in DOMAIN c.blocks /\ i \in DOMAIN d.blocks
    BY <1>1
  <2>5. \A k \in 1 .. i - 1 : c.blocks[k].hash = d.blocks[k].hash
    BY <1>1
  <2> HIDE DEF c, d
  <2>6. i \in 1 .. Len(c.blocks) /\ i \in 1 .. Len(d.blocks)
    BY <2>2, <2>4, ChainFields
  <2>7. ExpectedDifficulty(d, i - 1) = ExpectedDifficulty(c, i - 1)
    BY ONLY <2>2, <2>3, <2>5, <2>6, SharedPastExpectsSame
  <2> QED
    BY <2>7 DEF c, d
<1>2. Inv /\ [Next]_vars =>
        [\A n \in Nodes : LET c == chain[n]  d == chain'[n] IN
            \A i \in DOMAIN c.blocks \cap DOMAIN d.blocks :
                (\A k \in 1 .. i - 1 : c.blocks[k].hash = d.blocks[k].hash) =>
                    ExpectedDifficulty(d, i - 1) = ExpectedDifficulty(c, i - 1)]_vars
  BY <1>1
<1> QED
  BY <1>2, Invariance, PTL DEF Spec, PastDifficultyFixed

(* A hash tells the height of its block and all hashes before it.           *)
LEMMA HashTellsPast ==
    ASSUME NEW c, NEW d, NEW t, ChainOK(c, t), ChainOK(d, t),
           NEW i \in 1 .. Len(c.blocks), NEW j \in 1 .. Len(d.blocks),
           c.blocks[i].hash = d.blocks[j].hash
    PROVE  /\ i = j
           /\ \A k \in 1 .. i : c.blocks[k].hash = d.blocks[k].hash
<1>0. Len(c.blocks) \in Nat /\ Len(d.blocks) \in Nat
  BY DEF ChainOK, Holds, IsList
<1>1. i = j
  <2>1. ComputeHash(c.blocks[i]) = ComputeHash(d.blocks[j])
    BY ChainHashes
  <2>2. c.blocks[i].height = d.blocks[j].height
    BY <2>1, HashFields
  <2>3. c.blocks[i].height = i - 1 /\ d.blocks[j].height = j - 1
    BY ChainHashes
  <2> QED
    <3>1. i - 1 = j - 1
      BY <2>2, <2>3
    <3>2. i \in Int /\ j \in Int
      BY <1>0
    <3> QED
      BY ONLY <3>1, <3>2
<1> DEFINE Shared == {k \in Nat : k < i => c.blocks[i - k].hash = d.blocks[i - k].hash}
<1>2. 0 \in Shared
  BY <1>1
<1>3. ASSUME NEW k \in Nat, k \in Shared PROVE k + 1 \in Shared
  <2> SUFFICES ASSUME k + 1 < i PROVE c.blocks[i - (k + 1)].hash = d.blocks[i - (k + 1)].hash
    OBVIOUS
  <2> DEFINE h == i - k
  <2>1. /\ h \in 1 .. Len(c.blocks) /\ h \in 1 .. Len(d.blocks) /\ h > 1
        /\ h - 1 = i - (k + 1)
    BY <1>1
  <2>2. c.blocks[h].hash = d.blocks[h].hash
    BY <1>3
  <2> HIDE DEF h
  <2>3. /\ c.blocks[h].hash = ComputeHash(c.blocks[h]) /\ c.blocks[h].prev = c.blocks[h - 1].hash
        /\ d.blocks[h].hash = ComputeHash(d.blocks[h]) /\ d.blocks[h].prev = d.blocks[h - 1].hash
    BY <2>1, ChainHashes
  <2>4. c.blocks[h].prev = d.blocks[h].prev
    <3>1. ComputeHash(c.blocks[h]) = ComputeHash(d.blocks[h])
      BY <2>2, <2>3
    <3> QED
      BY ONLY <3>1, HashFields
  <2> QED
    BY <2>1, <2>3, <2>4
<1> HIDE DEF Shared
<1>4. \A k \in Nat : k \in Shared
  BY <1>2, <1>3, R!Induction
<1>5. ASSUME NEW k \in 1 .. i PROVE c.blocks[k].hash = d.blocks[k].hash
  <2>1. i - k \in Nat /\ i - k < i /\ i - (i - k) = k
    OBVIOUS
  <2>2. i - k \in Shared
    BY <1>4, <2>1
  <2> QED
    BY <2>1, <2>2 DEF Shared
<1> QED
  BY <1>1, <1>5

(* Blocks of the same hash have the same text, if they repeat nothing.      *)
LEMMA HashTellsText ==
    ASSUME NEW b, NEW d, IsBlock(b), IsBlock(d), b.hash = d.hash,
           b.hash = ComputeHash(b), b.root = MerkleRoot(b.transactions), b.transactions \in Seq(Tx),
           d.hash = ComputeHash(d), d.root = MerkleRoot(d.transactions), d.transactions \in Seq(Tx),
           IsInjective(Texts(b.transactions)), IsInjective(Texts(d.transactions))
    PROVE  [b EXCEPT !.transactions = Texts(@)] = [d EXCEPT !.transactions = Texts(@)]
<1> DEFINE s == Texts(b.transactions)
           u == Texts(d.transactions)
<1>1. /\ b.height = d.height /\ b.time = d.time /\ b.root = d.root
      /\ b.prev = d.prev /\ b.nonce = d.nonce /\ b.difficulty = d.difficulty
  <2>1. ComputeHash(b) = ComputeHash(d)
    OBVIOUS
  <2> QED
    BY ONLY <2>1, HashFields
<1>2. /\ s \in Seq(TxTexts) /\ DOMAIN s = 1 .. Len(s)
      /\ u \in Seq(TxTexts) /\ DOMAIN u = 1 .. Len(u)
  BY TextsTyped
<1>3. CalculateMerkleRoot(s) = CalculateMerkleRoot(u)
  BY <1>1 DEF MerkleRoot
<1>4. IsInjective(s) /\ IsInjective(u)
  OBVIOUS
<1>5. /\ b = [height |-> b.height, time |-> b.time, transactions |-> b.transactions,
               root |-> b.root, prev |-> b.prev, difficulty |-> b.difficulty,
               nonce |-> b.nonce, hash |-> b.hash]
      /\ d = [height |-> d.height, time |-> d.time, transactions |-> d.transactions,
               root |-> d.root, prev |-> d.prev, difficulty |-> d.difficulty,
               nonce |-> d.nonce, hash |-> d.hash]
  BY DEF IsBlock
<1> HIDE DEF s, u
<1>6. /\ \A i, j \in 1 .. Len(s) : s[i] = s[j] => i = j
      /\ \A i, j \in 1 .. Len(u) : u[i] = u[j] => i = j
  BY <1>2, <1>4 DEF IsInjective
<1>7. s = u
  BY ONLY <1>2, <1>3, <1>6, RootNamesSet
<1>8. [b EXCEPT !.transactions = s] = [d EXCEPT !.transactions = s]
  BY ONLY <1>1, <1>5, b.hash = d.hash
<1> QED
  BY <1>7, <1>8 DEF s, u

(* The fork point that is reported is the end of what two chains share.     *)
THEOREM ForkPointsAreShared == Spec => []ForkPointIsShared
<1>1. ASSUME Inv, NEW n \in Nodes, NEW m \in Nodes,
             NEW i \in DOMAIN chain[n].blocks, NEW j \in DOMAIN chain[m].blocks
      PROVE  /\ chain[n].blocks[i].hash = chain[m].blocks[j].hash <=>
                    i = j /\ i <= CommonAncestorHeight(chain[n], chain[m]) + 1
             /\ /\ chain[n].blocks[i].hash = chain[m].blocks[j].hash
                /\ IsInjective(Texts(chain[n].blocks[i].transactions))
                /\ IsInjective(Texts(chain[m].blocks[j].transactions))
                => [chain[n].blocks[i] EXCEPT !.transactions = Texts(@)]
                      = [chain[m].blocks[j] EXCEPT !.transactions = Texts(@)]
  <2> DEFINE c == chain[n]
             d == chain[m]
             shared == {k \in (0 .. Len(c.blocks)) \cap (0 .. Len(d.blocks)) :
                           \A h \in 1 .. k : c.blocks[h].hash = d.blocks[h].hash}
             last == Max(shared)
  <2>1. ChainOK(c, now) /\ ChainOK(d, now)
    BY <1>1 DEF Inv
  <2> HIDE DEF c, d
  <2>2. /\ Len(c.blocks) \in Nat /\ DOMAIN c.blocks = 1 .. Len(c.blocks)
        /\ Len(d.blocks) \in Nat /\ DOMAIN d.blocks = 1 .. Len(d.blocks)
    BY <2>1 DEF ChainOK, Holds, IsList
  <2>3. i \in 1 .. Len(c.blocks) /\ j \in 1 .. Len(d.blocks)
    BY <1>1, <2>2 DEF c, d
  <2>4. shared \in SUBSET (0 .. Len(c.blocks)) /\ 0 \in shared
    BY <2>2
  <2>5. last \in shared /\ \A k \in shared : k <= last
    BY ONLY <2>2, <2>4, MaxIsGreatest
  <2>6. CommonAncestorHeight(c, d) + 1 = last
    <3>1. CommonAncestorHeight(c, d) = IF last = 0 THEN -1 ELSE c.blocks[last].height
      BY DEF CommonAncestorHeight
    <3>2. last \in 0 .. Len(c.blocks)
      BY <2>5
    <3> HIDE DEF last
    <3>3. last # 0 => c.blocks[last].height = last - 1
      BY <2>1, <2>2, <3>2, ChainHashes
    <3> QED
      BY <2>2, <3>1, <3>2, <3>3
  <2>7. ASSUME c.blocks[i].hash = d.blocks[j].hash
        PROVE  i = j /\ i <= last
    <3>1. i = j /\ \A k \in 1 .. i : c.blocks[k].hash = d.blocks[k].hash
      BY <2>1, <2>3, <2>7, HashTellsPast
    <3>2. i \in shared
      BY <2>2, <2>3, <3>1
    <3> QED
      BY <2>5, <3>1, <3>2
  <2>8. ASSUME i = j, i <= last
        PROVE  c.blocks[i].hash = d.blocks[j].hash
    <3>1. last \in Nat /\ \A h \in 1 .. last : c.blocks[h].hash = d.blocks[h].hash
      BY <2>5
    <3> HIDE DEF last
    <3> QED
      BY <2>3, <2>8, <3>1
  <2>9. ASSUME c.blocks[i].hash = d.blocks[j].hash,
               IsInjective(Texts(c.blocks[i].transactions)),
               IsInjective(Texts(d.blocks[j].transactions))
        PROVE  [c.blocks[i] EXCEPT !.transactions = Texts(@)]
                  = [d.blocks[j] EXCEPT !.transactions = Texts(@)]
    <3>1. /\ IsBlock(c.blocks[i]) /\ c.blocks[i].hash = ComputeHash(c.blocks[i])
          /\ c.blocks[i].root = MerkleRoot(c.blocks[i].transactions)
          /\ c.blocks[i].transactions \in Seq(Tx)
      BY <2>1, <2>3, ChainHashes
    <3>2. /\ IsBlock(d.blocks[j]) /\ d.blocks[j].hash = ComputeHash(d.blocks[j])
          /\ d.blocks[j].root = MerkleRoot(d.blocks[j].transactions)
          /\ d.blocks[j].transactions \in Seq(Tx)
      BY <2>1, <2>3, ChainHashes
    <3> QED
      BY ONLY <2>9, <3>1, <3>2, HashTellsText
  <2> HIDE DEF shared, last
  <2> QED
    BY <2>6, <2>7, <2>8, <2>9 DEF c, d
<1>2. Inv => ForkPointIsShared
  BY <1>1 DEF ForkPointIsShared
<1> QED
  BY <1>2, Invariance, PTL

-----------------------------------------------------------------------------
(* Tampering *)

LEMMA TransactionTextFields ==
    ASSUME NEW tx \in Tx
    PROVE  TransactionText(tx) =
               [sender |-> NameText(tx.sender), recipient |-> NameText(tx.recipient),
                amount |-> tx.amount, nonce |-> tx.nonce, signature |-> tx.signature]
<1> DEFINE sender == NameText(tx.sender)
           recipient == NameText(tx.recipient)
           text == TransactionText(tx)
<1>1. tx = [sender |-> tx.sender, recipient |-> tx.recipient, amount |-> tx.amount,
            nonce |-> tx.nonce, signature |-> tx.signature]
  BY DEF Tx
<1>2. text = [tx EXCEPT !.sender = sender, !.recipient = recipient]
  BY <1>1 DEF TransactionText
<1> HIDE DEF sender, recipient, text
<1>3. text = [sender |-> sender, recipient |-> recipient, amount |-> tx.amount,
              nonce |-> tx.nonce, signature |-> tx.signature]
  BY ONLY <1>1, <1>2
<1> QED
  BY <1>3 DEF sender, recipient, text

(* A list with one block replaced.                                          *)
LEMMA BlockReplaced ==
    ASSUME NEW c, IsChain(c), IsList(c.blocks), NEW i \in 1 .. Len(c.blocks), NEW b
    PROVE  /\ DOMAIN WithBlock(c, i, b).blocks = 1 .. Len(c.blocks)
           /\ IsList(WithBlock(c, i, b).blocks)
           /\ Len(WithBlock(c, i, b).blocks) = Len(c.blocks)
           /\ WithBlock(c, i, b).blocks[i] = b
           /\ \A k \in 1 .. Len(c.blocks) : k # i => WithBlock(c, i, b).blocks[k] = c.blocks[k]
           /\ b = c.blocks[i] => WithBlock(c, i, b) = c
<1> DEFINE n == Len(c.blocks)
           s == [c.blocks EXCEPT ![i] = b]
           e == WithBlock(c, i, b)
<1>1. n \in Nat /\ c.blocks = [k \in 1 .. n |-> c.blocks[k]]
  BY DEF IsList
<1>2. c = [blocks |-> c.blocks, pending |-> c.pending, schedule |-> c.schedule,
           retarget |-> c.retarget, maxTx |-> c.maxTx]
  BY DEF IsChain
<1>3. e = [c EXCEPT !.blocks = s]
  BY DEF WithBlock
<1>4. /\ s = [k \in 1 .. n |-> s[k]] /\ s[i] = b
      /\ \A k \in 1 .. n : k # i => s[k] = c.blocks[k]
      /\ b = c.blocks[i] => s = c.blocks
  BY <1>1
<1> HIDE DEF s, e
<1>5. e = [blocks |-> s, pending |-> c.pending, schedule |-> c.schedule,
           retarget |-> c.retarget, maxTx |-> c.maxTx]
  BY ONLY <1>2, <1>3
<1>6. e.blocks = s
  BY ONLY <1>5
<1>7. Len(s) = n /\ IsList(s)
  BY ONLY <1>1, <1>4, ListOf
<1>8. DOMAIN s = 1 .. n
  BY <1>4
<1>9. s = c.blocks => e = c
  BY ONLY <1>2, <1>5
<1> QED
  BY <1>4, <1>6, <1>7, <1>8, <1>9 DEF e

(* The chain knows a block by its place.                                    *)
LEMMA LinkedHeights ==
    ASSUME NEW blocks, Len(blocks) \in Nat, Linked(blocks), NEW i \in 1 .. Len(blocks)
    PROVE  blocks[i].height = i - 1
<1> DEFINE Placed == {k \in Nat : k + 1 <= Len(blocks) => blocks[k + 1].height = k}
<1>1. 0 \in Placed
  BY DEF Linked, ValidGenesis
<1>2. ASSUME NEW k \in Nat, k \in Placed PROVE k + 1 \in Placed
  <2> SUFFICES ASSUME k + 2 <= Len(blocks) PROVE blocks[k + 2].height = k + 1
    OBVIOUS
  <2> DEFINE j == k + 2
  <2>1. j \in 2 .. Len(blocks) /\ j - 1 = k + 1
    OBVIOUS
  <2>2. Follows(blocks[j], blocks[j - 1])
    BY <2>1 DEF Linked
  <2>3. blocks[k + 1].height = k
    BY <1>2
  <2> QED
    BY <2>1, <2>2, <2>3 DEF Follows
<1> HIDE DEF Placed
<1>3. i - 1 \in Nat /\ i - 1 + 1 = i
  OBVIOUS
<1>4. i - 1 \in Placed
  BY <1>1, <1>2, <1>3, R!Induction
<1> QED
  BY <1>3, <1>4 DEF Placed

(* Lists with an element left out, repeated, or swapped with the next.      *)
LEMMA LeftOut ==
    ASSUME NEW S, NEW s \in Seq(S), NEW i \in 1 .. Len(s) - 1
    PROVE  /\ RemoveAt(s, i) \in Seq(S) /\ i \in 1 .. Len(RemoveAt(s, i))
           /\ RemoveAt(s, i)[i] = s[i + 1]
<1> DEFINE n == Len(s)
           front == SubSeq(s, 1, i - 1)
           rest == SubSeq(s, i + 1, n)
<1>1. n \in Nat /\ \A k \in 1 .. n : s[k] \in S
  BY LenProperties, ElementOfSeq
<1>2. RemoveAt(s, i) = front \o rest
  BY DEF RemoveAt
<1>3. i \in 1 .. n - 1
  OBVIOUS
<1> HIDE DEF n
<1>4. front \in Seq(S) /\ Len(front) = i - 1
  <2>1. i - 1 \in Int /\ 1 \in Int /\ \A k \in 1 .. i - 1 : s[k] \in S
    BY <1>1, <1>3
  <2>2. front \in Seq(S) /\ Len(front) = IF 1 <= i - 1 THEN i - 1 - 1 + 1 ELSE 0
    BY ONLY <2>1, SubSeqProperties
  <2> HIDE DEF front
  <2> QED
    BY ONLY <1>1, <1>3, <2>2
<1>5. rest \in Seq(S) /\ Len(rest) = n - i /\ rest[1] = s[i + 1]
  <2>1. i + 1 \in Int /\ n \in Int /\ \A k \in i + 1 .. n : s[k] \in S
    BY <1>1, <1>3
  <2>2. /\ rest \in Seq(S) /\ Len(rest) = IF i + 1 <= n THEN n - (i + 1) + 1 ELSE 0
        /\ \A k \in 1 .. n - (i + 1) + 1 : rest[k] = s[i + 1 + k - 1]
    BY ONLY <2>1, SubSeqProperties
  <2>3. 1 \in 1 .. n - (i + 1) + 1 /\ i + 1 <= n /\ n - (i + 1) + 1 = n - i /\ i + 1 + 1 - 1 = i + 1
    BY ONLY <1>1, <1>3
  <2> HIDE DEF rest
  <2>4. rest[1] = s[i + 1 + 1 - 1]
    BY ONLY <2>2, <2>3
  <2> QED
    BY ONLY <2>2, <2>3, <2>4
<1> DEFINE moved == front \o rest
<1> HIDE DEF front, rest
<1>6. /\ moved \in Seq(S) /\ Len(moved) = Len(front) + Len(rest)
      /\ \A k \in 1 .. Len(front) + Len(rest) :
            moved[k] = IF k <= Len(front) THEN front[k] ELSE rest[k - Len(front)]
  BY ONLY <1>4, <1>5, ConcatProperties
<1>7. i \in 1 .. Len(front) + Len(rest) /\ ~(i <= Len(front)) /\ i - Len(front) = 1
  BY ONLY <1>1, <1>3, <1>4, <1>5
<1>8. RemoveAt(s, i) = moved
  BY <1>2
<1> HIDE DEF moved
<1>9. moved[i] = rest[i - Len(front)]
  BY ONLY <1>6, <1>7
<1>10. moved[i] = rest[1]
  BY ONLY <1>7, <1>9
<1> QED
  BY ONLY <1>5, <1>6, <1>7, <1>8, <1>10

LEMMA Repeated ==
    ASSUME NEW S, NEW s \in Seq(S), NEW i \in 1 .. Len(s)
    PROVE  /\ InsertAt(s, i, s[i]) \in Seq(S) /\ i + 1 \in 1 .. Len(InsertAt(s, i, s[i]))
           /\ InsertAt(s, i, s[i])[i + 1] = s[i]
<1> DEFINE n == Len(s)
           front == SubSeq(s, 1, i - 1)
           rest == SubSeq(s, i, n)
           one == <<s[i]>>
           half == front \o one
           moved == half \o rest
<1>1. n \in Nat /\ \A k \in 1 .. n : s[k] \in S
  BY LenProperties, ElementOfSeq
<1>2. InsertAt(s, i, s[i]) = moved
  BY DEF InsertAt
<1>3. i \in 1 .. n
  OBVIOUS
<1> HIDE DEF n
<1>4. front \in Seq(S) /\ Len(front) = i - 1
  <2>1. i - 1 \in Int /\ 1 \in Int /\ \A k \in 1 .. i - 1 : s[k] \in S
    BY <1>1, <1>3
  <2>2. front \in Seq(S) /\ Len(front) = IF 1 <= i - 1 THEN i - 1 - 1 + 1 ELSE 0
    BY ONLY <2>1, SubSeqProperties
  <2> HIDE DEF front
  <2> QED
    BY ONLY <1>1, <1>3, <2>2
<1>5. rest \in Seq(S) /\ Len(rest) = n - i + 1 /\ rest[1] = s[i]
  <2>1. i \in Int /\ n \in Int /\ \A k \in i .. n : s[k] \in S
    BY <1>1, <1>3
  <2>2. /\ rest \in Seq(S) /\ Len(rest) = IF i <= n THEN n - i + 1 ELSE 0
        /\ \A k \in 1 .. n - i + 1 : rest[k] = s[i + k - 1]
    BY ONLY <2>1, SubSeqProperties
  <2>3. 1 \in 1 .. n - i + 1 /\ i <= n /\ i + 1 - 1 = i
    BY ONLY <1>1, <1>3
  <2> HIDE DEF rest
  <2>4. rest[1] = s[i + 1 - 1]
    BY ONLY <2>2, <2>3
  <2> QED
    BY ONLY <2>2, <2>3, <2>4
<1>6. one \in Seq(S) /\ Len(one) = 1
  <2>1. s[i] \in S
    BY <1>1, <1>3
  <2> QED
    BY ONLY <2>1 DEF one
<1> HIDE DEF front, rest, one
<1>7. half \in Seq(S) /\ Len(half) = Len(front) + Len(one)
  BY ONLY <1>4, <1>6, ConcatProperties
<1>8. Len(half) = i
  BY ONLY <1>1, <1>3, <1>4, <1>6, <1>7
<1> HIDE DEF half
<1>9. /\ moved \in Seq(S) /\ Len(moved) = Len(half) + Len(rest)
      /\ \A k \in 1 .. Len(half) + Len(rest) :
            moved[k] = IF k <= Len(half) THEN half[k] ELSE rest[k - Len(half)]
  <2>1. half \in Seq(S) /\ rest \in Seq(S)
    BY <1>5, <1>7
  <2> QED
    BY ONLY <2>1, ConcatProperties
<1>10. i + 1 \in 1 .. Len(half) + Len(rest) /\ ~(i + 1 <= Len(half)) /\ i + 1 - Len(half) = 1
  BY ONLY <1>1, <1>3, <1>5, <1>8
<1> HIDE DEF moved
<1>11. moved[i + 1] = rest[i + 1 - Len(half)]
  BY ONLY <1>9, <1>10
<1>12. moved[i + 1] = rest[1]
  BY ONLY <1>10, <1>11
<1> QED
  BY ONLY <1>2, <1>5, <1>9, <1>10, <1>12

LEMMA Swapped ==
    ASSUME NEW S, NEW s \in Seq(S), NEW i \in 1 .. Len(s) - 1, NEW moved,
           moved = [s EXCEPT ![i] = s[i + 1], ![i + 1] = s[i]]
    PROVE  moved \in Seq(S) /\ i \in 1 .. Len(moved) /\ moved[i] = s[i + 1]
<1> DEFINE n == Len(s)
           one == s[i]
           other == s[i + 1]
           half == [s EXCEPT ![i] = other]
<1>1. /\ n \in Nat /\ i \in 1 .. n /\ i + 1 \in 1 .. n /\ i + 1 # i
      /\ one \in S /\ other \in S
  BY LenProperties, ElementOfSeq
<1>2. moved = [half EXCEPT ![i + 1] = one]
  OBVIOUS
<1> HIDE DEF one, other
<1>3. half \in Seq(S) /\ Len(half) = n /\ half[i] = other
  BY <1>1
<1> HIDE DEF half
<1> DEFINE j == i + 1
           whole == [half EXCEPT ![j] = one]
<1>4. j \in 1 .. Len(half) /\ i \in 1 .. Len(half) /\ i # j /\ moved = whole
  BY <1>1, <1>2, <1>3
<1> HIDE DEF j, n
<1>5. /\ whole \in Seq(S) /\ Len(whole) = Len(half)
      /\ \A k \in 1 .. Len(half) : whole[k] = IF k = j THEN one ELSE half[k]
  BY ONLY <1>1, <1>3, <1>4, ExceptSeq
<1> HIDE DEF whole
<1>6. moved \in Seq(S) /\ i \in 1 .. Len(moved) /\ moved[i] = other
  BY ONLY <1>3, <1>4, <1>5
<1> QED
  BY <1>6 DEF other

(* A block that is not at its place shows.                                  *)
LEMMA MisplacedShows ==
    ASSUME NEW c, IsChain(c), NEW S, NEW moved \in Seq(S), NEW e, e = [c EXCEPT !.blocks = moved],
           NEW i \in 1 .. Len(moved), moved[i].height # i - 1
    PROVE  ~Linked(e.blocks)
<1>1. c = [blocks |-> c.blocks, pending |-> c.pending, schedule |-> c.schedule,
           retarget |-> c.retarget, maxTx |-> c.maxTx]
  BY DEF IsChain
<1>2. e = [blocks |-> moved, pending |-> c.pending, schedule |-> c.schedule,
           retarget |-> c.retarget, maxTx |-> c.maxTx]
  BY ONLY <1>1, e = [c EXCEPT !.blocks = moved]
<1>3. e.blocks = moved
  BY ONLY <1>2
<1>4. Len(moved) \in Nat
  BY LenProperties
<1> QED
  BY <1>3, <1>4, LinkedHeights

(* A block left out, repeated or swapped is not at its place.               *)
LEMMA MovedBlockShows ==
    ASSUME NEW c, NEW t, ChainOK(c, t)
    PROVE  /\ \A i \in 1 .. Len(c.blocks) - 1 :
                 ~Linked([c EXCEPT !.blocks = RemoveAt(@, i)].blocks)
           /\ \A i \in DOMAIN c.blocks :
                 ~Linked([c EXCEPT !.blocks = InsertAt(@, i, @[i])].blocks)
           /\ \A i \in 1 .. Len(c.blocks) - 1 :
                 ~Linked([c EXCEPT !.blocks[i] = c.blocks[i + 1],
                                   !.blocks[i + 1] = c.blocks[i]].blocks)
<1> DEFINE blocks == c.blocks
           n == Len(blocks)
           S == {blocks[k] : k \in 1 .. n}
<1>1. IsChain(c) /\ IsList(blocks) /\ n \in Nat /\ DOMAIN blocks = 1 .. n
  BY ChainFields
<1>2. \A k \in 1 .. n : blocks[k].height = k - 1
  BY ChainHashes
<1>3. blocks \in Seq(S)
  BY ONLY <1>1, ListIsSeq
<1> HIDE DEF S
<1>4. ASSUME NEW i \in 1 .. n - 1
      PROVE  ~Linked([c EXCEPT !.blocks = RemoveAt(@, i)].blocks)
  <2> DEFINE moved == RemoveAt(blocks, i)
             e == [c EXCEPT !.blocks = moved]
  <2>1. moved \in Seq(S) /\ i \in 1 .. Len(moved) /\ moved[i] = blocks[i + 1]
    BY <1>3, LeftOut
  <2>2. blocks[i + 1].height = i /\ i # i - 1
    BY <1>1, <1>2
  <2> HIDE DEF moved
  <2>3. moved[i].height # i - 1
    BY <2>1, <2>2
  <2>4. ~Linked(e.blocks)
    BY ONLY <1>1, <2>1, <2>3, MisplacedShows
  <2> QED
    BY <2>4 DEF moved
<1>5. ASSUME NEW i \in 1 .. n
      PROVE  ~Linked([c EXCEPT !.blocks = InsertAt(@, i, @[i])].blocks)
  <2> DEFINE moved == InsertAt(blocks, i, blocks[i])
             e == [c EXCEPT !.blocks = moved]
             j == i + 1
  <2>1. moved \in Seq(S) /\ j \in 1 .. Len(moved) /\ moved[j] = blocks[i]
    BY <1>3, Repeated
  <2>2. blocks[i].height = i - 1 /\ i - 1 # j - 1
    BY <1>1, <1>2
  <2> HIDE DEF moved, j
  <2>3. moved[j].height # j - 1
    BY <2>1, <2>2
  <2>4. ~Linked(e.blocks)
    BY ONLY <1>1, <2>1, <2>3, MisplacedShows
  <2> QED
    BY <2>4 DEF moved
<1>6. ASSUME NEW i \in 1 .. n - 1
      PROVE  ~Linked([c EXCEPT !.blocks[i] = c.blocks[i + 1], !.blocks[i + 1] = c.blocks[i]].blocks)
  <2> DEFINE moved == [blocks EXCEPT ![i] = blocks[i + 1], ![i + 1] = blocks[i]]
             e == [c EXCEPT !.blocks = moved]
             edited == [c EXCEPT !.blocks[i] = c.blocks[i + 1], !.blocks[i + 1] = c.blocks[i]]
  <2>1. moved \in Seq(S) /\ i \in 1 .. Len(moved) /\ moved[i] = blocks[i + 1]
    BY ONLY <1>3, i \in 1 .. Len(blocks) - 1, Swapped
  <2>2. blocks[i + 1].height = i /\ i # i - 1
    BY <1>1, <1>2
  <2>3. edited = e
    BY <1>1 DEF IsChain
  <2> HIDE DEF moved, edited
  <2>4. moved[i].height # i - 1
    BY <2>1, <2>2
  <2>5. ~Linked(e.blocks)
    BY ONLY <1>1, <2>1, <2>4, MisplacedShows
  <2> QED
    BY <2>3, <2>5 DEF edited
<1> QED
  BY <1>1, <1>4, <1>5, <1>6

(* The last block and those before it.                                      *)
IsFront(front, blocks, n, S) ==
    /\ IsList(front) /\ Len(front) = n - 1
    /\ \A i \in 1 .. n - 1 : front[i] = blocks[i]
    /\ Transactions(front) \in Seq(S)
    /\ Transactions(blocks) = Transactions(front) \o blocks[n].transactions

LEMMA LastApart ==
    ASSUME NEW S, NEW blocks, IsList(blocks), NEW n \in Nat \ {0}, Len(blocks) = n,
           \A i \in 1 .. n : blocks[i].transactions \in Seq(S)
    PROVE  \E front : IsFront(front, blocks, n, S)
<1> DEFINE front == [i \in 1 .. n - 1 |-> blocks[i]]
           last == blocks[n]
           whole == Append(front, last)
<1>1. n - 1 \in Nat /\ n \in 1 .. n /\ \A i \in 1 .. n - 1 : i \in 1 .. n /\ front[i] = blocks[i]
  OBVIOUS
<1>2. front = [i \in 1 .. n - 1 |-> front[i]]
  OBVIOUS
<1>3. last.transactions \in Seq(S)
  BY <1>1
<1> HIDE DEF front, last
<1>4. Len(front) = n - 1 /\ IsList(front)
  BY ONLY <1>1, <1>2, ListOf
<1>5. /\ IsList(whole) /\ Len(whole) = n
      /\ \A i \in 1 .. n - 1 : whole[i] = front[i]
      /\ whole[n] = last
  <2>1. /\ IsList(whole) /\ Len(whole) = Len(front) + 1
        /\ \A i \in 1 .. Len(front) : whole[i] = front[i]
        /\ whole[Len(front) + 1] = last
    BY ONLY <1>4, ListAppend
  <2> HIDE DEF whole
  <2>2. Len(front) + 1 = n
    BY ONLY <1>1, <1>4, n \in Nat
  <2> QED
    BY ONLY <1>4, <2>1, <2>2
<1>6. whole = blocks
  <2> HIDE DEF whole
  <2>1. \A i \in 1 .. n : whole[i] = blocks[i]
    BY <1>1, <1>5 DEF last
  <2>2. whole = [i \in 1 .. n |-> whole[i]] /\ blocks = [i \in 1 .. n |-> blocks[i]]
    BY <1>5 DEF IsList
  <2> QED
    BY ONLY <2>1, <2>2
<1>7. Transactions(blocks) = Transactions(front) \o last.transactions
  BY ONLY <1>3, <1>4, <1>6, TransactionsAppend
<1>8. Transactions(front) \in Seq(S)
  <2>1. \A i \in 1 .. Len(front) : front[i].transactions \in Seq(S)
    BY <1>1, <1>4
  <2> QED
    BY ONLY <1>4, <2>1, TransactionsTyped
<1>9. IsFront(front, blocks, n, S)
  BY <1>1, <1>4, <1>7, <1>8 DEF last, IsFront
<1> QED
  BY <1>9

(* A block's transactions are a stretch of those of the chain.              *)
Stretch(s, i, at) ==
    \A k \in 1 .. Len(s[i].transactions) :
        /\ at + k \in 1 .. Len(Transactions(s))
        /\ Transactions(s)[at + k] = s[i].transactions[k]

LEMMA StretchGrows ==
    ASSUME NEW S, NEW s, IsList(s), NEW m \in Nat, Len(s) = m + 1,
           \A j \in 1 .. m + 1 : s[j].transactions \in Seq(S),
           \A t : /\ IsList(t) /\ Len(t) = m
                  /\ \A j \in 1 .. m : t[j].transactions \in Seq(S)
                  => \A i \in 1 .. m : \E at \in Nat : Stretch(t, i, at),
           NEW i \in 1 .. m + 1
    PROVE  \E at \in Nat : Stretch(s, i, at)
<1> DEFINE n == m + 1
           last == s[n].transactions
<1>1. n \in Nat \ {0} /\ n - 1 = m /\ n \in 1 .. m + 1
  OBVIOUS
<1>2. \A j \in 1 .. n : s[j].transactions \in Seq(S)
  OBVIOUS
<1>3. Len(s) = n
  OBVIOUS
<1> HIDE DEF n
<1>4. PICK front : /\ IsList(front) /\ Len(front) = n - 1
                   /\ \A j \in 1 .. n - 1 : front[j] = s[j]
                   /\ Transactions(front) \in Seq(S)
                   /\ Transactions(s) = Transactions(front) \o s[n].transactions
  <2>1. \E front : IsFront(front, s, n, S)
    BY ONLY <1>1, <1>2, <1>3, IsList(s), LastApart
  <2> QED
    BY <2>1 DEF IsFront
<1>5. last \in Seq(S)
  BY <1>1, <1>2 DEF n
<1> DEFINE before == Transactions(front)
           all == before \o last
<1>6. before \in Seq(S) /\ Transactions(s) = all
  BY <1>4
<1> HIDE DEF before, last
<1>7. /\ Len(before) \in Nat /\ Len(last) \in Nat
      /\ all \in Seq(S) /\ Len(all) = Len(before) + Len(last)
      /\ \A k \in 1 .. Len(before) + Len(last) :
            all[k] = IF k <= Len(before) THEN before[k] ELSE last[k - Len(before)]
  BY ONLY <1>5, <1>6, ConcatProperties, LenProperties
<1> HIDE DEF all
<1>8. CASE i = n
  <2>1. ASSUME NEW k \in 1 .. Len(last)
        PROVE  Len(before) + k \in 1 .. Len(all) /\ all[Len(before) + k] = last[k]
    <3> DEFINE p == Len(before) + k
    <3>1. p \in 1 .. Len(before) + Len(last) /\ ~(p <= Len(before)) /\ p - Len(before) = k
      BY ONLY <1>7, k \in 1 .. Len(last)
    <3> HIDE DEF p
    <3> QED
      BY <1>7, <3>1 DEF p
  <2>2. Stretch(s, i, Len(before))
    BY <1>6, <1>8, <2>1 DEF Stretch, last
  <2> QED
    BY <1>7, <2>2
<1>9. CASE i # n
  <2>1. i \in 1 .. m /\ m = n - 1
    BY <1>1, <1>9 DEF n
  <2>2. front[i] = s[i]
    BY <1>4, <2>1
  <2>3. \A j \in 1 .. m : front[j].transactions \in Seq(S)
    <3>1. ASSUME NEW j \in 1 .. m PROVE front[j].transactions \in Seq(S)
      <4>1. front[j] = s[j] /\ j \in 1 .. n
        BY <1>1, <1>4
      <4> QED
        BY <1>2, <4>1
    <3> QED
      BY <3>1
  <2>4. PICK at \in Nat : Stretch(front, i, at)
    BY <1>4, <2>1, <2>3
  <2>5. ASSUME NEW k \in 1 .. Len(s[i].transactions)
        PROVE  at + k \in 1 .. Len(all) /\ all[at + k] = s[i].transactions[k]
    <3> DEFINE p == at + k
    <3>1. p \in 1 .. Len(before) /\ before[p] = s[i].transactions[k]
      BY <2>2, <2>4 DEF Stretch, before
    <3> HIDE DEF p
    <3>2. p \in 1 .. Len(before) + Len(last) /\ p <= Len(before)
      BY ONLY <1>7, <3>1
    <3> QED
      BY <1>7, <3>1, <3>2 DEF p
  <2>6. Stretch(s, i, at)
    BY <1>6, <2>5 DEF Stretch
  <2> QED
    BY <2>6
<1> QED
  BY <1>8, <1>9

LEMMA BlockIsStretch ==
    ASSUME NEW S, NEW n \in Nat, NEW blocks, IsList(blocks), Len(blocks) = n,
           \A j \in 1 .. n : blocks[j].transactions \in Seq(S), NEW i \in 1 .. n
    PROVE  \E at \in Nat : Stretch(blocks, i, at)
<1> DEFINE Good(m) == \A t : /\ IsList(t) /\ Len(t) = m
                             /\ \A j \in 1 .. m : t[j].transactions \in Seq(S)
                             => \A h \in 1 .. m : \E at \in Nat : Stretch(t, h, at)
           Lengths == {m \in Nat : Good(m)}
<1>1. 0 \in Lengths
  OBVIOUS
<1>2. ASSUME NEW m \in Nat, m \in Lengths PROVE m + 1 \in Lengths
  <2>1. Good(m)
    BY <1>2
  <2>2. ASSUME NEW t, IsList(t), Len(t) = m + 1,
               \A j \in 1 .. m + 1 : t[j].transactions \in Seq(S), NEW h \in 1 .. m + 1
        PROVE  \E at \in Nat : Stretch(t, h, at)
    BY ONLY <2>1, <2>2, m \in Nat, StretchGrows
  <2>3. Good(m + 1)
    BY <2>2
  <2> QED
    BY <2>3
<1>3. n \in Lengths
  <2> HIDE DEF Lengths
  <2> QED
    BY <1>1, <1>2, R!Induction
<1>4. Good(n)
  BY <1>3
<1> QED
  BY <1>4

(* What a chain that replays says of the transactions of a block.           *)
LEMMA ReplayedBlock ==
    ASSUME NEW n \in Nat, NEW blocks, IsList(blocks), Len(blocks) = n,
           \A j \in 1 .. n : blocks[j].transactions \in Seq(Tx), NEW i \in 1 .. n,
           Rebuild(blocks) # Rejected,
           NEW txs, txs = blocks[i].transactions
    PROVE  /\ \A k \in 1 .. Len(txs) : ValidTransaction(txs[k])
           /\ \A j, k \in 1 .. Len(txs) :
                 j < k /\ txs[j].sender = txs[k].sender /\ txs[j].sender # Faucet =>
                     txs[j].nonce < txs[k].nonce
<1> DEFINE all == Transactions(blocks)
<1>1. all \in Seq(Tx)
  BY TransactionsTyped
<1>2. Replay(NewLedger, all) # Rejected
  BY DEF Rebuild
<1>3. PICK at \in Nat : Stretch(blocks, i, at)
  BY BlockIsStretch
<1>4. txs \in Seq(Tx)
  OBVIOUS
<1> HIDE DEF all
<1>5. DOMAIN all = 1 .. Len(all) /\ \A k \in DOMAIN all : IsSent(all[k])
  <2>1. DOMAIN all = 1 .. Len(all) /\ \A k \in 1 .. Len(all) : all[k] \in Tx
    BY ONLY <1>1, LenProperties, ElementOfSeq
  <2> QED
    BY <2>1 DEF Tx, Names, IsSent
<1>6. \A k \in 1 .. Len(txs) : at + k \in DOMAIN all /\ all[at + k] = txs[k]
  BY <1>3, <1>5 DEF Stretch, all
<1>7. ASSUME NEW k \in 1 .. Len(txs) PROVE ValidTransaction(txs[k])
  <2>1. ValidTransaction(all[at + k])
    BY ONLY <1>1, <1>2, <1>6, k \in 1 .. Len(txs), ReplayedIsValid
  <2> QED
    BY <1>6, <2>1
<1>8. ASSUME NEW j \in 1 .. Len(txs), NEW k \in 1 .. Len(txs), j < k,
             txs[j].sender = txs[k].sender, txs[j].sender # Faucet
      PROVE  txs[j].nonce < txs[k].nonce
  <2> DEFINE p == at + j
             q == at + k
  <2>1. p \in DOMAIN all /\ q \in DOMAIN all /\ all[p] = txs[j] /\ all[q] = txs[k]
    BY <1>6
  <2>2. p < q
    <3>1. Len(txs) \in Nat
      BY <1>4, LenProperties
    <3> QED
      BY <1>8, <3>1
  <2> HIDE DEF p, q
  <2>3. all[p].nonce < all[q].nonce
    BY ONLY <1>1, <1>2, <1>5, <1>8, <2>1, <2>2, NoncesIncrease
  <2> QED
    BY <2>1, <2>3
<1> QED
  BY <1>7, <1>8

(* Transactions that are accepted and have the same text are of one sender. *)
LEMMA TextTellsSender ==
    ASSUME NEW tx \in Tx, NEW other \in Tx, ValidTransaction(tx), ValidTransaction(other),
           TransactionText(tx) = TransactionText(other)
    PROVE  tx.sender = other.sender /\ tx.nonce = other.nonce
<1>1. /\ NameText(tx.sender) = NameText(other.sender)
      /\ tx.nonce = other.nonce /\ tx.signature = other.signature
  <2>1. /\ TransactionText(tx).sender = NameText(tx.sender)
        /\ TransactionText(tx).nonce = tx.nonce /\ TransactionText(tx).signature = tx.signature
    BY TransactionTextFields
  <2>2. /\ TransactionText(other).sender = NameText(other.sender)
        /\ TransactionText(other).nonce = other.nonce
        /\ TransactionText(other).signature = other.signature
    BY TransactionTextFields
  <2> QED
    BY <2>1, <2>2
<1>2. NameText(Faucet) = Faucet /\ \A name \in Names : NameText(name) = Faucet => name = Faucet
  <2>1. NameText(Faucet) = Faucet
    BY ReadBackAssumption DEF NameText
  <2> QED
    BY <2>1, FaucetAssumption, EscapeAssumption DEF NameText
<1>3. tx.sender \in Names /\ other.sender \in Names
  BY DEF Tx
<1>4. CASE tx.sender = Faucet \/ other.sender = Faucet
  BY <1>1, <1>2, <1>3, <1>4
<1>5. CASE tx.sender # Faucet /\ other.sender # Faucet
  <2>1. tx.signature.key = tx.sender /\ other.signature.key = other.sender
    BY <1>5 DEF ValidTransaction, SignatureOK
  <2> QED
    BY <1>1, <2>1
<1> QED
  BY <1>1, <1>4, <1>5

(* A signed payment that is accepted has the text that its signature had in *)
(* any other one.                                                           *)
LEMMA SignatureTellsText ==
    ASSUME NEW tx \in Tx, NEW other \in Tx, ValidTransaction(tx), ValidTransaction(other),
           tx.sender # Faucet, tx.signature = other.signature
    PROVE  TransactionText(tx) = TransactionText(other)
<1>1. SignatureOK(tx) /\ SignatureOK(other)
  BY DEF ValidTransaction
<1>2. tx.signature # Unsigned /\ tx.signature.text = SigningText(tx)
  BY <1>1 DEF SignatureOK
<1>3. other.signature.text = SigningText(other)
  BY <1>1, <1>2 DEF SignatureOK
<1>4. <<NameText(tx.sender), NameText(tx.recipient), tx.amount, tx.nonce>>
        = <<NameText(other.sender), NameText(other.recipient), other.amount, other.nonce>>
  BY <1>2, <1>3 DEF SigningText
<1>5. /\ NameText(tx.sender) = NameText(other.sender)
      /\ NameText(tx.recipient) = NameText(other.recipient)
      /\ tx.amount = other.amount /\ tx.nonce = other.nonce
  BY ONLY <1>4
<1> QED
  BY <1>5, TransactionTextFields

(* Under one root a list only repeats grants.                               *)
LEMMA RootRepeats ==
    ASSUME NEW s \in Seq(Tx), NEW u \in Seq(Tx), MerkleRoot(s) = MerkleRoot(u),
           \A k \in 1 .. Len(s) : ValidTransaction(s[k]),
           \A j, k \in 1 .. Len(s) :
              j < k /\ s[j].sender = s[k].sender /\ s[j].sender # Faucet => s[j].nonce < s[k].nonce
    PROVE  Repeats(s, u)
<1>1. /\ Texts(s) \in Seq(TxTexts) /\ Len(Texts(s)) = Len(s)
      /\ \A k \in 1 .. Len(s) : Texts(s)[k] = TransactionText(s[k])
      /\ Texts(u) \in Seq(TxTexts) /\ Len(Texts(u)) = Len(u)
      /\ \A k \in 1 .. Len(u) : Texts(u)[k] = TransactionText(u[k])
  BY TextsTyped
<1>2. Agree(Texts(s), Texts(u))
  <2>1. CalculateMerkleRoot(Texts(s)) = CalculateMerkleRoot(Texts(u))
    BY DEF MerkleRoot
  <2> QED
    BY ONLY <1>1, <2>1, RootsAgree
<1>3. /\ Len(s) \in Nat /\ DOMAIN s = 1 .. Len(s) /\ \A k \in 1 .. Len(s) : s[k] \in Tx
      /\ Len(u) \in Nat /\ DOMAIN u = 1 .. Len(u)
  BY LenProperties, ElementOfSeq
<1>4. /\ \A k \in 1 .. Len(s) : k <= Len(u) => TransactionText(s[k]) = TransactionText(u[k])
      /\ \A k \in 1 .. Len(s) : \E j \in 1 .. Len(u) : TransactionText(s[k]) = TransactionText(u[j])
  <2>1. ASSUME NEW k \in 1 .. Len(s), k <= Len(u)
        PROVE  TransactionText(s[k]) = TransactionText(u[k])
    <3>1. k \in 1 .. Len(u)
      BY <1>3, <2>1
    <3>2. Texts(s)[k] = Texts(u)[k]
      BY <1>1, <1>2, <2>1 DEF Agree
    <3> QED
      BY <1>1, <3>1, <3>2
  <2>2. ASSUME NEW k \in 1 .. Len(s)
        PROVE  \E j \in 1 .. Len(u) : TransactionText(s[k]) = TransactionText(u[j])
    <3>1. PICK j \in 1 .. Len(u) : Texts(s)[k] = Texts(u)[j]
      BY <1>1, <1>2 DEF Agree
    <3> QED
      BY <1>1, <3>1
  <2> QED
    BY <2>1, <2>2
<1>5. ASSUME NEW k \in 1 .. Len(s), ~(k <= Len(u))
      PROVE  s[k].sender = Faucet
  <2>1. PICK j \in 1 .. Len(u) : TransactionText(s[k]) = TransactionText(u[j])
    BY <1>4
  <2>2. j \in 1 .. Len(s) /\ j < k /\ j <= Len(u)
    BY <1>3, <1>5
  <2>3. TransactionText(s[j]) = TransactionText(s[k])
    BY <1>4, <2>1, <2>2
  <2>4. s[j].sender = s[k].sender /\ s[j].nonce = s[k].nonce
    BY <1>3, <2>2, <2>3, TextTellsSender
  <2>5. s[k].nonce \in Nat
    BY <1>3 DEF Tx
  <2> QED
    BY <2>2, <2>4, <2>5
<1> QED
  BY <1>3, <1>4, <1>5 DEF Repeats


(* A mistake in a list is a list of the same kind of transactions.          *)
LEMMA ListEditsTyped ==
    ASSUME NEW S, \A tx \in S : TxEdits(tx) \subseteq S, NEW txs \in Seq(S),
           NEW edited \in ListEdits(txs)
    PROVE  edited \in Seq(S)
<1> DEFINE n == Len(txs)
<1>1. n \in Nat /\ DOMAIN txs = 1 .. n /\ \A k \in 1 .. n : txs[k] \in S
  BY LenProperties, ElementOfSeq
<1>2. ASSUME NEW k \in 1 .. n, NEW tx \in TxEdits(txs[k])
      PROVE  [txs EXCEPT ![k] = tx] \in Seq(S)
  <2>1. tx \in S
    BY <1>1
  <2> QED
    BY ONLY <2>1, k \in 1 .. Len(txs), txs \in Seq(S), ExceptSeq
<1>3. ASSUME NEW k \in 1 .. n PROVE RemoveAt(txs, k) \in Seq(S)
  <2> DEFINE front == SubSeq(txs, 1, k - 1)
             rest == SubSeq(txs, k + 1, n)
  <2>1. front \in Seq(S)
    <3>1. k - 1 \in Int /\ 1 \in Int /\ \A j \in 1 .. k - 1 : txs[j] \in S
      BY <1>1
    <3> QED
      BY ONLY <3>1, SubSeqProperties
  <2>2. rest \in Seq(S)
    <3>1. k + 1 \in Int /\ n \in Int /\ \A j \in k + 1 .. n : txs[j] \in S
      BY <1>1
    <3> HIDE DEF n
    <3> QED
      BY ONLY <3>1, SubSeqProperties
  <2>3. RemoveAt(txs, k) = front \o rest
    BY DEF RemoveAt
  <2> HIDE DEF front, rest
  <2> QED
    BY ONLY <2>1, <2>2, <2>3, ConcatProperties
<1>4. ASSUME NEW k \in 1 .. n PROVE Append(txs, txs[k]) \in Seq(S)
  <2>1. txs[k] \in S
    BY <1>1
  <2> QED
    BY <2>1
<1>5. ASSUME NEW k \in 1 .. n - 1
      PROVE  [txs EXCEPT ![k] = txs[k + 1], ![k + 1] = txs[k]] \in Seq(S)
  BY ONLY txs \in Seq(S), k \in 1 .. Len(txs) - 1, Swapped
<1>6. \/ \E k \in 1 .. n : \E tx \in TxEdits(txs[k]) : edited = [txs EXCEPT ![k] = tx]
      \/ \E k \in 1 .. n : edited = RemoveAt(txs, k)
      \/ \E k \in 1 .. n : edited = Append(txs, txs[k])
      \/ \E k \in 1 .. n - 1 : edited = [txs EXCEPT ![k] = txs[k + 1], ![k + 1] = txs[k]]
  <2> DEFINE changed == UNION {{[txs EXCEPT ![k] = tx] : tx \in TxEdits(txs[k])} : k \in DOMAIN txs}
             shorter == {RemoveAt(txs, k) : k \in DOMAIN txs}
             longer == {Append(txs, txs[k]) : k \in DOMAIN txs}
             swapped == {[txs EXCEPT ![k] = txs[k + 1], ![k + 1] = txs[k]] : k \in 1 .. Len(txs) - 1}
  <2>1. edited \in changed \cup shorter \cup longer \cup swapped
    BY Zenon DEF ListEdits
  <2>2. edited \in changed => \E k \in 1 .. n : \E tx \in TxEdits(txs[k]) : edited = [txs EXCEPT ![k] = tx]
    BY <1>1, Zenon
  <2>3. edited \in shorter => \E k \in 1 .. n : edited = RemoveAt(txs, k)
    BY <1>1, Zenon
  <2>4. edited \in longer => \E k \in 1 .. n : edited = Append(txs, txs[k])
    BY <1>1, Zenon
  <2>5. edited \in swapped =>
          \E k \in 1 .. n - 1 : edited = [txs EXCEPT ![k] = txs[k + 1], ![k + 1] = txs[k]]
    BY Zenon
  <2> QED
    BY ONLY <2>1, <2>2, <2>3, <2>4, <2>5, Zenon
<1> QED
  BY <1>2, <1>3, <1>4, <1>5, <1>6

(* Transactions whose signature is one of a list, or none.                  *)
SignedIn(txs) ==
    {tx \in Tx : tx.signature = Unsigned \/ \E j \in DOMAIN txs : tx.signature = txs[j].signature}

LEMMA TxEditsTyped ==
    ASSUME NEW txs, NEW tx \in SignedIn(txs)
    PROVE  TxEdits(tx) \subseteq SignedIn(txs)
<1>1. /\ tx = [sender |-> tx.sender, recipient |-> tx.recipient, amount |-> tx.amount,
               nonce |-> tx.nonce, signature |-> tx.signature]
      /\ tx.sender \in Names /\ tx.recipient \in Names
      /\ tx.amount \in Int /\ tx.nonce \in Nat /\ tx.signature \in Signatures
      /\ tx.signature = Unsigned \/ \E j \in DOMAIN txs : tx.signature = txs[j].signature
  BY DEF SignedIn, Tx
<1>2. Faucet \in Names /\ Unsigned \in Signatures
  BY FaucetAssumption DEF Names, Signatures
<1>3. ASSUME NEW sender \in Names, NEW recipient \in Names, NEW amount \in Int, NEW nonce \in Nat,
             NEW signature \in Signatures, signature \in {tx.signature, Unsigned}
      PROVE  [sender |-> sender, recipient |-> recipient, amount |-> amount,
              nonce |-> nonce, signature |-> signature] \in SignedIn(txs)
  <2> DEFINE other == [sender |-> sender, recipient |-> recipient, amount |-> amount,
                       nonce |-> nonce, signature |-> signature]
  <2>1. other \in Tx /\ other.signature = signature
    BY DEF Tx
  <2> HIDE DEF other
  <2> QED
    BY <1>1, <1>3, <2>1 DEF SignedIn, other
<1>4. [tx EXCEPT !.sender = Faucet] \in SignedIn(txs)
  <2>1. [tx EXCEPT !.sender = Faucet] =
          [sender |-> Faucet, recipient |-> tx.recipient, amount |-> tx.amount,
           nonce |-> tx.nonce, signature |-> tx.signature]
    BY ONLY <1>1
  <2> QED
    BY <1>1, <1>2, <1>3, <2>1
<1>5. [tx EXCEPT !.recipient = Faucet] \in SignedIn(txs)
  <2>1. [tx EXCEPT !.recipient = Faucet] =
          [sender |-> tx.sender, recipient |-> Faucet, amount |-> tx.amount,
           nonce |-> tx.nonce, signature |-> tx.signature]
    BY ONLY <1>1
  <2> QED
    BY <1>1, <1>2, <1>3, <2>1
<1>6. [tx EXCEPT !.amount = @ + 1] \in SignedIn(txs)
  <2>1. [tx EXCEPT !.amount = @ + 1] =
          [sender |-> tx.sender, recipient |-> tx.recipient, amount |-> tx.amount + 1,
           nonce |-> tx.nonce, signature |-> tx.signature]
    BY ONLY <1>1
  <2>2. tx.amount + 1 \in Int
    BY <1>1
  <2> QED
    BY <1>1, <1>2, <1>3, <2>1, <2>2
<1>7. [tx EXCEPT !.nonce = @ + 1] \in SignedIn(txs)
  <2>1. [tx EXCEPT !.nonce = @ + 1] =
          [sender |-> tx.sender, recipient |-> tx.recipient, amount |-> tx.amount,
           nonce |-> tx.nonce + 1, signature |-> tx.signature]
    BY ONLY <1>1
  <2>2. tx.nonce + 1 \in Nat
    BY <1>1
  <2> QED
    BY <1>1, <1>2, <1>3, <2>1, <2>2
<1>8. [tx EXCEPT !.signature = Unsigned] \in SignedIn(txs)
  <2>1. [tx EXCEPT !.signature = Unsigned] =
          [sender |-> tx.sender, recipient |-> tx.recipient, amount |-> tx.amount,
           nonce |-> tx.nonce, signature |-> Unsigned]
    BY ONLY <1>1
  <2> QED
    BY <1>1, <1>2, <1>3, <2>1
<1> QED
  BY <1>4, <1>5, <1>6, <1>7, <1>8 DEF TxEdits

LEMMA ListIsSignedIn ==
    ASSUME NEW txs \in Seq(Tx)
    PROVE  txs \in Seq(SignedIn(txs))
<1>1. Len(txs) \in Nat /\ DOMAIN txs = 1 .. Len(txs) /\ \A k \in 1 .. Len(txs) : txs[k] \in Tx
  BY LenProperties, ElementOfSeq
<1>2. \A k \in 1 .. Len(txs) : txs[k] \in SignedIn(txs)
  BY <1>1 DEF SignedIn
<1>3. {txs[k] : k \in 1 .. Len(txs)} \subseteq SignedIn(txs)
  BY <1>2
<1>4. IsList(txs)
  BY SeqIsList
<1>5. txs \in Seq({txs[k] : k \in 1 .. Len(txs)})
  BY <1>4, ListIsSeq
<1> DEFINE S == {txs[k] : k \in 1 .. Len(txs)}
<1> HIDE DEF S
<1>6. txs \in Seq(S) /\ S \subseteq SignedIn(txs)
  BY <1>3, <1>5 DEF S
<1> QED
  BY ONLY <1>6, SeqMonotonic

(* A mistake in a block changes its hash and nothing else, or leaves the    *)
(* hash; its transactions are signed as before, or not at all.              *)
LEMMA BlockEditsTyped ==
    ASSUME NEW o, IsBlock(o), o.transactions \in Seq(Tx), o.hash = ComputeHash(o),
           NEW b \in BlockEdits(o)
    PROVE  /\ IsBlock(b)
           /\ b.transactions \in Seq(Tx) /\ b.transactions \in Seq(SignedIn(o.transactions))
           /\ b.hash = o.hash \/ ComputeHash(b) = o.hash
<1> DEFINE Own == SignedIn(o.transactions)
<1>1. /\ o = [height |-> o.height, time |-> o.time, transactions |-> o.transactions,
              root |-> o.root, prev |-> o.prev, difficulty |-> o.difficulty,
              nonce |-> o.nonce, hash |-> o.hash]
      /\ o.transactions \in Seq(Own)
  BY ListIsSignedIn DEF IsBlock
<1>2. Own \subseteq Tx
  BY DEF SignedIn
<1>3. ASSUME NEW height, NEW time, NEW txs \in Seq(Own), NEW root, NEW prev, NEW difficulty,
             NEW nonce, NEW hash,
             b = [height |-> height, time |-> time, transactions |-> txs, root |-> root,
                  prev |-> prev, difficulty |-> difficulty, nonce |-> nonce, hash |-> hash]
      PROVE  /\ IsBlock(b) /\ b.transactions \in Seq(Tx) /\ b.transactions \in Seq(Own)
             /\ b.hash = hash
  <2>1. IsBlock(b) /\ b.transactions = txs /\ b.hash = hash
    BY ONLY <1>3 DEF IsBlock
  <2> HIDE DEF Own
  <2>2. txs \in Seq(Tx)
    BY ONLY <1>2, txs \in Seq(Own), SeqMonotonic
  <2> QED
    BY <2>1, <2>2, txs \in Seq(Own)
<1>4. CASE b \in {[o EXCEPT !.height = @ + 1], [o EXCEPT !.time = @ - 1],
                  [o EXCEPT !.difficulty = @ + 1], [o EXCEPT !.nonce = @ + 1]}
  <2> HIDE DEF Own
  <2>1. PICK height, time, difficulty, nonce :
           b = [height |-> height, time |-> time, transactions |-> o.transactions, root |-> o.root,
                prev |-> o.prev, difficulty |-> difficulty, nonce |-> nonce, hash |-> o.hash]
    BY ONLY <1>1, <1>4
  <2>2. o.transactions \in Seq(Own)
    BY <1>1
  <2> QED
    BY ONLY <1>3, <2>1, <2>2, Zenon DEF Own
<1>5. CASE b \in {[o EXCEPT !.prev = o.hash], [o EXCEPT !.root = HashPair(@, @)]}
  <2> HIDE DEF Own
  <2>1. PICK prev, root :
           b = [height |-> o.height, time |-> o.time, transactions |-> o.transactions, root |-> root,
                prev |-> prev, difficulty |-> o.difficulty, nonce |-> o.nonce, hash |-> o.hash]
    BY ONLY <1>1, <1>5
  <2>2. o.transactions \in Seq(Own)
    BY <1>1
  <2> QED
    BY ONLY <1>3, <2>1, <2>2, Zenon DEF Own
<1>6. CASE b = [o EXCEPT !.hash = o.prev]
  <2> HIDE DEF Own
  <2>1. b = [height |-> o.height, time |-> o.time, transactions |-> o.transactions, root |-> o.root,
             prev |-> o.prev, difficulty |-> o.difficulty, nonce |-> o.nonce, hash |-> o.prev]
    BY ONLY <1>1, <1>6
  <2>2. /\ b.height = o.height /\ b.time = o.time /\ b.root = o.root /\ b.prev = o.prev
        /\ b.nonce = o.nonce /\ b.difficulty = o.difficulty
    BY ONLY <2>1
  <2>3. ComputeHash(b) = o.hash
    BY <2>2 DEF ComputeHash
  <2>4. o.transactions \in Seq(Own)
    BY <1>1
  <2> QED
    BY ONLY <1>3, <2>1, <2>3, <2>4, Zenon DEF Own
<1>7. ASSUME NEW txs \in ListEdits(o.transactions), b = [o EXCEPT !.transactions = txs]
      PROVE  /\ IsBlock(b) /\ b.transactions \in Seq(Tx) /\ b.transactions \in Seq(Own)
             /\ b.hash = o.hash
  <2>1. \A tx \in Own : TxEdits(tx) \subseteq Own
    BY TxEditsTyped
  <2> HIDE DEF Own
  <2>2. txs \in Seq(Own)
    BY <1>1, <2>1, ListEditsTyped
  <2>3. b = [height |-> o.height, time |-> o.time, transactions |-> txs, root |-> o.root,
             prev |-> o.prev, difficulty |-> o.difficulty, nonce |-> o.nonce, hash |-> o.hash]
    BY ONLY <1>1, <1>7
  <2> QED
    BY <1>3, <2>2, <2>3
<1>8. \/ b \in {[o EXCEPT !.height = @ + 1], [o EXCEPT !.time = @ - 1],
                [o EXCEPT !.difficulty = @ + 1], [o EXCEPT !.nonce = @ + 1]}
      \/ b = [o EXCEPT !.hash = o.prev]
      \/ b \in {[o EXCEPT !.prev = o.hash], [o EXCEPT !.root = HashPair(@, @)]}
      \/ \E txs \in ListEdits(o.transactions) : b = [o EXCEPT !.transactions = txs]
  BY Zenon DEF BlockEdits
<1> QED
  BY <1>4, <1>5, <1>6, <1>7, <1>8

(* A block sealed anew.                                                     *)
LEMMA ResealedFields ==
    ASSUME NEW b, IsBlock(b)
    PROVE  /\ IsBlock(Resealed(b)) /\ Resealed(b).transactions = b.transactions
           /\ Resealed(b).height = b.height /\ Resealed(b).prev = b.prev
           /\ Resealed(b).difficulty = b.difficulty
<1> DEFINE root == MerkleRoot(b.transactions)
           half == [b EXCEPT !.root = root]
           hash == ComputeHash(half)
           r == Resealed(b)
<1>1. b = [height |-> b.height, time |-> b.time, transactions |-> b.transactions,
           root |-> b.root, prev |-> b.prev, difficulty |-> b.difficulty,
           nonce |-> b.nonce, hash |-> b.hash]
  BY DEF IsBlock
<1>2. r = [half EXCEPT !.hash = hash]
  BY DEF Resealed, Sealed
<1> HIDE DEF hash, r, root
<1>3. half = [height |-> b.height, time |-> b.time, transactions |-> b.transactions,
              root |-> root, prev |-> b.prev, difficulty |-> b.difficulty,
              nonce |-> b.nonce, hash |-> b.hash]
  BY ONLY <1>1
<1> HIDE DEF half
<1>4. r = [height |-> b.height, time |-> b.time, transactions |-> b.transactions,
           root |-> root, prev |-> b.prev, difficulty |-> b.difficulty,
           nonce |-> b.nonce, hash |-> hash]
  BY ONLY <1>2, <1>3
<1>5. IsBlock(r) /\ r.transactions = b.transactions /\ r.height = b.height /\ r.prev = b.prev
      /\ r.difficulty = b.difficulty
  BY ONLY <1>4 DEF IsBlock
<1> QED
  BY <1>5 DEF r

(* What Validate finds where one block is replaced.                         *)
LEMMA ReplacedBlock ==
    ASSUME NEW c, NEW t, ChainOK(c, t), NEW i \in 1 .. Len(c.blocks), NEW b,
           b.transactions \in Seq(Tx), Valid(WithBlock(c, i, b))
    PROVE  /\ Intact(b)
           /\ i < Len(c.blocks) => b.hash = c.blocks[i].hash
           /\ IF i = 1 THEN ValidGenesis(b) ELSE Follows(b, c.blocks[i - 1])
           /\ \A k \in 1 .. Len(b.transactions) : ValidTransaction(b.transactions[k])
           /\ \A j, k \in 1 .. Len(b.transactions) :
                 /\ j < k /\ b.transactions[j].sender = b.transactions[k].sender
                 /\ b.transactions[j].sender # Faucet
                 => b.transactions[j].nonce < b.transactions[k].nonce
<1> DEFINE e == WithBlock(c, i, b)
           n == Len(c.blocks)
           txs == b.transactions
<1>1. /\ IsChain(c) /\ IsList(c.blocks) /\ n \in Nat \ {0}
      /\ \A j \in 1 .. n : c.blocks[j].transactions \in Seq(Tx)
  BY ChainFields DEF ChainOK, Holds
<1>2. /\ DOMAIN e.blocks = 1 .. n /\ IsList(e.blocks) /\ Len(e.blocks) = n /\ e.blocks[i] = b
      /\ \A k \in 1 .. n : k # i => e.blocks[k] = c.blocks[k]
  BY <1>1, BlockReplaced
<1>3. Valid(e)
  OBVIOUS
<1> HIDE DEF e
<1>4. /\ \A k \in 1 .. n : Intact(e.blocks[k])
      /\ Linked(e.blocks) /\ Rebuild(e.blocks) # Rejected
  BY <1>2, <1>3 DEF Valid
<1>5. Intact(b)
  BY <1>2, <1>4
<1>6. i < n => b.hash = c.blocks[i].hash
  <2> SUFFICES ASSUME i < n PROVE b.hash = c.blocks[i].hash
    OBVIOUS
  <2> DEFINE j == i + 1
  <2>1. j \in 2 .. Len(e.blocks) /\ j \in 1 .. n /\ j # i /\ j - 1 = i /\ j > 1
    BY <1>1, <1>2
  <2>2. Follows(e.blocks[j], e.blocks[j - 1])
    BY <1>4, <2>1 DEF Linked
  <2>3. e.blocks[j] = c.blocks[j] /\ e.blocks[j - 1] = b
    BY <1>2, <2>1
  <2>4. c.blocks[j].prev = b.hash
    BY <2>2, <2>3 DEF Follows
  <2> HIDE DEF j
  <2>5. c.blocks[j].prev = c.blocks[j - 1].hash
    BY <2>1, ChainHashes
  <2> QED
    BY <2>1, <2>4, <2>5
<1>7. IF i = 1 THEN ValidGenesis(b) ELSE Follows(b, c.blocks[i - 1])
  <2>1. CASE i = 1
    BY <1>2, <1>4, <2>1 DEF Linked
  <2>2. CASE i # 1
    <3>1. i \in 2 .. Len(e.blocks) /\ i - 1 \in 1 .. n /\ i - 1 # i
      BY <1>1, <1>2, <2>2
    <3>2. Follows(e.blocks[i], e.blocks[i - 1])
      BY <1>4, <3>1 DEF Linked
    <3> QED
      BY <1>2, <2>2, <3>1, <3>2
  <2> QED
    BY <2>1, <2>2
<1>8. ASSUME NEW j \in 1 .. n PROVE e.blocks[j].transactions \in Seq(Tx)
  BY <1>1, <1>2
<1>9. /\ \A k \in 1 .. Len(txs) : ValidTransaction(txs[k])
      /\ \A j, k \in 1 .. Len(txs) :
            j < k /\ txs[j].sender = txs[k].sender /\ txs[j].sender # Faucet =>
                txs[j].nonce < txs[k].nonce
  <2> DEFINE blocks == e.blocks
  <2>1. /\ n \in Nat /\ IsList(blocks) /\ Len(blocks) = n /\ i \in 1 .. n
        /\ \A j \in 1 .. n : blocks[j].transactions \in Seq(Tx)
        /\ Rebuild(blocks) # Rejected /\ txs = blocks[i].transactions
    BY <1>1, <1>2, <1>4, <1>8
  <2> HIDE DEF blocks, txs, n
  <2> QED
    BY ONLY <2>1, ReplayedBlock
<1> QED
  BY <1>5, <1>6, <1>7, <1>9

(* A block that takes the place of another without a change of its hash     *)
(* says the same, but for grants that one of them repeats.                  *)
LEMMA UnseenChange ==
    ASSUME NEW c, NEW t, ChainOK(c, t), NEW i \in 1 .. Len(c.blocks),
           NEW b, IsBlock(b), b.transactions \in Seq(Tx), Valid(WithBlock(c, i, b)),
           i < Len(c.blocks) \/ b.hash = c.blocks[i].hash
    PROVE  Indistinct(b, c.blocks[i])
<1> DEFINE o == c.blocks[i]
           txs == b.transactions
           others == o.transactions
<1>1. /\ IsBlock(o) /\ o.hash = ComputeHash(o) /\ o.root = MerkleRoot(others)
      /\ others \in Seq(Tx)
  BY ChainHashes
<1>2. /\ Intact(b) /\ b.hash = o.hash
      /\ \A k \in 1 .. Len(txs) : ValidTransaction(txs[k])
      /\ \A j, k \in 1 .. Len(txs) :
            j < k /\ txs[j].sender = txs[k].sender /\ txs[j].sender # Faucet =>
                txs[j].nonce < txs[k].nonce
  BY ReplacedBlock
<1>3. /\ \A k \in 1 .. Len(others) : ValidTransaction(others[k])
      /\ \A j, k \in 1 .. Len(others) :
            j < k /\ others[j].sender = others[k].sender /\ others[j].sender # Faucet =>
                others[j].nonce < others[k].nonce
  <2>1. IsChain(c) /\ IsList(c.blocks) /\ Valid(c)
    BY ChainFields, ChainOKIsValid
  <2>2. WithBlock(c, i, o) = c
    BY <2>1, BlockReplaced
  <2>3. others \in Seq(Tx) /\ Valid(WithBlock(c, i, o))
    BY <1>1, <2>1, <2>2
  <2> HIDE DEF o
  <2> QED
    BY ONLY ChainOK(c, t), i \in 1 .. Len(c.blocks), <2>3, ReplacedBlock
<1>4. b.hash = ComputeHash(b) /\ b.root = MerkleRoot(txs)
  BY <1>2 DEF Intact
<1>5. /\ b.height = o.height /\ b.time = o.time /\ b.root = o.root
      /\ b.prev = o.prev /\ b.nonce = o.nonce /\ b.difficulty = o.difficulty
  <2>1. ComputeHash(b) = ComputeHash(o)
    BY <1>1, <1>2, <1>4
  <2> HIDE DEF o
  <2> QED
    BY ONLY <2>1, HashFields
<1>6. [b EXCEPT !.transactions = <<>>] = [o EXCEPT !.transactions = <<>>]
  <2> HIDE DEF o
  <2>1. [b EXCEPT !.transactions = <<>>] =
          [height |-> b.height, time |-> b.time, transactions |-> <<>>, root |-> b.root,
           prev |-> b.prev, difficulty |-> b.difficulty, nonce |-> b.nonce, hash |-> b.hash]
    BY ONLY IsBlock(b) DEF IsBlock
  <2>2. [o EXCEPT !.transactions = <<>>] =
          [height |-> o.height, time |-> o.time, transactions |-> <<>>, root |-> o.root,
           prev |-> o.prev, difficulty |-> o.difficulty, nonce |-> o.nonce, hash |-> o.hash]
    BY ONLY <1>1 DEF IsBlock
  <2> QED
    BY ONLY <1>2, <1>5, <2>1, <2>2
<1>7. txs \in Seq(Tx) /\ MerkleRoot(txs) = MerkleRoot(others)
  BY <1>1, <1>4, <1>5
<1> HIDE DEF o, txs, others
<1>8. Repeats(txs, others) /\ Repeats(others, txs)
  BY ONLY <1>1, <1>2, <1>3, <1>7, RootRepeats
<1> QED
  BY <1>6, <1>8 DEF Indistinct, o, txs, others

(* A block that takes the place of the latest one has its link and its      *)
(* difficulty, and payments that are accepted.                              *)
LEMMA LatestChange ==
    ASSUME NEW c, NEW t, ChainOK(c, t), NEW b, b.transactions \in Seq(Tx),
           NEW i \in 1 .. Len(c.blocks), i = Len(c.blocks), Valid(WithBlock(c, i, b))
    PROVE  b.height = c.blocks[i].height /\ b.prev = c.blocks[i].prev
           /\ b.difficulty = c.blocks[i].difficulty
<1> DEFINE e == WithBlock(c, i, b)
           o == c.blocks[i]
           n == Len(c.blocks)
           h == i - 1
<1>1. /\ IsChain(c) /\ IsList(c.blocks) /\ n \in Nat \ {0} /\ h \in Nat /\ h <= n
      /\ c.retarget.interval \in Nat \ {0}
  BY ChainFields
<1>2. BlockOK(c, i, t) /\ \E d \in 0 .. MaxDifficulty64 : c.blocks[1] = Genesis(d)
  BY DEF ChainOK
<1>3. o.height = h /\ o.difficulty = ExpectedDifficulty(c, h)
  BY <1>2 DEF BlockOK
<1>4. b.height = o.height /\ b.prev = o.prev
  <2>1. IF i = 1 THEN ValidGenesis(b) ELSE Follows(b, c.blocks[i - 1])
    BY ReplacedBlock
  <2>2. CASE i = 1
    <3>1. o.prev = GenesisPrevHash
      BY <1>2, <2>2, GenesisFields
    <3> QED
      BY <1>3, <2>1, <2>2, <3>1 DEF ValidGenesis
  <2>3. CASE i # 1
    <3>1. Follows(o, c.blocks[i - 1])
      <4>1. i > 1
        <5>1. n \in Nat /\ i \in 1 .. n
          BY <1>1
        <5> HIDE DEF n
        <5> QED
          BY ONLY <2>3, <5>1
      <4> QED
        BY ONLY <1>2, <4>1 DEF BlockOK
    <3> QED
      BY <2>1, <2>3, <3>1 DEF Follows
  <2> QED
    BY <2>2, <2>3
<1>5. /\ DOMAIN e.blocks = 1 .. n /\ Len(e.blocks) = n /\ e.blocks[i] = b
      /\ \A k \in 1 .. n : k # i => e.blocks[k] = c.blocks[k]
  BY <1>1, BlockReplaced
<1>6. e.schedule = c.schedule /\ e.retarget = c.retarget
  <2> DEFINE blocks == [c.blocks EXCEPT ![i] = b]
  <2>1. e = [c EXCEPT !.blocks = blocks]
    BY DEF WithBlock
  <2>2. c = [blocks |-> c.blocks, pending |-> c.pending, schedule |-> c.schedule,
             retarget |-> c.retarget, maxTx |-> c.maxTx]
    BY <1>1 DEF IsChain
  <2> HIDE DEF e, blocks
  <2>3. e = [blocks |-> blocks, pending |-> c.pending, schedule |-> c.schedule,
             retarget |-> c.retarget, maxTx |-> c.maxTx]
    BY ONLY <2>1, <2>2
  <2> QED
    BY ONLY <2>3
<1>7. b.difficulty = ExpectedDifficulty(e, h)
  <2>1. Valid(e)
    OBVIOUS
  <2> HIDE DEF e
  <2>2. b.difficulty = ExpectedDifficulty(e, b.height)
    BY <1>5, <2>1 DEF Valid
  <2> QED
    BY <1>3, <1>4, <2>2
<1> HIDE DEF e
<1>8. ExpectedDifficulty(c, h) = ExpectedDifficulty(e, h)
  <2>1. \A k \in 1 .. h : c.blocks[k] = e.blocks[k]
    BY <1>1, <1>5
  <2>2. /\ c.schedule = e.schedule /\ c.retarget = e.retarget /\ h \in Nat
        /\ Len(c.blocks) \in Nat /\ Len(e.blocks) \in Nat
        /\ h <= Len(c.blocks) /\ h <= Len(e.blocks)
    BY <1>1, <1>5, <1>6
  <2> HIDE DEF h
  <2> QED
    BY ONLY <1>1, <2>1, <2>2, SameExpected
<1> QED
  BY <1>3, <1>4, <1>7, <1>8

(* The payments of the latest block are signed ones that it had.            *)
LEMMA LatestIsRewritten ==
    ASSUME NEW c, NEW t, ChainOK(c, t), NEW i \in 1 .. Len(c.blocks), i = Len(c.blocks),
           NEW b, b.transactions \in Seq(Tx),
           b.transactions \in Seq(SignedIn(c.blocks[i].transactions)),
           NEW r, r.transactions = b.transactions, r.height = b.height, r.prev = b.prev,
           r.difficulty = b.difficulty, Valid(WithBlock(c, i, r))
    PROVE  Rewritten(b, c.blocks[i])
<1> DEFINE o == c.blocks[i]
           txs == b.transactions
           others == o.transactions
<1>1. b.height = o.height /\ b.prev = o.prev /\ b.difficulty = o.difficulty
  <2>1. r.height = o.height /\ r.prev = o.prev /\ r.difficulty = o.difficulty
    BY LatestChange
  <2> QED
    BY <2>1
<1>2. /\ DOMAIN txs = 1 .. Len(txs) /\ DOMAIN others = 1 .. Len(others)
      /\ \A k \in 1 .. Len(txs) : txs[k] \in SignedIn(others)
      /\ \A k \in 1 .. Len(others) : others[k] \in Tx
  <2>1. others \in Seq(Tx)
    BY ChainHashes
  <2> QED
    BY <2>1, LenProperties, ElementOfSeq
<1>3. \A k \in 1 .. Len(txs) : ValidTransaction(txs[k])
  BY ReplacedBlock
<1>4. \A k \in 1 .. Len(others) : ValidTransaction(others[k])
  <2>1. IsChain(c) /\ IsList(c.blocks) /\ Valid(c)
    BY ChainFields, ChainOKIsValid
  <2>2. WithBlock(c, i, o) = c
    BY <2>1, BlockReplaced
  <2>3. others \in Seq(Tx) /\ Valid(WithBlock(c, i, o))
    BY <2>1, <2>2, ChainHashes
  <2> HIDE DEF o
  <2> QED
    BY ONLY ChainOK(c, t), i \in 1 .. Len(c.blocks), <2>3, ReplacedBlock
<1>5. ASSUME NEW k \in DOMAIN txs, txs[k].sender # Faucet
      PROVE  \E j \in DOMAIN others : TransactionText(txs[k]) = TransactionText(others[j])
  <2>1. txs[k] \in Tx /\ ValidTransaction(txs[k])
    BY <1>2, <1>3 DEF SignedIn
  <2>2. txs[k].signature # Unsigned
    BY <1>5, <2>1 DEF ValidTransaction, SignatureOK
  <2>3. PICK j \in DOMAIN others : txs[k].signature = others[j].signature
    BY <1>2, <2>2 DEF SignedIn
  <2>4. others[j] \in Tx /\ ValidTransaction(others[j])
    BY <1>2, <1>4, <2>3
  <2>5. TransactionText(txs[k]) = TransactionText(others[j])
    BY ONLY <1>5, <2>1, <2>3, <2>4, SignatureTellsText
  <2> QED
    BY <2>3, <2>5
<1> QED
  BY <1>1, <1>5 DEF Rewritten

(* Whatever block is put in the place of one that is not the latest, or of  *)
(* the latest with its hash kept: Validate refuses the chain, unless the    *)
(* block says the same but for grants that one of the two repeats at its    *)
(* end.  This is for every block, not for the mistakes that a run tries.    *)
THEOREM HistoryIsSealed ==
    Spec => [](\A n \in Nodes : \A i \in 1 .. Len(chain[n].blocks) : \A b :
                  /\ IsBlock(b) /\ b.transactions \in Seq(Tx)
                  /\ i < Len(chain[n].blocks) \/ b.hash = chain[n].blocks[i].hash
                  /\ Valid(WithBlock(chain[n], i, b))
                  => Indistinct(b, chain[n].blocks[i]))
<1> DEFINE IsSealed ==
        \A n \in Nodes : \A i \in 1 .. Len(chain[n].blocks) : \A b :
                  /\ IsBlock(b) /\ b.transactions \in Seq(Tx)
                  /\ i < Len(chain[n].blocks) \/ b.hash = chain[n].blocks[i].hash
                  /\ Valid(WithBlock(chain[n], i, b))
                  => Indistinct(b, chain[n].blocks[i])
<1>1. Inv => IsSealed
  BY UnseenChange DEF Inv
<1> QED
  BY <1>1, Invariance, PTL DEF IsSealed

(* EditsAreCaught: Validate refuses the mistakes that TxEdits, ListEdits,   *)
(* BlockEdits and Rearranged list, in any block of any chain and sealed     *)
(* anew or not, but for grants repeated at the end and for a latest block   *)
(* sealed anew, which keeps its link, its difficulty and signed payments.   *)
THEOREM MistakesAreCaught == Spec => []EditsAreCaught
<1>1. ASSUME Inv, NEW n \in Nodes
      PROVE  /\ \A edited \in Rearranged(chain[n]) : ~Valid(edited)
             /\ \A i \in DOMAIN chain[n].blocks : \A b \in BlockEdits(chain[n].blocks[i]) :
                   /\ Valid(WithBlock(chain[n], i, b)) => Indistinct(b, chain[n].blocks[i])
                   /\ Valid(WithBlock(chain[n], i, Resealed(b))) =>
                         \/ Indistinct(Resealed(b), chain[n].blocks[i])
                         \/ i = Len(chain[n].blocks) /\ Rewritten(b, chain[n].blocks[i])
  <2> DEFINE c == chain[n]
  <2>1. ChainOK(c, now)
    BY <1>1 DEF Inv
  <2> HIDE DEF c
  <2>2. DOMAIN c.blocks = 1 .. Len(c.blocks) /\ Len(c.blocks) \in Nat
    BY <2>1, ChainFields
  <2>3. ASSUME NEW edited \in Rearranged(c) PROVE ~Valid(edited)
    <3>1. ~Linked(edited.blocks)
      BY <2>1, <2>3, MovedBlockShows DEF Rearranged
    <3> QED
      BY <3>1 DEF Valid
  <2>4. ASSUME NEW i \in 1 .. Len(c.blocks), NEW b \in BlockEdits(c.blocks[i])
        PROVE  /\ Valid(WithBlock(c, i, b)) => Indistinct(b, c.blocks[i])
               /\ Valid(WithBlock(c, i, Resealed(b))) =>
                     \/ Indistinct(Resealed(b), c.blocks[i])
                     \/ i = Len(c.blocks) /\ Rewritten(b, c.blocks[i])
    <3> DEFINE o == c.blocks[i]
               r == Resealed(b)
    <3>1. IsBlock(o) /\ o.transactions \in Seq(Tx) /\ o.hash = ComputeHash(o)
      BY <2>1, ChainHashes
    <3>2. /\ IsBlock(b)
          /\ b.transactions \in Seq(Tx) /\ b.transactions \in Seq(SignedIn(o.transactions))
          /\ b.hash = o.hash \/ ComputeHash(b) = o.hash
      <4>1. b \in BlockEdits(o)
        BY <2>4
      <4> HIDE DEF o
      <4> QED
        BY ONLY <3>1, <4>1, BlockEditsTyped
    <3>3. /\ IsBlock(r) /\ r.transactions = b.transactions
          /\ r.height = b.height /\ r.prev = b.prev /\ r.difficulty = b.difficulty
      BY <3>2, ResealedFields
    <3>4. ASSUME Valid(WithBlock(c, i, b)) PROVE Indistinct(b, o)
      <4>1. Intact(b)
        BY <2>1, <3>2, <3>4, ReplacedBlock
      <4>2. b.hash = o.hash
        BY <3>2, <4>1 DEF Intact
      <4> QED
        BY <2>1, <3>2, <3>4, <4>2, UnseenChange
    <3> HIDE DEF r
    <3>5. ASSUME Valid(WithBlock(c, i, r)), i < Len(c.blocks) PROVE Indistinct(r, o)
      BY <2>1, <3>2, <3>3, <3>5, UnseenChange
    <3>6. ASSUME Valid(WithBlock(c, i, r)), i = Len(c.blocks) PROVE Rewritten(b, o)
      BY <2>1, <3>2, <3>3, <3>6, LatestIsRewritten
    <3>7. i < Len(c.blocks) \/ i = Len(c.blocks)
      BY <2>2
    <3> QED
      BY <3>4, <3>5, <3>6, <3>7 DEF r
  <2> QED
    BY <2>2, <2>3, <2>4 DEF c
<1>2. Inv => EditsAreCaught
  BY <1>1 DEF EditsAreCaught
<1> QED
  BY <1>2, Invariance, PTL


-----------------------------------------------------------------------------
(* Restarts *)

LEMMA ReadableChainIsKept ==
    ASSUME NEW c, NEW t, ChainOK(c, t), ReadableChain(c)
    PROVE  RoundTrip(c) = c /\ Valid(RoundTrip(c))
<1>1. Holds(Tx, c) /\ \A i \in 1 .. Len(c.blocks) : IsBlock(c.blocks[i])
  BY DEF ChainOK, BlockOK
<1>2. RoundTrip(c) = c
  BY ONLY <1>1, TxClosed, ReadableChain(c), RoundTripOfReadable
<1> QED
  BY <1>2, ChainOKIsValid

(* A chain whose names are all UTF-8 is saved and loaded without a change,   *)
(* and Load accepts it.                                                      *)
ReadableChainsLoad ==
    \A n \in Nodes : ReadableChain(chain[n]) =>
        RoundTrip(chain[n]) = chain[n] /\ Valid(RoundTrip(chain[n]))

(* No other chain than one with a name that is not UTF-8 can be refused by   *)
(* Load, as the run NodeEncoding shows that such a chain can.                *)
THEOREM ReadableChainsAreLoaded == Spec => []ReadableChainsLoad
<1>1. Inv => ReadableChainsLoad
  BY ReadableChainIsKept DEF Inv, ReadableChainsLoad
<1> QED
  BY <1>1, Invariance, PTL

(* SavedChainLoads: where all names are UTF-8, processes may end and start   *)
(* as they like; every chain is loaded again, and nothing else happens than  *)
(* without restarts.                                                         *)
THEOREM RestartsAreHarmless ==
    ASSUME Unreadable = {}
    PROVE  RestartSpec => Spec /\ []SavedChainLoads
<1>1. \A c : ReadableChain(c)
  BY DEF ReadableChain, ReadableTransaction
<1>2. ASSUME Inv, [Next \/ \E n \in Nodes : Restart(n)]_vars PROVE [Next]_vars
  <2>1. ASSUME NEW n \in Nodes, Restart(n) PROVE UNCHANGED vars
    <3>1. RoundTrip(chain[n]) = chain[n]
      BY <1>1, <1>2, ReadableChainIsKept DEF Inv
    <3>2. chain = [m \in Nodes |-> chain[m]]
      BY <1>2 DEF Inv
    <3>3. chain' = [chain EXCEPT ![n] = chain[n]] /\ UNCHANGED <<now, requested>>
      BY <2>1, <3>1 DEF Restart, Update
    <3>4. chain' = chain
      BY ONLY <3>2, <3>3
    <3> QED
      BY <3>3, <3>4 DEF vars
  <2> QED
    BY <1>2, <2>1
<1>3. Inv => SavedChainLoads
  BY <1>1, ReadableChainIsKept DEF Inv, SavedChainLoads
<1>4. Init => Inv
  BY InitInv
<1>5. Inv /\ [Next]_vars => Inv'
  BY NextInv
<1> QED
  BY <1>2, <1>3, <1>4, <1>5, PTL DEF Spec, RestartSpec
-----------------------------------------------------------------------------
(* A clock that is set back *)

(* No node mines while its clock shows less than its latest block.           *)
MinesInTime == [][\A n \in Nodes : MineBlock(n) => Latest(chain[n]).time <= now]_vars

(* AlwaysValid, although the clock is set back: what NodeClock shows takes a *)
(* block that is mined before the clock has caught up with the last one.     *)
THEOREM SlowClocksAreHarmless == WallClockSpec /\ MinesInTime => []AlwaysValid
<1> DEFINE ClockInv == now \in 1 .. MaxTime /\ AllOK(chain, MaxTime)
<1>1. MaxTime \in Nat
  BY BoundsAssumption
<1>2. Init => ClockInv
  <2> SUFFICES ASSUME Init PROVE ClockInv
    OBVIOUS
  <2>1. Inv
    BY InitInv
  <2> QED
    BY <1>1, <2>1, LaterOK DEF Inv, AllOK
<1>3. ASSUME ClockInv, [Next \/ SetClockBack]_vars,
             [\A n \in Nodes : MineBlock(n) => Latest(chain[n]).time <= now]_vars
      PROVE  ClockInv'
  <2>1. CASE UNCHANGED vars
    BY <1>3, <2>1 DEF vars, AllOK
  <2>2. CASE SetClockBack
    BY <1>1, <1>3, <2>2 DEF SetClockBack, AllOK
  <2>3. CASE Next /\ ~UNCHANGED vars
    <3>1. AllOK(chain', MaxTime)
      BY <1>1, <1>3, <2>3, OperationOK
    <3>2. now' \in 1 .. MaxTime
      BY <1>1, <1>3, <2>3, NextNow DEF Tick
    <3> QED
      BY <3>1, <3>2 DEF AllOK
  <2> QED
    BY <1>3, <2>1, <2>2, <2>3
<1>4. ClockInv => AlwaysValid
  BY ChainOKIsValid DEF AllOK, AlwaysValid
<1> QED
  BY <1>2, <1>3, <1>4, PTL DEF WallClockSpec, MinesInTime
-----------------------------------------------------------------------------
(* Faucet payments *)

(* What a chain has accepted: its blocks' transactions and its pool. *)
Accepted(c) == Transactions(c.blocks) \o c.pending

Places(tx, txs) == {i \in DOMAIN txs : txs[i] = tx}

LEMMA PlacesFinite ==
    ASSUME NEW S, NEW txs \in Seq(S), NEW tx
    PROVE  /\ IsFiniteSet(Places(tx, txs))
           /\ Occurrences(tx, txs) = Cardinality(Places(tx, txs))
           /\ Occurrences(tx, txs) \in Nat
           /\ DOMAIN txs = 1 .. Len(txs) /\ Len(txs) \in Nat
<1>1. DOMAIN txs = 1 .. Len(txs) /\ Len(txs) \in Nat
  BY LenProperties
<1>2. IsFiniteSet(DOMAIN txs)
  BY <1>1, FS_Interval
<1>3. Places(tx, txs) \in SUBSET DOMAIN txs
  BY DEF Places
<1>4. IsFiniteSet(Places(tx, txs))
  BY ONLY <1>2, <1>3, FS_Subset
<1>5. Occurrences(tx, txs) = Cardinality(Places(tx, txs))
  BY DEF Occurrences, Places
<1> QED
  BY <1>1, <1>4, <1>5, FS_CardinalityType

LEMMA OccursOnceMore ==
    ASSUME NEW S, NEW txs \in Seq(S), NEW tx, NEW last \in S
    PROVE  Occurrences(tx, Append(txs, last))
             = IF last = tx THEN Occurrences(tx, txs) + 1 ELSE Occurrences(tx, txs)
<1> DEFINE more == Append(txs, last)
           n == Len(txs)
<1>1. /\ more \in Seq(S) /\ Len(more) = n + 1 /\ more[n + 1] = last
      /\ \A i \in 1 .. n : more[i] = txs[i]
  BY AppendProperties
<1>2. /\ IsFiniteSet(Places(tx, txs)) /\ Occurrences(tx, txs) = Cardinality(Places(tx, txs))
      /\ DOMAIN txs = 1 .. n /\ n \in Nat
  BY PlacesFinite
<1> HIDE DEF more, n
<1>3. /\ Occurrences(tx, more) = Cardinality(Places(tx, more))
      /\ DOMAIN more = 1 .. n + 1
  BY <1>1, PlacesFinite
<1>4. Places(tx, more) = IF last = tx THEN Places(tx, txs) \cup {n + 1} ELSE Places(tx, txs)
  BY <1>1, <1>2, <1>3 DEF Places
<1>5. n + 1 \notin Places(tx, txs)
  BY <1>2 DEF Places
<1>6. Cardinality(Places(tx, txs) \cup {n + 1}) = Cardinality(Places(tx, txs)) + 1
  BY <1>2, <1>5, FS_AddElement
<1> QED
  BY <1>2, <1>3, <1>4, <1>6 DEF more

(* An adopted chain has no more payments of a kind than the candidate, if   *)
(* the pool that was there before has none.                                 *)
LEMMA AdoptedPays ==
    ASSUME Unreadable = {}, NEW c, NEW m, NEW t, ChainOK(c, t), ChainOK(m, t),
           NEW tx, \A i \in DOMAIN c.pending : c.pending[i] # tx
    PROVE  Occurrences(tx, Accepted(Adopted(c, RoundTrip(m)))) <= Occurrences(tx, Accepted(m))
<1> DEFINE kept == m.pending
           own == c.pending
           T == Transactions(m.blocks)
           offered == kept \o own
           pool == Revalidated(m, offered)
           d == Adopted(c, RoundTrip(m))
           n == Len(T)
<1>1. RoundTrip(m) = m
  BY ReadableChainIsKept DEF ReadableChain, ReadableTransaction
<1>2. Holds(Tx, c) /\ Holds(Tx, m) /\ own \in Seq(Tx) /\ kept \in Seq(Tx)
  BY DEF ChainOK, Holds
<1>3. offered \in Seq(Tx) /\ T \in Seq(Tx)
  BY <1>2, ConcatProperties, TransactionsTyped DEF Holds
<1>4. d = WithPool(m, pool)
  BY <1>1 DEF Adopted, WithPool
<1> HIDE DEF pool
<1>5. /\ pool \in Seq(Tx)
      /\ \A i \in 1 .. Len(pool) : \E j \in 1 .. Len(offered) : pool[i] = offered[j]
      /\ \A i, j \in 1 .. Len(pool) : pool[i] = pool[j] => i = j
  <2> HIDE DEF offered
  <2> QED
    BY <1>3, RevalidatedOnce DEF pool
<1>6. d.blocks = m.blocks /\ d.pending = pool
  <2>1. WithPool(m, pool) = [blocks |-> m.blocks, pending |-> pool, schedule |-> m.schedule,
                             retarget |-> m.retarget, maxTx |-> m.maxTx]
    BY <1>2, <1>5, WithPoolFields
  <2> QED
    BY <1>4, <2>1
<1> HIDE DEF d
<1> DEFINE new == T \o pool
           old == T \o kept
<1>7. Accepted(d) = new /\ Accepted(m) = old
  BY <1>6 DEF Accepted
<1>8. /\ new \in Seq(Tx) /\ Len(new) = n + Len(pool)
      /\ \A i \in 1 .. n + Len(pool) : new[i] = IF i <= n THEN T[i] ELSE pool[i - n]
  BY <1>3, <1>5, ConcatProperties
<1>9. /\ old \in Seq(Tx) /\ Len(old) = n + Len(kept)
      /\ \A i \in 1 .. n + Len(kept) : old[i] = IF i <= n THEN T[i] ELSE kept[i - n]
  BY <1>2, <1>3, ConcatProperties
<1>10. /\ Len(offered) = Len(kept) + Len(own)
       /\ \A i \in 1 .. Len(kept) + Len(own) :
             offered[i] = IF i <= Len(kept) THEN kept[i] ELSE own[i - Len(kept)]
  BY <1>2, ConcatProperties
<1>11. /\ n \in Nat /\ Len(pool) \in Nat /\ Len(kept) \in Nat /\ Len(own) \in Nat
       /\ \A i \in 1 .. Len(own) : own[i] # tx
  BY <1>2, <1>3, <1>5, LenProperties
<1> HIDE DEF kept, own, T, offered, new, old, n
<1>12. /\ IsFiniteSet(Places(tx, new)) /\ DOMAIN new = 1 .. n + Len(pool)
       /\ Occurrences(tx, new) = Cardinality(Places(tx, new))
  BY <1>8, PlacesFinite
<1>13. /\ IsFiniteSet(Places(tx, old)) /\ DOMAIN old = 1 .. n + Len(kept)
       /\ Occurrences(tx, old) = Cardinality(Places(tx, old))
  BY <1>9, PlacesFinite
<1> DEFINE A == {i \in 1 .. n : T[i] = tx}
<1>14. A \in SUBSET Places(tx, old)
  BY <1>9, <1>11, <1>13 DEF Places
<1>15. IsFiniteSet(A) /\ Cardinality(A) <= Cardinality(Places(tx, old))
  BY ONLY <1>13, <1>14, FS_Subset
<1>16. ASSUME \A k \in 1 .. Len(pool) : pool[k] # tx
       PROVE  Occurrences(tx, new) <= Occurrences(tx, old)
  <2>1. Places(tx, new) = A
    <3> SUFFICES ASSUME NEW i \in 1 .. n + Len(pool) PROVE new[i] = tx <=> i \in A
      <4>1. Places(tx, new) = {i \in 1 .. n + Len(pool) : new[i] = tx}
        BY <1>12 DEF Places
      <4>2. \A i \in A : i \in 1 .. n + Len(pool)
        BY <1>11
      <4> HIDE DEF A
      <4> QED
        BY <4>1, <4>2
    <3>1. CASE i <= n
      BY <1>8, <1>11, <3>1
    <3>2. CASE ~ i <= n
      <4>1. i - n \in 1 .. Len(pool) /\ new[i] = pool[i - n]
        BY <1>8, <1>11, <3>2
      <4> QED
        BY <1>16, <3>2, <4>1
    <3> QED
      BY <3>1, <3>2
  <2> QED
    BY <1>12, <1>13, <1>15, <2>1
<1>17. ASSUME NEW k \in 1 .. Len(pool), pool[k] = tx
       PROVE  Occurrences(tx, new) <= Occurrences(tx, old)
  <2>1. PICK j \in 1 .. Len(offered) : offered[j] = tx
    BY <1>5, <1>17
  <2>2. j \in 1 .. Len(kept) /\ kept[j] = tx
    <3>1. CASE j <= Len(kept)
      BY <1>10, <1>11, <2>1, <3>1
    <3>2. CASE ~ j <= Len(kept)
      <4>1. j - Len(kept) \in 1 .. Len(own) /\ offered[j] = own[j - Len(kept)]
        BY <1>10, <1>11, <2>1, <3>2
      <4> QED
        BY <1>11, <2>1, <4>1
    <3> QED
      BY <3>1, <3>2
  <2>3. Places(tx, new) = A \cup {n + k}
    <3> SUFFICES ASSUME NEW i \in 1 .. n + Len(pool) PROVE new[i] = tx <=> i \in A \/ i = n + k
      <4>1. Places(tx, new) = {i \in 1 .. n + Len(pool) : new[i] = tx}
        BY <1>12 DEF Places
      <4>2. n + k \in 1 .. n + Len(pool) /\ \A i \in A : i \in 1 .. n + Len(pool)
        BY <1>11
      <4> HIDE DEF A
      <4> QED
        BY <4>1, <4>2
    <3>1. CASE i <= n
      BY <1>8, <1>11, <3>1
    <3>2. CASE ~ i <= n
      <4>1. i - n \in 1 .. Len(pool) /\ new[i] = pool[i - n] /\ i \notin A
        BY <1>8, <1>11, <3>2
      <4>2. pool[i - n] = tx <=> i - n = k
        BY <1>5, <1>17, <4>1
      <4> QED
        BY <1>11, <4>1, <4>2
    <3> QED
      BY <3>1, <3>2
  <2>4. n + k \notin A /\ n + j \notin A
    BY <1>11, <2>2
  <2>5. n + j \in Places(tx, old)
    <3>1. n + j \in 1 .. n + Len(kept) /\ ~ n + j <= n /\ (n + j) - n = j
      BY <1>11, <2>2
    <3> QED
      BY <1>9, <1>13, <2>2, <3>1 DEF Places
  <2>6. A \cup {n + j} \in SUBSET Places(tx, old)
    BY <1>14, <2>5
  <2> HIDE DEF A
  <2>7. Cardinality(A \cup {n + k}) = Cardinality(A) + 1
    BY <1>15, <2>4, FS_AddElement
  <2>8. Cardinality(A \cup {n + j}) = Cardinality(A) + 1
    BY <1>15, <2>4, FS_AddElement
  <2>9. Cardinality(A \cup {n + j}) <= Cardinality(Places(tx, old))
    BY ONLY <1>13, <2>6, FS_Subset
  <2> QED
    BY <1>12, <1>13, <2>3, <2>7, <2>8, <2>9
<1>18. Occurrences(tx, new) <= Occurrences(tx, old)
  BY <1>16, <1>17
<1> QED
  BY <1>7, <1>18 DEF d

LEMMA GrantsAreFaucets == \A tx \in FaucetPayments : tx.sender = Faucet
BY DEF FaucetPayments, FaucetTx

(* No payment was accepted by a node more often than users asked for it. *)
Counted(c) == \A tx \in FaucetPayments : Occurrences(tx, Accepted(c)) <= requested[tx]

PaidInv ==
    /\ requested \in [FaucetPayments -> Nat]
    /\ \A n \in Nodes : Counted(chain[n])

LEMMA AddedIsCounted ==
    ASSUME Inv, PaidInv, NEW n \in Nodes, NEW tx \in Tx, AddTransaction(n, tx),
           tx.sender = Faucet => tx \in FaucetPayments
    PROVE  PaidInv'
<1> DEFINE all == Accepted(chain[n])
           d == AddPending(chain[n], tx)
<1>1. ChainOK(chain[n], now) /\ Holds(Tx, chain[n]) /\ chain[n].pending \in Seq(Tx)
  BY DEF Inv, ChainOK, Holds
<1>2. all \in Seq(Tx)
  BY <1>1, PendingLedgerIsLedger DEF Accepted
<1>3. Accepted(d) = Append(all, tx)
  <2> DEFINE T == Transactions(chain[n].blocks)
             more == Append(chain[n].pending, tx)
  <2>1. T \in Seq(Tx) /\ more \in Seq(Tx)
    BY <1>1, TransactionsTyped, AppendProperties DEF Holds
  <2>2. d = WithPool(chain[n], more)
    BY DEF AddPending, WithPool
  <2>3. d.blocks = chain[n].blocks /\ d.pending = more
    <3> HIDE DEF more
    <3>1. WithPool(chain[n], more) =
            [blocks |-> chain[n].blocks, pending |-> more, schedule |-> chain[n].schedule,
             retarget |-> chain[n].retarget, maxTx |-> chain[n].maxTx]
      BY <1>1, <2>1, WithPoolFields
    <3> QED
      BY <2>2, <3>1
  <2>4. T \o Append(chain[n].pending, tx) = Append(T \o chain[n].pending, tx)
    <3> DEFINE pending == chain[n].pending
    <3>1. pending \in Seq(Tx)
      BY <1>1
    <3>2. <<tx>> \in Seq(Tx)
      OBVIOUS
    <3> HIDE DEF T, pending
    <3>3. Append(pending, tx) = pending \o <<tx>>
      BY <3>1, AppendIsConcat
    <3>4. T \o pending \in Seq(Tx)
      BY <2>1, <3>1, ConcatProperties
    <3>5. Append(T \o pending, tx) = (T \o pending) \o <<tx>>
      BY <3>4, AppendIsConcat
    <3>6. (T \o pending) \o <<tx>> = T \o (pending \o <<tx>>)
      BY <2>1, <3>1, <3>2, ConcatAssociative
    <3> QED
      BY <3>3, <3>5, <3>6 DEF pending
  <2> QED
    BY <2>3, <2>4 DEF Accepted
<1>4. /\ chain' = [chain EXCEPT ![n] = d]
      /\ requested' = IF tx.sender = Faucet THEN [requested EXCEPT ![tx] = @ + 1] ELSE requested
  BY DEF AddTransaction, Update
<1> HIDE DEF d
<1>5. requested' \in [FaucetPayments -> Nat] /\ \A x \in FaucetPayments : requested[x] <= requested'[x]
  BY <1>4 DEF PaidInv
<1>6. ASSUME NEW m \in Nodes, NEW x \in FaucetPayments
      PROVE  Occurrences(x, Accepted(chain'[m])) <= requested'[x]
  <2>1. CASE m # n
    <3>1. chain'[m] = chain[m]
      BY <1>4, <2>1 DEF Inv
    <3>2. Accepted(chain[m]) \in Seq(Tx)
      BY PendingLedgerIsLedger DEF Accepted, Inv
    <3>3. Occurrences(x, Accepted(chain[m])) \in Nat
      BY ONLY <3>2, PlacesFinite
    <3>4. Occurrences(x, Accepted(chain[m])) <= requested[x]
      BY DEF PaidInv, Counted
    <3> QED
      BY <1>5, <3>1, <3>3, <3>4 DEF PaidInv
  <2>2. CASE m = n
    <3>1. chain'[m] = d
      BY <1>4, <2>2 DEF Inv
    <3>2. Occurrences(x, all) \in Nat /\ Occurrences(x, all) <= requested[x] /\ requested[x] \in Nat
      BY <1>2, PlacesFinite DEF PaidInv, Counted
    <3>3. Occurrences(x, Append(all, tx)) = IF tx = x THEN Occurrences(x, all) + 1 ELSE Occurrences(x, all)
      BY ONLY <1>2, tx \in Tx, OccursOnceMore
    <3>4. tx = x => requested'[x] = requested[x] + 1
      BY <1>4, GrantsAreFaucets DEF PaidInv
    <3>5. requested'[x] \in Nat /\ requested[x] <= requested'[x]
      BY <1>5
    <3>6. Accepted(chain'[m]) = Append(all, tx)
      BY <1>3, <3>1
    <3> DEFINE before == Occurrences(x, all)
               after == Occurrences(x, Append(all, tx))
    <3>7. before \in Nat /\ before <= requested[x] /\ after = IF tx = x THEN before + 1 ELSE before
      BY <3>2, <3>3
    <3> HIDE DEF before, after
    <3>8. after <= requested'[x]
      BY ONLY <3>2, <3>4, <3>5, <3>7
    <3> QED
      BY <3>6, <3>8 DEF after
  <2> QED
    BY <2>1, <2>2
<1> QED
  BY <1>5, <1>6 DEF PaidInv, Counted

LEMMA SameIsCounted ==
    ASSUME Inv, PaidInv, NEW n \in Nodes, NEW d, Update(n, d), requested' = requested,
           \A tx \in FaucetPayments : Occurrences(tx, Accepted(d)) <= requested[tx]
    PROVE  PaidInv'
<1>1. \A m \in Nodes : chain'[m] = IF m = n THEN d ELSE chain[m]
  BY DEF Update, Inv
<1> QED
  BY <1>1 DEF PaidInv, Counted

(* A node adopts a chain only while no grant of its own is waiting.          *)
NoGrantWaits ==
    [][\A n, m \in Nodes : ResolveFork(n, m) =>
          \A i \in DOMAIN chain[n].pending : chain[n].pending[i].sender # Faucet]_vars

(* FaucetPaidOnce: what NodeFaucet shows takes an adoption by a node in whose *)
(* own pool a grant is waiting.  Where there is none, and all names are       *)
(* UTF-8, no payment is confirmed more often than users asked for it.         *)
THEOREM GrantsArePaidOnce ==
    ASSUME Unreadable = {}
    PROVE  Spec /\ NoGrantWaits => []FaucetPaidOnce
<1>1. Init => Inv /\ PaidInv
  <2> SUFFICES ASSUME Init PROVE PaidInv
    BY InitInv
  <2>1. requested \in [FaucetPayments -> Nat] /\ \A tx \in FaucetPayments : requested[tx] = 0
    BY DEF Init
  <2>2. ASSUME NEW n \in Nodes, NEW tx \in FaucetPayments
        PROVE  Occurrences(tx, Accepted(chain[n])) = 0
    <3>1. chain[n] \in NewChains
      BY DEF Init
    <3>2. PICK q \in Genesises \X Policies \X BlockSizes :
             CanCreate(q[1], q[2]) /\ chain[n] = NewChain(q[1], q[2], q[3])
      BY <3>1 DEF NewChains
    <3>3. q[1] \in Genesises /\ q[2] \in Policies /\ q[3] \in BlockSizes /\ 0 \in Nat
      OBVIOUS
    <3>4. Accepted(chain[n]) = <<>>
      BY <3>2, <3>3, NewChainOK DEF Accepted
    <3>5. Places(tx, <<>>) = {}
      BY DEF Places
    <3>6. <<>> \in Seq(Tx)
      BY EmptySeq
    <3>7. Occurrences(tx, <<>>) = Cardinality(Places(tx, <<>>))
      BY ONLY <3>6, PlacesFinite
    <3> QED
      BY <3>4, <3>5, <3>7, FS_EmptySet
  <2> QED
    BY <2>1, <2>2 DEF PaidInv, Counted
<1>2. ASSUME Inv, PaidInv, [Next]_vars,
             [\A n, m \in Nodes : ResolveFork(n, m) =>
                 \A i \in DOMAIN chain[n].pending : chain[n].pending[i].sender # Faucet]_vars
      PROVE  PaidInv'
  <2>1. ASSUME NEW n \in Nodes, NEW tx \in TxPool, AddTransaction(n, tx) PROVE PaidInv'
    BY <1>2, <2>1, PoolTx, AddedIsCounted DEF FaucetPayments
  <2>2. ASSUME NEW n \in Nodes, NEW order \in Orders, FaucetGrant(n, order) PROVE PaidInv'
    <3> DEFINE tx == FaucetTx(order.to, order.amount)
    <3>1. tx \in Tx /\ AddTransaction(n, tx) /\ tx \in FaucetPayments
      BY <2>2, GrantIsTx DEF FaucetGrant, FaucetPayments
    <3> QED
      BY <1>2, <3>1, AddedIsCounted
  <2>3. ASSUME NEW n \in Nodes, NEW order \in Orders, Send(n, order) PROVE PaidInv'
    <3> DEFINE tx == SendTx(chain[n], order.from, order.to, order.amount)
    <3>1. tx \in Tx
      BY <1>2, PaymentIsTx DEF Inv
    <3>2. tx.sender = order.from /\ order.from # Faucet /\ AddTransaction(n, tx)
      BY <2>3 DEF Send, SendTx, Signed
    <3> QED
      BY <1>2, <3>1, <3>2, AddedIsCounted
  <2>4. ASSUME NEW n \in Nodes, MineBlock(n) PROVE PaidInv'
    <3>1. PICK nonce \in BlockNonces : Update(n, Mined(chain[n], now, nonce)) /\ requested' = requested
      BY <2>4 DEF MineBlock
    <3>2. Holds(Tx, chain[n]) /\ chain[n].maxTx \in Nat
      BY <1>2 DEF Inv, ChainOK
    <3>3. Accepted(Mined(chain[n], now, nonce)) = Accepted(chain[n])
      BY <3>2, MinedLedger DEF Accepted
    <3> QED
      BY <1>2, <3>1, <3>3, SameIsCounted DEF PaidInv, Counted
  <2>5. ASSUME NEW n \in Nodes, NEW difficulty \in Difficulties, SetDifficulty(n, difficulty) PROVE PaidInv'
    <3> DEFINE d == WithDifficulty(chain[n], difficulty)
    <3>1. Update(n, d) /\ requested' = requested
      BY <2>5 DEF SetDifficulty
    <3>2. d.blocks = chain[n].blocks /\ d.pending = chain[n].pending
      <4> DEFINE c == chain[n]
                 size == Len(c.blocks)
      <4>1. ChainOK(c, now)
        BY <1>2 DEF Inv
      <4>2. d = WithDifficulty(c, difficulty) /\ size = Len(c.blocks)
        OBVIOUS
      <4> HIDE DEF c, d, size
      <4>3. d.blocks = c.blocks /\ d.pending = c.pending
        BY ONLY <4>1, <4>2, RuleFields
      <4> QED
        BY <4>3 DEF c
    <3>3. Accepted(d) = Accepted(chain[n])
      BY <3>2 DEF Accepted
    <3> HIDE DEF d
    <3> QED
      BY <1>2, <3>1, <3>3, SameIsCounted DEF PaidInv, Counted
  <2>6. ASSUME NEW n \in Nodes, NEW policy \in Policies, ConfigureRetarget(n, policy) PROVE PaidInv'
    <3> DEFINE d == [chain[n] EXCEPT !.retarget = policy]
    <3>1. Update(n, d) /\ requested' = requested
      BY <2>6 DEF ConfigureRetarget
    <3>2. d.blocks = chain[n].blocks /\ d.pending = chain[n].pending
      BY <1>2, ChainFields, PolicyChange DEF Inv
    <3>3. Accepted(d) = Accepted(chain[n])
      BY <3>2 DEF Accepted
    <3> HIDE DEF d
    <3> QED
      BY <1>2, <3>1, <3>3, SameIsCounted DEF PaidInv, Counted
  <2>7. ASSUME NEW n \in Nodes, NEW m \in Nodes, ResolveFork(n, m), ~UNCHANGED vars PROVE PaidInv'
    <3> DEFINE d == Adopted(chain[n], RoundTrip(chain[m]))
    <3>1. Update(n, d) /\ requested' = requested
      BY <2>7 DEF ResolveFork
    <3>2. \A i \in DOMAIN chain[n].pending : chain[n].pending[i].sender # Faucet
      BY <1>2, <2>7
    <3>3. ASSUME NEW tx \in FaucetPayments PROVE Occurrences(tx, Accepted(d)) <= requested[tx]
      <4>1. \A i \in DOMAIN chain[n].pending : chain[n].pending[i] # tx
        BY <3>2, GrantsAreFaucets
      <4>2. ChainOK(chain[n], now) /\ ChainOK(chain[m], now)
        BY <1>2 DEF Inv
      <4>3. Occurrences(tx, Accepted(d)) <= Occurrences(tx, Accepted(chain[m]))
        BY <4>1, <4>2, AdoptedPays
      <4>4. Occurrences(tx, Accepted(chain[m])) <= requested[tx] /\ requested[tx] \in Nat
        BY <1>2 DEF PaidInv, Counted
      <4>5. Accepted(d) \in Seq(Tx) /\ Accepted(chain[m]) \in Seq(Tx)
        <5>1. ChainOK(d, now)
          BY <2>7, <4>2, AdoptOK DEF ResolveFork
        <5> HIDE DEF d
        <5> QED
          BY <4>2, <5>1, PendingLedgerIsLedger DEF Accepted
      <4>6. Occurrences(tx, Accepted(d)) \in Nat /\ Occurrences(tx, Accepted(chain[m])) \in Nat
        BY ONLY <4>5, PlacesFinite
      <4> QED
        BY ONLY <4>3, <4>4, <4>6
    <3> HIDE DEF d
    <3> QED
      BY <1>2, <3>1, <3>3, SameIsCounted
  <2>8. ASSUME Tick PROVE PaidInv'
    BY <1>2, <2>8 DEF Tick, PaidInv, Counted
  <2>9. ASSUME UNCHANGED vars PROVE PaidInv'
    BY <1>2, <2>9 DEF vars, PaidInv, Counted
  <2> QED
    BY <1>2, <2>1, <2>2, <2>3, <2>4, <2>5, <2>6, <2>7, <2>8, <2>9 DEF Next
<1>3. Inv /\ PaidInv => FaucetPaidOnce
  <2> SUFFICES ASSUME Inv, PaidInv, NEW n \in Nodes, NEW tx \in FaucetPayments
               PROVE  Occurrences(tx, Confirmed(n)) <= requested[tx]
    BY DEF FaucetPaidOnce
  <2> DEFINE T == Transactions(chain[n].blocks)
             pending == chain[n].pending
             all == T \o pending
  <2>1. T \in Seq(Tx) /\ pending \in Seq(Tx)
    BY TransactionsTyped DEF Inv, ChainOK, Holds
  <2>2. /\ all \in Seq(Tx) /\ Len(T) \in Nat /\ Len(all) \in Nat /\ Len(T) <= Len(all)
        /\ \A i \in 1 .. Len(T) : all[i] = T[i]
    <3> HIDE DEF T, pending
    <3>1. Len(T) \in Nat /\ Len(pending) \in Nat
      BY <2>1, LenProperties
    <3>2. /\ all \in Seq(Tx) /\ Len(all) = Len(T) + Len(pending)
          /\ \A i \in 1 .. Len(T) + Len(pending) :
                all[i] = IF i <= Len(T) THEN T[i] ELSE pending[i - Len(T)]
      BY <2>1, ConcatProperties
    <3> HIDE DEF all
    <3> QED
      BY <3>1, <3>2
  <2>3. Confirmed(n) = T /\ Accepted(chain[n]) = all
    BY DEF Confirmed, Accepted
  <2> HIDE DEF T, all
  <2>4. /\ Occurrences(tx, T) = Cardinality(Places(tx, T)) /\ Occurrences(tx, T) \in Nat
        /\ DOMAIN T = 1 .. Len(T)
    BY <2>1, PlacesFinite
  <2>5. /\ Occurrences(tx, all) = Cardinality(Places(tx, all)) /\ Occurrences(tx, all) \in Nat
        /\ IsFiniteSet(Places(tx, all)) /\ DOMAIN all = 1 .. Len(all)
    BY <2>2, PlacesFinite
  <2>6. Places(tx, T) \in SUBSET Places(tx, all)
    BY <2>2, <2>4, <2>5 DEF Places
  <2>7. Cardinality(Places(tx, T)) <= Cardinality(Places(tx, all))
    BY ONLY <2>5, <2>6, FS_Subset
  <2>8. Occurrences(tx, all) <= requested[tx] /\ requested[tx] \in Nat
    BY <2>3 DEF PaidInv, Counted
  <2> QED
    BY ONLY <2>3, <2>4, <2>5, <2>7, <2>8
<1>4. Inv /\ [Next]_vars => Inv'
  BY NextInv
<1> QED
  BY <1>1, <1>2, <1>3, <1>4, PTL DEF Spec, NoGrantWaits
=============================================================================
