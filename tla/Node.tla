------------------------------- MODULE Node -------------------------------
(***************************************************************************)
(* Several owners of a chain file each (Nodes), who queue transactions,    *)
(* mine, schedule difficulty, set the retarget policy and adopt each       *)
(* other's chain with ResolveFork.  Every operation of chain.Chain that    *)
(* changes it is an action; one that fails leaves the chain as it is.      *)
(***************************************************************************)
EXTENDS Chain

CONSTANTS
    Nodes,
    Genesises,      \* the difficulties a chain may be created with
    Policies,       \* retarget policies users choose from
    BlockSizes,     \* values of MaxTxPerBlock
    Orders,         \* payments users ask for: from whom, to whom, how much
    TxPool,         \* transactions other callers of AddTransaction submit
    Difficulties,   \* difficulties users may schedule
    BlockNonces,    \* nonces a search may come back with
    MaxHeight,      \* bound: height of a chain
    MaxPending,     \* bound: length of a pending pool before a submission
    MaxRules,       \* bound: rules in a difficulty schedule
    MaxRequests,    \* bound: how often users ask for the same faucet payment
    MaxTime         \* bound: the clock

ASSUME BoundsAssumption == {MaxHeight, MaxPending, MaxRules, MaxRequests, MaxTime} \subseteq Nat \ {0}
\* A timestamp is an int64.
ASSUME ClockAssumption == MaxTime <= MaxInt
ASSUME DifficultyAssumption ==
    Genesises \subseteq Int /\ Difficulties \subseteq Int
ASSUME BlockSizeAssumption == BlockSizes \subseteq Int
ASSUME BlockNonceAssumption == BlockNonces \subseteq Nat
ASSUME OrderAssumption ==
    Orders \subseteq [from : Accounts \ Unreadable, to : Accounts \cup {Blank}, amount : Int]
ASSUME PolicyAssumption ==
    Policies \subseteq [enabled : BOOLEAN, interval : Int, target : Int, min : Int, max : Int]
ASSUME TxPoolAssumption ==
    TxPool \subseteq [sender : Accounts \cup {Blank}, recipient : Accounts \cup {Blank},
                      amount : Int, nonce : Nat, signature : {tx.signature : tx \in TxPool}]

VARIABLES
    chain,      \* the chain of each node
    now,        \* the wall clock in seconds, one for all nodes
    requested   \* history: how often each faucet payment was accepted from a user

vars == <<chain, now, requested>>

FaucetPayments ==
    {FaucetTx(order.to, order.amount) : order \in {o \in Orders : o.from = Faucet}}
        \cup {tx \in TxPool : tx.sender = Faucet}

Update(n, c) == chain' = [chain EXCEPT ![n] = c]

-----------------------------------------------------------------------------
AddTransaction(n, tx) ==
    /\ Len(chain[n].pending) < MaxPending
    /\ tx.sender = Faucet => requested[tx] < MaxRequests
    /\ CanAdd(chain[n], tx)
    /\ Update(n, AddPending(chain[n], tx))
    /\ requested' = IF tx.sender = Faucet
                    THEN [requested EXCEPT ![tx] = @ + 1] ELSE requested
    /\ UNCHANGED now

(* cmdFaucet *)
FaucetGrant(n, order) ==
    /\ order.from = Faucet
    /\ AddTransaction(n, FaucetTx(order.to, order.amount))

(* cmdSend, of a wallet that the store holds. *)
Send(n, order) ==
    /\ order.from # Faucet
    /\ PendingLedger(chain[n]) # Rejected
    /\ AddTransaction(n, SendTx(chain[n], order.from, order.to, order.amount))

(* MineBlock, when Block.Mine comes back with a nonce. *)
MineBlock(n) ==
    /\ Height(chain[n]) < MaxHeight
    /\ chain[n].pending # <<>>
    /\ \E nonce \in BlockNonces : Update(n, Mined(chain[n], now, nonce))
    /\ UNCHANGED <<now, requested>>

SetDifficulty(n, difficulty) ==
    /\ difficulty \in 0 .. MaxDifficulty64
    /\ Cardinality(DOMAIN WithDifficulty(chain[n], difficulty).schedule) <= MaxRules
    /\ Update(n, WithDifficulty(chain[n], difficulty))
    /\ UNCHANGED <<now, requested>>

(* Mutant: the policy may change later than at genesis. *)
ConfigureRetargetAnytime(n, policy) ==
    /\ ValidRetarget(policy)
    /\ Update(n, [chain[n] EXCEPT !.retarget = policy])
    /\ UNCHANGED <<now, requested>>

ConfigureRetarget(n, policy) ==
    /\ Len(chain[n].blocks) = 1
    /\ ValidRetarget(policy)
    /\ Update(n, [chain[n] EXCEPT !.retarget = policy])
    /\ UNCHANGED <<now, requested>>

(* cmdResolveFork: the candidate is what the other node's file holds. *)
ResolveFork(n, m) ==
    /\ CanAdopt(chain[n], RoundTrip(chain[m]))
    /\ Update(n, Adopted(chain[n], RoundTrip(chain[m])))
    /\ UNCHANGED <<now, requested>>

Tick ==
    /\ now < MaxTime
    /\ now' = now + 1
    /\ UNCHANGED <<chain, requested>>

NewChains ==
    {NewChain(q[1], q[2], q[3]) :
        q \in {p \in Genesises \X Policies \X BlockSizes : CanCreate(p[1], p[2])}}

Init ==
    /\ chain \in [Nodes -> NewChains]
    /\ now = 1
    /\ requested = [tx \in FaucetPayments |-> 0]

Next ==
    \/ \E n \in Nodes, tx \in TxPool : AddTransaction(n, tx)
    \/ \E n \in Nodes, order \in Orders : FaucetGrant(n, order) \/ Send(n, order)
    \/ \E n \in Nodes : MineBlock(n)
    \/ \E n \in Nodes, d \in Difficulties : SetDifficulty(n, d)
    \/ \E n \in Nodes, r \in Policies : ConfigureRetarget(n, r)
    \/ \E n, m \in Nodes : ResolveFork(n, m)
    \/ Tick

Spec == Init /\ [][Next]_vars

(***************************************************************************)
(* A wall clock that an administrator or NTP may set back: NewBlock takes  *)
(* its timestamp from time.Now().Unix().                                   *)
(***************************************************************************)
SetClockBack ==
    /\ now > 1
    /\ now' \in 1 .. now - 1
    /\ UNCHANGED <<chain, requested>>

WallClockSpec == Init /\ [][Next \/ SetClockBack]_vars

(* A process ends and the next one loads the file, if Load accepts it. *)
Restart(n) ==
    /\ Valid(RoundTrip(chain[n]))
    /\ Update(n, RoundTrip(chain[n]))
    /\ UNCHANGED <<now, requested>>

RestartSpec == Init /\ [][Next \/ \E n \in Nodes : Restart(n)]_vars

-----------------------------------------------------------------------------
(* Properties *)

Confirmed(n) == Transactions(chain[n].blocks)

Occurrences(tx, txs) == Cardinality({i \in DOMAIN txs : txs[i] = tx})

(* Chains, schedules and policies have their types.                            *)
TypeOK ==
    /\ now \in 1 .. MaxTime
    /\ DOMAIN chain = Nodes
    /\ \A n \in Nodes : LET c == chain[n] IN
          /\ DOMAIN c = {"blocks", "pending", "schedule", "retarget", "maxTx"}
          /\ Len(c.blocks) \in 1 .. MaxHeight + 1
          /\ \A i \in DOMAIN c.pending : c.pending[i].recipient \in Accounts
          /\ \A h \in DOMAIN c.schedule : h \in 0 .. MaxHeight + 1 /\ c.schedule[h] \in 0 .. MaxDifficulty64
          /\ c.retarget \in Policies /\ c.maxTx > 0

(* Chain.Validate accepts every chain that legal operations build: a schedule   *)
(* change, a policy change or an adopted fork never makes a mined block differ  *)
(* from the difficulty that is recomputed for it, and no mined batch fails to   *)
(* replay.  This is what lets the next process load the file.                   *)
AlwaysValid == \A n \in Nodes : Valid(chain[n])

(* The pending pool always applies after the confirmed blocks, in its order:    *)
(* AddTransaction never reports "invalid pending pool", and MineBlock, which    *)
(* does not look, never mines a transaction that Validate would reject.         *)
PendingReplays == \A n \in Nodes : PendingLedger(chain[n]) # Rejected

(* Money is neither made nor lost but by the faucet, whichever payments of two  *)
(* forks were joined, up to what an int64 cannot hold; and nobody owes any as   *)
(* long as an int64 holds all that the faucet has given.                        *)
Conservation ==
    \A n \in Nodes :
        LET balance == PendingLedger(chain[n]).balance
            minted  == Minted(Confirmed(n) \o chain[n].pending)
        IN  /\ Wrap(Total(balance)) = Wrap(minted)
            /\ minted <= MaxInt => \A a \in Accounts : balance[a] >= 0

(* README, replay protection: in a chain and its pool a sender uses a nonce     *)
(* once, whatever forks were adopted and whoever submits a payment again.       *)
NoReplay ==
    \A n \in Nodes :
        LET txs == Confirmed(n) \o chain[n].pending IN
        \A i, j \in DOMAIN txs :
            i < j /\ txs[i].sender = txs[j].sender /\ txs[i].sender # Faucet =>
                txs[i].nonce < txs[j].nonce

(* Whatever is pooled already, each account can still send all it has left: the *)
(* nonce that the send command picks and the balance it is checked against      *)
(* belong together.                                                             *)
SpendableIsSendable ==
    \A n \in Nodes, order \in Orders :
        LET c == chain[n] IN
        order.from # Faucet /\ order.to # order.from /\ order.to # Blank =>
            \A amount \in 1 .. PendingLedger(c).balance[order.from] :
                CanAdd(c, SendTx(c, order.from, order.to, amount))

(* Above the common ancestor that resolvefork reports two chains have no hash   *)
(* in common, and up to it their blocks have the same text: a hash stands for   *)
(* the whole history that leads to it, of blocks that repeat no transaction.  A *)
(* block that repeats its last ones may share its hash with another.            *)
ForkPointIsShared ==
    \A n, m \in Nodes :
        LET ancestor == CommonAncestorHeight(chain[n], chain[m]) IN
        \A i \in DOMAIN chain[n].blocks, j \in DOMAIN chain[m].blocks :
            LET block == chain[n].blocks[i]  other == chain[m].blocks[j] IN
            /\ block.hash = other.hash <=> i = j /\ i <= ancestor + 1
            /\ /\ block.hash = other.hash
               /\ IsInjective(Texts(block.transactions))
               /\ IsInjective(Texts(other.transactions))
               => [block EXCEPT !.transactions = Texts(@)] = [other EXCEPT !.transactions = Texts(@)]

(* A node's confirmed history only grows, or is replaced by one of more work    *)
(* that shares its genesis.                                                     *)
HistoryKept ==
    [][\A n \in Nodes :
          \/ IsPrefix(chain[n].blocks, chain'[n].blocks)
          \/ /\ TotalWork(chain'[n]) > TotalWork(chain[n])
             /\ chain'[n].blocks[1] = chain[n].blocks[1]]_vars

(* A difficulty once used stays: where two chains share a history nothing that  *)
(* a node does - a rule, a policy, a retarget, a fork that is adopted - changes *)
(* the difficulty expected of a height in it, nor of the first height above the *)
(* fork: both branches were judged alike.                                       *)
PastDifficultyFixed ==
    [][\A n \in Nodes : LET c == chain[n]  d == chain'[n] IN
          \A i \in DOMAIN c.blocks \cap DOMAIN d.blocks :
              (\A k \in 1 .. i - 1 : c.blocks[k].hash = d.blocks[k].hash) =>
                  ExpectedDifficulty(d, i - 1) = ExpectedDifficulty(c, i - 1)]_vars

(* A node keeps its own consensus policy, whichever chain it adopts: no block   *)
(* exceeds the size it was created with, its policy stays once it has mined,    *)
(* and the rules of mined heights stay.  Validate knows nothing of block sizes. *)
PolicyKept ==
    [][\A n \in Nodes : LET c == chain[n]  d == chain'[n] IN
          /\ \A i \in DOMAIN d.blocks : Len(d.blocks[i].transactions) <= c.maxTx
          /\ Height(c) > 0 => d.retarget = c.retarget
          /\ RestrictDomain(d.schedule, LAMBDA h : h <= Height(c))
                = RestrictDomain(c.schedule, LAMBDA h : h <= Height(c))]_vars

(* The height the retarget command announces is the next one at which mining    *)
(* will retarget.                                                               *)
NextRetargetAnnounced ==
    \A n \in Nodes : LET c == chain[n] IN
        c.retarget.enabled =>
            /\ ShouldRetarget(c, NextRetargetHeight(c))
            /\ NextRetargetHeight(c) > Height(c)
            /\ \A h \in Height(c) + 1 .. NextRetargetHeight(c) - 1 : ~ShouldRetarget(c, h)

(* Without a manual rule the difficulty only moves at a retarget height, and    *)
(* then by one, or back to the nearest bound of the policy when a manual rule   *)
(* or the start had put it outside.                                             *)
RetargetIsGradual ==
    \A n \in Nodes : LET c == chain[n] IN \A h \in 1 .. Height(c) :
        h \notin DOMAIN c.schedule =>
            LET before == BlockAt(c, h - 1).difficulty
                after  == BlockAt(c, h).difficulty
            IN  \/ after = before
                \/ /\ ShouldRetarget(c, h)
                   /\ after \in c.retarget.min .. c.retarget.max
                   /\ \/ after - before \in {-1, 1}
                      \/ before > c.retarget.max /\ after = c.retarget.max
                      \/ before < c.retarget.min /\ after = c.retarget.min

(* The difficulty follows the time of the window: it rises only after a window  *)
(* of less than half the time it should take, and stays only after one that was *)
(* no faster, or at a bound.  As long as twice the time fits an int64 it falls  *)
(* only after a window of more than that, and stays only after one that was no  *)
(* slower.  Where twice the time wraps, a window at the right pace may count as *)
(* slow; one that was too fast still may not.                                   *)
RetargetFollowsWindow ==
    \A n \in Nodes : LET c == chain[n]  r == c.retarget IN \A h \in 1 .. Height(c) :
        h \notin DOMAIN c.schedule /\ ShouldRetarget(c, h) =>
            LET before   == BlockAt(c, h - 1).difficulty
                after    == BlockAt(c, h).difficulty
                actual   == BlockAt(c, h - 1).time - BlockAt(c, h - r.interval).time
                expected == (r.interval - 1) * r.target
                fast     == actual < expected \div 2
                slow     == actual > expected * 2
            IN  /\ expected <= MaxInt =>
                      /\ after > before => fast \/ before < r.min
                      /\ after < before => ~fast \/ before > r.max
                      /\ after = before => ~fast \/ before \in {r.min, r.max}
                /\ expected * 2 <= MaxInt =>
                      /\ after < before => slow \/ before > r.max
                      /\ after = before => ~slow \/ before \in {r.min, r.max}

(* Mistakes in a transaction, in the list of a block (one changed, left out,    *)
(* repeated at the end, or swapped with the next) and in a block.               *)
TxEdits(tx) ==
    {[tx EXCEPT !.sender = Faucet], [tx EXCEPT !.recipient = Faucet], [tx EXCEPT !.amount = @ + 1],
     [tx EXCEPT !.nonce = @ + 1], [tx EXCEPT !.signature = Unsigned]}

ListEdits(txs) ==
    (UNION {{[txs EXCEPT ![k] = tx] : tx \in TxEdits(txs[k])} : k \in DOMAIN txs})
    \cup {RemoveAt(txs, k) : k \in DOMAIN txs}
    \cup {Append(txs, txs[k]) : k \in DOMAIN txs}
    \cup {[txs EXCEPT ![k] = txs[k + 1], ![k + 1] = txs[k]] : k \in 1 .. Len(txs) - 1}

BlockEdits(b) ==
    {[b EXCEPT !.height = @ + 1], [b EXCEPT !.time = @ - 1], [b EXCEPT !.difficulty = @ + 1],
     [b EXCEPT !.nonce = @ + 1], [b EXCEPT !.hash = b.prev], [b EXCEPT !.prev = b.hash],
     [b EXCEPT !.root = HashPair(@, @)]}
        \cup {[b EXCEPT !.transactions = txs] : txs \in ListEdits(b.transactions)}

WithBlock(c, i, b) == [c EXCEPT !.blocks[i] = b]

(* Chains with a block left out, repeated or swapped with the next.             *)
Rearranged(c) ==
    {[c EXCEPT !.blocks = RemoveAt(@, i)] : i \in 1 .. Len(c.blocks) - 1}
    \cup {[c EXCEPT !.blocks = InsertAt(@, i, @[i])] : i \in DOMAIN c.blocks}
    \cup {[c EXCEPT !.blocks[i] = c.blocks[i + 1], !.blocks[i + 1] = c.blocks[i]] :
              i \in 1 .. Len(c.blocks) - 1}

(* A block with its root and hash computed anew.                                *)
Resealed(b) == Sealed([b EXCEPT !.root = MerkleRoot(b.transactions)])

(* What no hash tells apart: blocks of the same text but for faucet payments    *)
(* that one of them repeats at its end, where an odd level repeats them too.    *)
Repeats(txs, others) ==
    \A k \in DOMAIN txs :
        IF k \in DOMAIN others THEN TransactionText(txs[k]) = TransactionText(others[k])
        ELSE /\ txs[k].sender = Faucet
             /\ \E j \in DOMAIN others : TransactionText(txs[k]) = TransactionText(others[j])

Indistinct(b, other) ==
    /\ [b EXCEPT !.transactions = <<>>] = [other EXCEPT !.transactions = <<>>]
    /\ Repeats(b.transactions, other.transactions)
    /\ Repeats(other.transactions, b.transactions)

(* What its owner may make of the latest block: it has its place, and no signed *)
(* payment that was not in it.                                                  *)
Rewritten(b, other) ==
    /\ b.height = other.height /\ b.prev = other.prev /\ b.difficulty = other.difficulty
    /\ \A k \in DOMAIN b.transactions :
          b.transactions[k].sender # Faucet =>
              \E j \in DOMAIN other.transactions :
                  TransactionText(b.transactions[k]) = TransactionText(other.transactions[j])

(* README, tamper evidence and signatures: Validate, and so the next process    *)
(* that loads the chain, refuses each of these mistakes, be the block sealed    *)
(* anew or not, with two exceptions.  A block may repeat a faucet payment at    *)
(* its end without a change of its root.  The latest block, when it is sealed   *)
(* anew, is only held by its link, its difficulty and the signatures in it.     *)
(* Chains are looked at when they are at their longest; the pool is no part.    *)
EditsAreCaught ==
    \A n \in Nodes : LET c == chain[n] IN
        Height(c) = MaxHeight /\ c.pending = <<>> =>
            /\ \A edited \in Rearranged(c) : ~Valid(edited)
            /\ \A i \in DOMAIN c.blocks : \A b \in BlockEdits(c.blocks[i]) :
                  /\ Valid(WithBlock(c, i, b)) => Indistinct(b, c.blocks[i])
                  /\ Valid(WithBlock(c, i, Resealed(b))) =>
                        \/ Indistinct(Resealed(b), c.blocks[i])
                        \/ i = Len(c.blocks) /\ Rewritten(b, c.blocks[i])

(* A chain that was saved can be loaded (chain_test.go, TestSaveAndLoadRoundTrip). *)
SavedChainLoads == \A n \in Nodes : Valid(RoundTrip(chain[n]))

(* README: pending pools are merged, deduplicated and revalidated against the   *)
(* new chain.  A faucet payment is confirmed no more often than it was asked.   *)
FaucetPaidOnce ==
    \A n \in Nodes, tx \in FaucetPayments : Occurrences(tx, Confirmed(n)) <= requested[tx]
==========================================================================
