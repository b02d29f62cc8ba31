------------------------------ MODULE Chain ------------------------------
(***************************************************************************)
(* The rules of a chain (chain/chain.go, retarget.go, fork.go) as          *)
(* operators on a chain record: its blocks, pending transactions,          *)
(* difficulty schedule, retarget policy and block size.  Node.tla holds    *)
(* the state machine that applies them.                                    *)
(*                                                                         *)
(* A hash is modelled by what is hashed: equal hashes mean equal texts.    *)
(* No nonce search happens here: a block with any nonce may turn out to    *)
(* meet its difficulty (see Mining.tla).                                   *)
(***************************************************************************)
EXTENDS Ledger, Merkle

GenesisPrevHash == <<>>
DefaultDifficulty == 4
MaxDifficulty64 == 64
DefaultMaxTxPerBlock == 10

Texts(txs) == [i \in DOMAIN txs |-> TransactionText(txs[i])]

(* CalculateMerkleRoot of a block's transactions, each hashed as JSON text. *)
MerkleRoot(txs) == CalculateMerkleRoot(Texts(txs))

(* Mutant: the root is not hashed. *)
ComputeHashRootless(b) == <<b.height, b.time, b.prev, b.nonce, b.difficulty>>

ComputeHash(b) == <<b.height, b.time, b.root, b.prev, b.nonce, b.difficulty>>

(* A block whose hash has been computed, as Mine leaves it. *)
Sealed(b) == [b EXCEPT !.hash = ComputeHash(b)]

(***************************************************************************)
(* A mutant is an operator that says what the definition after it might    *)
(* have got wrong (see README); no specification uses it.                  *)
(***************************************************************************)

(* Blocks are numbered from 0 in the code and from 1 in a sequence. *)
BlockAt(c, height) == c.blocks[height + 1]
Height(c) == c.blocks[Len(c.blocks)].height
Latest(c) == c.blocks[Len(c.blocks)]

-----------------------------------------------------------------------------
(* Difficulty: manual rules and automatic retargeting *)

(* RetargetConfig.Validate *)
ValidRetarget(r) ==
    /\ r.interval >= 2
    /\ r.target > 0
    /\ r.min \in 0 .. MaxDifficulty64
    /\ r.max \in 0 .. MaxDifficulty64
    /\ r.min <= r.max

ShouldRetarget(c, height) ==
    /\ c.retarget.enabled
    /\ height > c.retarget.interval
    /\ (height - 1) % c.retarget.interval = 0

(* Mutant: the first window is counted from genesis. *)
FirstRetargetHeightEarly(c) == c.retarget.interval

FirstRetargetHeight(c) == c.retarget.interval + 1

(* NextRetargetHeight, which the retarget command shows; -1 when disabled. *)
NextRetargetHeight(c) ==
    LET interval == c.retarget.interval
        next     == Height(c) + 1
        first    == FirstRetargetHeight(c)
        offset   == (next - first) % interval
    IN  CASE ~c.retarget.enabled -> -1
          [] c.retarget.enabled /\ next <= first -> first
          [] OTHER -> IF offset = 0 THEN next ELSE next + (interval - offset)

(* Mutant: no upper bound. *)
ClampedBelow(r, difficulty) == IF difficulty < r.min THEN r.min ELSE difficulty

(* The policy's bounds, the lower one first. *)
Clamped(r, difficulty) ==
    LET atLeast == IF difficulty < r.min THEN r.min ELSE difficulty
    IN  IF atLeast > r.max THEN r.max ELSE atLeast

(* Division of int64 values rounds toward zero. *)
Half(x) == IF x >= 0 THEN x \div 2 ELSE -(-x \div 2)

(* int64(Interval-1) * TargetBlockSeconds *)
ExpectedSeconds(r) == Wrap((r.interval - 1) * r.target)

ActualSeconds(c, height) ==
    Wrap(BlockAt(c, height - 1).time - BlockAt(c, height - c.retarget.interval).time)

(* Mutant: the two directions are swapped. *)
AdjustedBackwards(r, actual, current) ==
    IF actual < Half(ExpectedSeconds(r)) THEN current - 1
    ELSE IF actual > Wrap(ExpectedSeconds(r) * 2) THEN current + 1
    ELSE current

(* Harder after a window that was too fast, easier after one too slow. *)
Adjusted(r, actual, current) ==
    IF actual < Half(ExpectedSeconds(r)) THEN current + 1
    ELSE IF actual > Wrap(ExpectedSeconds(r) * 2) THEN current - 1
    ELSE current

(***************************************************************************)
(* The difficulty for a height from the time its window took: the interval *)
(* blocks before it, none of them genesis.  A window that is not mined     *)
(* yet leaves the difficulty alone.                                        *)
(***************************************************************************)
RetargetDifficulty(c, height, current) ==
    IF height - c.retarget.interval < 1 \/ height > Len(c.blocks) THEN current
    ELSE Clamped(c.retarget, Adjusted(c.retarget, ActualSeconds(c, height), current))

(***************************************************************************)
(* The schedule maps the heights that have a manual rule to the difficulty *)
(* it sets; the code sorts its list of rules wherever it reads it, and     *)
(* SetDifficulty never adds a second rule for a height.                    *)
(***************************************************************************)
FirstDifficulty(c) == IF 0 \in DOMAIN c.schedule THEN c.schedule[0] ELSE DefaultDifficulty

DifficultyAfter(c, height, before) ==
    IF height \in DOMAIN c.schedule THEN c.schedule[height]
    ELSE IF ShouldRetarget(c, height) THEN RetargetDifficulty(c, height, before)
    ELSE before

ExpectedDifficulty(c, height) ==
    LET difficulty[h \in 0 .. height] ==
          IF h = 0 THEN FirstDifficulty(c) ELSE DifficultyAfter(c, h, difficulty[h - 1])
    IN  IF height < 0 THEN DefaultDifficulty ELSE difficulty[height]

-----------------------------------------------------------------------------
(* Validation *)

ValidGenesis(b) == b.height = 0 /\ b.prev = GenesisPrevHash

Follows(b, previous) ==
    /\ b.height = previous.height + 1
    /\ b.time >= previous.time
    /\ b.prev = previous.hash

(* What a block must be in itself: its root, its hash and its difficulty. *)
Intact(b) == b.root = MerkleRoot(b.transactions) /\ b.hash = ComputeHash(b)

Linked(blocks) ==
    /\ blocks # <<>>
    /\ ValidGenesis(blocks[1])
    /\ \A i \in 2 .. Len(blocks) : Follows(blocks[i], blocks[i - 1])

(***************************************************************************)
(* Chain.Validate: the pending pool and the size of blocks are not looked  *)
(* at.  The code goes block by block and stops at the first mistake; the   *)
(* verdict is that of the conjunction.                                     *)
(***************************************************************************)
Valid(c) ==
    /\ c.blocks # <<>> /\ DOMAIN c.schedule # {}
    /\ ValidRetarget(c.retarget)
    /\ Linked(c.blocks)
    /\ \A i \in DOMAIN c.blocks :
          /\ Intact(c.blocks[i])
          /\ c.blocks[i].difficulty = ExpectedDifficulty(c, c.blocks[i].height)
          /\ c.blocks[i].difficulty \in 0 .. MaxDifficulty64     \* MeetsDifficulty
    /\ Rebuild(c.blocks) # Rejected

-----------------------------------------------------------------------------
(* Persistence *)

BlockRead(b) ==
    [b EXCEPT !.transactions = [i \in DOMAIN @ |-> TransactionRead(@[i])]]

(* What json.Unmarshal makes of what json.Marshal wrote: Save and Load, and *)
(* cloneChain.                                                              *)
RoundTrip(c) ==
    [c EXCEPT !.blocks  = [i \in DOMAIN @ |-> BlockRead(@[i])],
              !.pending = [i \in DOMAIN @ |-> TransactionRead(@[i])]]

-----------------------------------------------------------------------------
(* Operations *)

(* NewGenesisBlock *)
Genesis(difficulty) ==
    Sealed([height |-> 0, time |-> 0, transactions |-> <<>>, root |-> EmptyRoot,
            prev |-> GenesisPrevHash, difficulty |-> difficulty, nonce |-> 0, hash |-> <<>>])

(* NewWithRetarget, in which a value out of range asks for the default. *)
StartDifficulty(difficulty) == IF difficulty < 0 THEN DefaultDifficulty ELSE difficulty

CanCreate(difficulty, retarget) ==
    ValidRetarget(retarget) /\ StartDifficulty(difficulty) \in retarget.min .. retarget.max

NewChain(difficulty, retarget, maxTx) ==
    [blocks   |-> <<Genesis(StartDifficulty(difficulty))>>,
     pending  |-> <<>>,
     schedule |-> [h \in {0} |-> StartDifficulty(difficulty)],
     retarget |-> retarget,
     maxTx    |-> IF maxTx <= 0 THEN DefaultMaxTxPerBlock ELSE maxTx]

PendingLedger(c) == Replay(NewLedger, Transactions(c.blocks) \o c.pending)

(* Mutant: the pending pool is left out. *)
CanAddIgnoringPool(c, tx) ==
    LET ledger == Rebuild(c.blocks)
    IN  ledger # Rejected /\ CanApply(ledger, tx)

(* The checks of AddTransaction: chain, pending pool, then the transaction. *)
CanAdd(c, tx) ==
    LET ledger == PendingLedger(c)
    IN  ledger # Rejected /\ CanApply(ledger, tx)

AddPending(c, tx) == [c EXCEPT !.pending = Append(@, tx)]

(* Mutant: the nonce is taken from the confirmed transactions alone. *)
SendTxConfirmed(c, from, recipient, amount) ==
    Signed(from, recipient, amount, NextNonce(Rebuild(c.blocks), from))

(* cmdSend: the transaction it signs, its nonce after those in the pool. *)
SendTx(c, from, recipient, amount) ==
    Signed(from, recipient, amount, NextNonce(PendingLedger(c), from))

(* cmdFaucet *)
FaucetTx(recipient, amount) ==
    [sender |-> Faucet, recipient |-> recipient, amount |-> amount, nonce |-> 0,
     signature |-> Unsigned]

Batch(c) == SubSeq(c.pending, 1, IF Len(c.pending) > c.maxTx THEN c.maxTx ELSE Len(c.pending))

(* Mutant: a block takes over the difficulty of the latest one. *)
NextDifficultyUnscheduled(c) == Latest(c).difficulty

NextDifficulty(c) == ExpectedDifficulty(c, Height(c) + 1)

(* NewBlock and Mine: the block with the nonce that the search found. *)
NewBlock(c, time, nonce) ==
    Sealed([height       |-> Height(c) + 1,
            time         |-> time,
            transactions |-> Batch(c),
            root         |-> MerkleRoot(Batch(c)),
            prev         |-> Latest(c).hash,
            difficulty   |-> NextDifficulty(c),
            nonce        |-> nonce,
            hash         |-> <<>>])

Mined(c, time, nonce) ==
    [c EXCEPT !.blocks  = Append(@, NewBlock(c, time, nonce)),
              !.pending = SubSeq(@, Len(Batch(c)) + 1, Len(@))]

(* Mutant: the rule starts one height too late. *)
WithDifficultyLate(c, difficulty) ==
    [c EXCEPT !.schedule = [h \in DOMAIN @ \cup {Height(c) + 2} |->
                               IF h = Height(c) + 2 THEN difficulty ELSE @[h]]]

(* SetDifficulty: the rule for the next height, replacing one that is there. *)
WithDifficulty(c, difficulty) ==
    LET next == Height(c) + 1
    IN  [c EXCEPT !.schedule = [h \in DOMAIN @ \cup {next} |->
                                   IF h = next THEN difficulty ELSE @[h]]]

-----------------------------------------------------------------------------
(* Forks *)

Work(difficulties) == MapThenSumSet(LAMBDA i : 16 ^ difficulties[i], DOMAIN difficulties)

TotalWork(c) == Work([i \in DOMAIN c.blocks |-> c.blocks[i].difficulty])

(* The last height at which both store the same hash, -1 if there is none. *)
CommonAncestorHeight(c, candidate) ==
    LET shared == {k \in (0 .. Len(c.blocks)) \cap (0 .. Len(candidate.blocks)) :
                      \A i \in 1 .. k : c.blocks[i].hash = candidate.blocks[i].hash}
    IN  IF Max(shared) = 0 THEN -1 ELSE c.blocks[Max(shared)].height

(* Mutant: the block size is not compared. *)
SameConsensusAnySize(c, d) == c.retarget = d.retarget /\ c.schedule = d.schedule

(* Mutant: the manual rules are not compared. *)
SameConsensusAnySchedule(c, d) == c.retarget = d.retarget /\ c.maxTx = d.maxTx

SameConsensus(c, d) ==
    /\ c.retarget = d.retarget
    /\ c.maxTx = d.maxTx
    /\ c.schedule = d.schedule

(* Mutant: a candidate of equal work wins. *)
StrongerOrEqual(candidate, c) == TotalWork(candidate) >= TotalWork(c)

Stronger(candidate, c) == TotalWork(candidate) > TotalWork(c)

(* The checks of ResolveFork, in the code's order. *)
CanAdopt(c, candidate) ==
    /\ Valid(c)
    /\ Valid(candidate)
    /\ c.blocks[1].hash = candidate.blocks[1].hash
    /\ SameConsensus(c, candidate)
    /\ Stronger(candidate, c)

(* Mutant: transactions are not checked against the adopted chain. *)
OfferedUnchecked(c, pool, tx) == Append(pool, tx)

(* AddTransaction on the adopted chain, whose pool has grown to this. *)
Offered(c, pool, tx) ==
    IF CanAdd([c EXCEPT !.pending = pool], tx) THEN Append(pool, tx) ELSE pool

(***************************************************************************)
(* revalidatePending: each distinct transaction is offered once, in order, *)
(* told apart by its text, and kept when AddTransaction accepts it.        *)
(***************************************************************************)
OfferedOnce(c, txs, i, pool) ==
    IF \E j \in 1 .. i - 1 : TransactionText(txs[j]) = TransactionText(txs[i])
    THEN pool ELSE Offered(c, pool, txs[i])

Revalidated(c, txs) ==
    LET pool[i \in 0 .. Len(txs)] ==
          IF i = 0 THEN <<>> ELSE OfferedOnce(c, txs, i, pool[i - 1])
    IN  pool[Len(txs)]

(* What ResolveFork makes of c: a copy of the candidate, with both pools. *)
Adopted(c, candidate) ==
    LET copy == RoundTrip(candidate)
    IN  [copy EXCEPT !.pending = Revalidated(copy, copy.pending \o c.pending)]
==========================================================================
