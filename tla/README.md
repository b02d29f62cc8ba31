# Toy blockchain: a TLA+ verification project

TLA+ models of the toy blockchain in `src/`, the TLC instances that check them,
and theorems about them that TLAPS proves. Paths and line numbers below refer
to the repository's sources.

## 1. The system

| Component | Source | State it keeps | Operations |
|---|---|---|---|
| Proof-of-work search | `block/block.go` 309-469 | per call: workers' nonces, an atomic attempt counter and flag, a one-slot result channel, the `workersDone` channel, a cancellable context, the block's `Nonce` and `Hash` | `Block.Mine`, used by `NewGenesisBlock` and `Chain.MineBlock` |
| Transactions, hashing, signatures | `block/block.go` 32-260 | none | `Sign`, `VerifySignature`, `Validate`, `ComputeHash`, `MeetsDifficulty` |
| Merkle root and proofs | `block/merkle.go`, `block/merkle_proof.go` | none | `CalculateMerkleRoot`, `GenerateMerkleProof`, `VerifyMerkleProof` |
| Ledger | `ledger/ledger.go` | balances and nonces, always rebuilt from blocks | `ValidateTransaction`, `Apply`, `ApplyBlock`, `Rebuild` |
| Chain | `chain/chain.go` | blocks, pending pool, difficulty schedule, retarget policy, block size | `NewWithRetarget`, `AddTransaction`, `MineBlock`, `SetDifficulty`, `ExpectedDifficulty`, `Validate` |
| Retargeting | `chain/retarget.go` | the policy, in the chain | `ConfigureRetarget`, `NextRetargetHeight`, the window arithmetic |
| Forks | `chain/fork.go` | none of its own | `TotalWork`, `ResolveFork`, `revalidatePending` |
| Wallet store | `cli/cli.go` 25-97, 227-301 | `wallets.json`, `wallets.json.tmp` | `loadWalletStore`, `save`, `wallet-create` |
| Persistence, file lock | `chain/chain.go` 421-593 | `chain.json`, `chain.json.tmp`, `chain.json.lock` | `Save`, `Load`, `AcquireFileLock`, `Release` |
| Process, prompt | `main.go`, `cli/cli.go` 122-198, 695-735 | the chain in memory | one command per process, or a REPL that saves after each |
| CLI commands | `cli/cli.go` | none | parsing, calls of the above, printing |

Interaction: `main` takes the lock, loads or creates the chain, and gives it to
`cli`, whose commands call `chain`; `chain` replays transactions with `ledger`
and mines with `block`. Inside `Mine` goroutines share memory and channels.
Processes share files only: the chain file under its lock, other nodes' chain
files, which `resolvefork` reads, and the wallet file, which has no lock of its
own and may be shared by processes that work on different chain files.

What is hard here, and what makes each part correct:

* **Search.** Workers, the waiting goroutine, the caller and the caller's
  context interleave freely. No nonce may be hashed twice (the loop variable is
  a `uint64` that can wrap), a solution found just before the end must not be
  lost, limits must hold for all workers together, each error must mean what it
  says, and nothing may keep running.
* **Chain rules.** A block's difficulty is recomputed from a schedule, a policy
  and earlier timestamps whenever a chain is loaded. Any sequence of legal
  operations must leave a chain that validates, a pool that applies, conserved
  money and no replayed payment, adoption of forks included.
* **Comparison by hash.** Forks are compared, and tampering is noticed, by
  hashes over Merkle roots over JSON text. What a root and a hash tell apart, and
  whether the text is the same after a round trip through the file, decides what
  may be concluded from them.
* **Files.** Processes may be killed, fail in any step of a save, or lose power;
  the chain file must stay whole and no update may be lost. The wallet file is
  saved with less care, and keeps its wallets under conditions worth knowing.

## 2. Modules

| Module | Models | Role |
|---|---|---|
| `MineCall` | `Block.Mine` as its caller sees it | abstract specification |
| `Mining` | `Block.Mine` with all its goroutines | implements `MineCall` |
| `Merkle` | the Merkle tree | operators, used by the next and by `Chain` |
| `MerkleInclusion` | root, proof and verification, loop by loop | state machine |
| `Ledger` | transactions, their JSON text, the ledger | operators on ledgers |
| `Chain` | chain, retarget and fork rules | operators on chain records |
| `Node` | owners of chain files and their operations | state machine over `Chain` |
| `Session` | lock, save, load, process life cycle, crashes | state machine |
| `KeyStore` | what the wallet commands promise | abstract specification |
| `WalletStore` | the wallet file and the processes that create wallets | implements `KeyStore` |
| `MCMining`, `MCMerkle`, `MCNode`, `MCSession`, `MCWalletStore` | | instances for TLC |
| `MiningProofs`, `MerkleInclusionProofs`, `SessionProofs`, `WalletStoreProofs` | | theorems about the machine of that name |
| `Recursion` | | lemmas on recursive functions, for the next three |
| `MerkleProofs`, `ChainProofs`, `NodeProofs` | | theorems about the Merkle tree, chains and ledgers, and `Node`, each on top of the one before |

### Mining and MineCall

A step of `Mining` is what one goroutine does between two accesses to shared
state, so every interleaving that matters is a behaviour. `pc[w]` follows the
body of the worker loop (lines 359-408): `poll` the context, `count` the
attempt, `copy` the block, `hash`, `send`, `cancel`. `main` follows the select
loop. The two-way race at `select` is the choice between `MainReceive`,
`MainContextEnded` and `MainWorkersDone`. `job.solutions` stands for SHA-256:
the nonces whose hash has enough zeroes, an arbitrary set. The end of the
caller's context is `EndContext`; that it reaches the derived context a moment
later is `PropagateCancel`; a context derived from one that has ended is done
at once (`MainSpawn`). `tried` is history: it is never read by an action.

`MineCall` has three actions: the context ends, the call succeeds with a
solution within the limit, or it fails with an error that is justified. Its
variables are the puzzle, the context, the block and the outcome; `Mining`
instantiates it with the block as it is seen when the call returns.

### Merkle and MerkleInclusion

A hash is what is hashed, as a nested tuple: of a leaf the transaction, of a
node the pair of its children. `Parents` is one level of the loop, `Padded` the
repetition of the last hash of an odd level, `Top` the level reached so far.
`MerkleInclusion` runs the loops of
`CalculateMerkleRoot`, `GenerateMerkleProof` and `VerifyMerkleProof` one
iteration a step, over lists, an index and a claim that are chosen at the start:
the proof may be made for another list than the block, for an index out of
range, or for another transaction than the claimed one. Where the code keeps
only the last level and position, the model keeps all of them, which is what the
proofs talk about. `CalculateMerkleRoot` exists as an operator too, which `Chain`
uses. `RootIsReference` compares the loop with a definition that knows no loop:
the tree as a whole, whose nodes of a height cover so many leaves each.

### Ledger, Chain and Node

`Ledger` and `Chain` are operators, one for each function of the code, on
records with the code's fields; `Node` gives each node a chain and has an action
for each operation that changes one. A failing call leaves the chain as it was
and is no step. That `MineBlock` is one step rests on `MineCall`: a failed search
changes nothing, and a successful one appends one block, with any nonce of
`BlockNonces`.

* *Hashes.* A block stores `root`, `prev` and `hash` as the code does, and
  `Validate` recomputes and compares them. `ComputeHash` is the tuple of the
  hashed fields, `MerkleRoot` the tree over the transactions' texts.
* *Text.* What is signed, hashed and saved is JSON. A name that is not UTF-8
  (`Unreadable`) is written as an escape and read back as another name
  (`ReadBack`), whose text is the character and not the escape. `RoundTrip` is a
  chain after `Save` and `Load`.
* *Signatures.* A signature is the key that made it and the text it signs, and an
  address is the account of a key. `CanAdd` has the checks of `Validate`,
  `VerifySignature` and the ledger in the order of the code.
* *Numbers.* Balances and the retarget window are computed in an int64 that wraps
  (`Wrap`); `MaxInt` is its width.
* *Schedule.* The difficulty schedule is a function from start heights, as
  `SetDifficulty` replaces the rule of a height and readers sort the list.
  `ExpectedDifficulty` is a recursive function of the height.
* *Creation.* `NewChain` has the defaults of `NewWithRetarget` for a negative
  difficulty and a block size that is not positive, and `CanCreate` its errors.

`AddTransaction` is any caller of that function, `FaucetGrant` and `Send` the
commands that make their transaction from the chain. The candidate of
`ResolveFork` is another node's chain as its file holds it after its last
command; `CommonAncestorHeight` is what the command reports. `SetClockBack` and
`Restart` belong to specifications of their own (`WallClockSpec`,
`RestartSpec`), because each of them shows something that goes wrong.

### Session

Processes run `main` on one chain file. `lock` is the lock file and its
creator, `tmp` and `file` the temporary and the chain file with a flag that
says whether the content has been synced, `disk` what the chain file's name
leads to after a power loss before the directory is written back. A chain is
the set of updates that are in it (`has`) and, as history, of those that were
replaced when a fork was adopted (`gone`): the command of `RunCommand` adds an
update and keeps any subset of the others, as `resolvefork` may, whose candidate
is a file of which the model knows nothing. Updates that reach the file may thus
leave it, and `NoLostUpdate` says how they may: `ComesFrom` allows only those to
be missing that were in the chain of the process when it adopted another. `Save`
is four steps, each of which can fail and after each of which the process can die.
`Interrupt` is Ctrl+C without a handler. `DeleteStaleLock` is the manual deletion
the repository's README asks for; it assumes an operator who only deletes the lock
of a dead process.

### WalletStore and KeyStore

`wallet-create` loads the wallet file, adds a key, and saves: it opens
`wallets.json.tmp`, writes, and renames, without a sync and without a lock.
Processes on the same chain file are kept apart by that file's lock (`Start`);
others meet. A process whose temporary file was renamed by another writes on
into the wallet file (`handle`), over what it holds (`Overwritten`). `disk` is
the set of contents a power loss may leave. Names are written in the order of
their bytes, and of two that are read back alike the later one wins (`AsRead`).

`disturbed` becomes true when a command starts while another is under way, or
power fails before the kernel has written back. Until then the file implements
`KeyStore`: a name is given a key once and keeps it, and a wallet that was
reported is there. The promise is for the names that no unreadable name is
read back as (`Plain`).

`SettledStay` is about all the rest: commands that overlap, any power loss, and
all names. `InPlay` are the stores that the wallet file holds or may come to
hold: its content, what a power loss would leave, a temporary file that a command
may rename, and what commands are about to save. A wallet that all of them have
stays in all of them. So an overlap, or a power loss, costs wallets created
meanwhile, and no others; and a name that is not UTF-8 costs at most the wallet of
the name that it is read back as.

### Mutants

Beside some definitions stands a *mutant*: an operator that says what the code
might plausibly have got wrong there. No specification uses it. For every
property of every passing run there is one mutant with which TLC finds the
property violated when it replaces the definition (listed in `PROJECT.json`).
This shows that the properties notice mistakes.

## 3. Runs

| Run | Instance | What it shows |
|---|---|---|
| `MiningSafety` | 3 workers, nonces 0..7, every puzzle with at most one solution and two with two, with and without `MaxNonce` and `MaxAttempts` | `NoNonceHashedTwice`, `SealedOrUntouched`, `NoSolutionLost`, `LeastOfItsStride`, `ExhaustedMeansSearched`, `AttemptBudget`; `Mining` implements `MineCall`, liveness included; it returns and leaves no goroutine |
| `MerkleInclusion` | every pair of lists of up to five transactions of two kinds, every index and claim | `ProofVerifies` for its transaction alone, `AcceptedIsIncluded`, `RootIsReference` (a tree given as a whole), `CollisionsRepeatTheEnd` (which lists share a root) |
| `NodeForks` | 2 nodes, heights to 3, block sizes 1 and the default, payments that conflict and depend on each other, a policy with a window of 2 | `AlwaysValid`, `PendingReplays`, `Conservation`, `NoReplay`, `SpendableIsSendable`, `ForkPointIsShared`, `EditsAreCaught`, `HistoryKept`, `PolicyKept`, `PastDifficultyFixed` |
| `NodeRetarget` | 1 node, windows of 2 and 3, heights to 5, clock to 6 | difficulties over two windows: `AlwaysValid`, `NextRetargetAnnounced`, `RetargetIsGradual`, `RetargetFollowsWindow` |
| `SessionSafety` | 2 one-shot processes and a prompt, one update each, power may fail | `MutualExclusion`, `FileIntact`, `SuccessIsSaved`, `NoLostUpdate`, `OneShotEnds` |
| `WalletStore` | 3 processes on 2 chain files, 5 names of which 2 are not UTF-8, one key each, power may fail | `ImplementsKeyStore`; `SettledStay` whatever overlaps or fails; `DamageStays`: an unreadable file is never replaced by a command that finds it so |

Six further runs each check one statement of the repository that the code does
not keep (`findings` in `PROJECT.json` quotes them):

| Run | Statement | What the code does |
|---|---|---|
| `MiningNoDataRace` | copying the block keeps mining race-free | the caller writes `Nonce` and `Hash` while a slower worker copies the block; the values are not used |
| `MiningCancelled` | a cancelled call returns `ErrMiningCancelled` | it may return `ErrMaxNonce`: two channels are ready |
| `NodeFaucet` | pools are deduplicated and revalidated | a faucet payment the adopted chain has confirmed is queued and paid again |
| `NodeClock` | a chain built by the program validates | after the clock was set back it does not, and the file no longer loads |
| `NodeEncoding` | a saved chain can be loaded | a recipient that is not UTF-8, mined before the chain was saved, changes the root that is recomputed |
| `SessionStaleLock` | errors and Ctrl+C release the lock | `os.Exit` and the default signal action run no deferred call |

One statement is too strong without a run of its own: the reported attempt count
is not "exact" (README.md 234-235), as attempts are counted before they are made;
`AttemptBudget` bounds the difference by the number of workers. The same
property says that `MaxAttempts` is a hard cap, for limits below the largest
`uint64` minus the number of workers: above that the counter can wrap.

### Bounds

* `NumWorkers`, `MaxUint`: 3 does not divide 8, so strides end at different
  distances from the top of the nonce space, and every worker passes the
  overflow guard. Of the two-solution puzzles, 1 and 4 lie in the same stride of
  3 workers, and 1 and 2 are found by different workers, who then compete for
  the channel. A `MaxAttempts` of 4 drives the counter to its top.
* `MaxLength` 5: levels of 5, 3 and 2 hashes, so odd levels of two heights, and
  a sibling that is its own repetition on each.
* `MaxHeight` 3 and `MaxPending` 2 allow forks of different length and weight
  and an adoption in either direction; block size 1 leaves part of a pool
  behind, and 0 asks for the default. The orders of `MCForkOrders` compete for
  the same nonce and balance; `MCForkTxPool` has a payment that anyone may submit
  again and one signed with the wrong key. `MaxRules` bounds the schedule,
  `MaxRequests` how often the same faucet payment is asked for, `BlockNonces`
  the nonces a search may come back with.
* `MaxHeight` 5 with a window of 2 reaches the retargets at heights 3 and 5;
  `MaxTime` 6 lets a window be faster than half and slower than twice the
  target. With `MaxInt` 10 the expected time of the policy `Long` fits an int64 and
  twice that does not, and with `Huge` the expected time itself wraps.
  `MCRetargetPolicies` has a policy that `Validate` refuses, and difficulty 65 is
  one `SetDifficulty` refuses.
* `MaxCommands` 1 for three processes: a lost update needs two writers.
* `MaxKeys` 1 for three processes: two commands that overlap and one that comes
  after. Of the five names, two are read back as a third that sorts between them.
* `EditsAreCaught` looks at chains of `MaxHeight` whose pool is empty: every
  shorter chain is a part of one, `Validate` does not read the pool beyond
  replaying it, and the theorem is about all chains. Blocks of the default size
  have a lone grant, whose repetition keeps the root, and lists of two, which do
  not.
* The policy in `NodeForks` retargets at height 3, which a fork below it may
  decide: two branches with different times then expect different difficulties,
  and `PastDifficultyFixed` is about those they must agree on.
* `MaxInt` 4 in `NodeForks`: two of the grants fit, a third, which only an
  adoption can add (see `NodeFaucet`), makes a balance wrap. In the other runs
  balances stay below it.

Deadlock is not checked where the system stops by itself: when a call has
returned or is answered, when heights and clock are at their bounds, and when
all processes have ended.

### Fairness

`Mining!FairSpec` assumes that the Go scheduler runs each goroutine that can
take a step, and that the end of a context reaches its children. Nobody has to
end a context: the search ends by its limits or the end of the nonce space.
`Session!FairSpec` assumes that a one-shot process that can take a step takes
one; the wait for the lock has a deadline, so it can always. A prompt waits for
its user and gets no fairness. `Node` and `WalletStore` have none: no user has to
do anything.

## 4. Proofs

TLAPS proves the following for every value of the constants that satisfies the
assumptions declared in the modules. No backend takes anything on trust.

* `MiningProofs`: `TypeOK`, `NoNonceHashedTwice`, `SealedOrUntouched`,
  `NoSolutionLost`, `ExhaustedMeansSearched`, `LeastOfItsStride` and
  `AttemptBudget` are invariants of `Mining!Spec`; one worker makes genesis
  deterministic; and `Mining!Spec` implements `MineCall!SafeSpec`. The assumptions
  are at least one worker and no more workers than the largest `uint64`.
* `MerkleProofs`: lists of any lengths with a root in common agree as far as both
  go, and what the longer one has beyond is in the shorter one too (`RootsAgree`).
  So a root stands for one list of a length, and for one list without
  repetitions.
* `MerkleInclusionProofs`: `TypeOK`, `ProofVerifies`, `AcceptedIsIncluded`,
  `CollisionsRepeatTheEnd` and `RootIsReference` are invariants, for lists of any
  length.
* `SessionProofs`: `TypeOK`, `MutualExclusion`, `FileIntact` and
  `SuccessIsSaved` are invariants of `Session!Spec`, and `NoLostUpdate` holds,
  for any sets of processes and any number of commands. The assumptions say that
  the markers for torn and absent files are not chains.
* `WalletStoreProofs`: `TypeOK`, `SettledStay`, `DamageStays`, and that
  `WalletStore` implements `KeyStore`. The assumptions say that the markers are
  not stores, that a name is read back as one that is UTF-8, and that `Rank` orders
  the names.
* `NodeProofs`: `TypeOK`, `AlwaysValid`, `PendingReplays`, `Conservation`,
  `NoReplay`, `SpendableIsSendable`, `ForkPointIsShared`, `EditsAreCaught`,
  `NextRetargetAnnounced`, `RetargetIsGradual` and `RetargetFollowsWindow` are
  invariants of `Node!Spec`, and `HistoryKept`, `PastDifficultyFixed` and
  `PolicyKept` hold of its steps. `HistoryIsSealed` says more than
  `EditsAreCaught` of blocks below the latest: whatever block is put in the place of
  one, and be it sealed anew, `Validate` refuses the chain unless the block says
  the same but for grants repeated at its end.

Four theorems of `NodeProofs` say how far the findings about `Node` go. Their
hypotheses are the very things that the counterexamples need:

* `NodeEncoding`: a chain without names that are not UTF-8 comes back from its file
  as it was and is loaded (`ReadableChainsAreLoaded`), and where there are no such
  names at all a restart of the program changes nothing, so that all of the above
  and `SavedChainLoads` hold of `RestartSpec` (`RestartsAreHarmless`).
* `NodeClock`: `AlwaysValid` holds of `WallClockSpec`, however often the clock is
  set back, if no node mines before its clock has caught up with its latest block
  (`SlowClocksAreHarmless`).
* `NodeFaucet`: `FaucetPaidOnce` holds if nodes adopt chains only while no faucet
  payment waits in their own pool (`GrantsArePaidOnce`), and names are UTF-8 (the
  history counts a payment as it was asked for, not as it is read back). A payment
  that waits in the pool of the candidate does no harm.

The assumptions of `NodeProofs` are those of `Ledger`, `Chain` and `Node`: the
types of accounts, orders, submitted transactions and policies; that a timestamp
fits an int64 (`ClockAssumption`) and nonces of blocks are numbers
(`BlockNonceAssumption`, a `uint64`); that the accounts that are ever named are
finitely many (`AccountsAssumption`: a run of the program names finitely many, and
a sum over balances has no meaning otherwise); and that no name has for its text
what another is escaped to (`EscapeAssumption`: a backslash in a name is itself
escaped).

Every invariant and every action property that a passing run checks is thus
stated by a theorem, which makes each one true of all instances and not only of
the one in its `.cfg`.

### The arguments

None of these invariants is inductive by itself.

*Mining.* The strengthening relates each worker's nonce to its stride: it has
hashed what lies below in the stride and nothing else, and only its last nonce
can be a solution. From the lemmas on strides (they are disjoint, cover all
nonces, and the guard keeps the next nonce from wrapping) follows that nothing is
hashed twice; that a worker which stopped without being told to has finished its
stride gives exhaustion; and that a solution is, until the caller has it, in the
hands of a worker or in the channel gives that none is lost. For `AttemptBudget`
every increment of the counter is accounted for: it is a hash that was made (and,
as nothing is hashed twice, one more element of `tried`), one that a worker is
about to make, or the refusal of a worker that makes no other. With a limit, a
worker is only refused when all hashes are granted.

*Merkle.* The whole tower of levels is the invariant: each level is the parents
of the one below, the position on a level is half the one below, and the hash a
client has come to from the claim is the node at its position on its level just
when the claim is the leaf it started from. `Parents` is injective on lists of
one length, which carries an equality of roots down to the leaves.

For lists of different lengths two towers are compared from their tops. Hashes
nest, and a leaf is no pair, so towers with the same root have the same height;
and if two levels agree as far as both go, and each has only what the other has,
then so do the levels below, whose repeated last hash may account for one entry
more. That is `RootsAgree`, and the last three invariants on lists follow. For
`RootIsReference` the rows of the reference tree are a run of `Recursion`; that
rounding up twice is rounding up once by the double makes its widths those of the
tower, and so its rows the tower's levels.

*Session.* The process past the lock is the lock's creator, `tmp` holds what the
steps of `Save` have written, both views of the chain file are whole and synced,
and an opened chain comes from the file's: it has what the file has, or has
replaced it (`MemoryCoversFile`). As only the holder saves, what leaves the file
is what it replaced.

*WalletStore.* While nothing was disturbed at most one command is under way, what
it is about to write is the file with one name more, no other process has an open
file, and the wallet that is about to be reported is in the file. `SettledStay`
needs only the types, and each step looked at for the stores it brings into play:
opening empties a temporary file, writing puts there what the command was about
to save, a rename and a power loss choose among what was in play, and loading adds
one wallet to what was read from the file. `DamageStays` needs less: a command
that finds the file damaged does not start, and only a command writes.

*Node.* The models' loops (`Replay`, `ExpectedDifficulty`, `Revalidated`) are
recursive functions on `0 .. n`. `Recursion` proves that such a function exists, is
determined by its equations, and does not depend on how far it is run; as the
library's induction theorems take an operator, it derives an induction for sets
from the well-foundedness of `<` first. `ChainProofs` has what replaying a list of
transactions gives (it can be cut in two, a sender's nonces increase, balances
have types and a sum) and the facts on chains: extending one leaves the expected
difficulties of the blocks it has, what passes `Validate` is linked, and what comes
back from the revalidation of a pool replays. `NodeProofs` puts them together in
`Inv`: every chain of every node begins with a genesis block, has linked blocks
with their recomputed root and hash, of the expected difficulty, of allowed size,
none younger than the clock and none older than the one before; its schedule has
rules for mined heights and the next one only; its policy is valid; and its pool
replays. This is more than `Validate` looks at: that the next block passes needs
the pool, the clock and the schedule, that it keeps to the node's limits needs
the block size, and that an adopted chain is as good needs all of it of the other
node's chain, read back from its file. All invariants of `Node` follow from
`Inv` alone. That operations keep it is shown for any time that the clock has not
passed, so that the theorem on slow clocks uses the same lemma with a time that
never comes.

*Money.* The sum over a finite set is the library's, a recursion that takes any
element that is left. `ChainProofs` shows that the order does not matter, by an
induction over subsets, and that a sum with one entry changed is the sum changed
by as much. A payment then moves money, a grant makes some, and a wrapped addition
is congruent to the exact one modulo 2^64. That no balance is negative is not
inductive by itself: it holds as long as the grants so far fit an int64, and then
each balance, being at most the sum of all, has never wrapped.

*Hashes.* A block's hash has the root and the hash before it, so equal hashes go
back, block by block, to equal heights and equal roots, and `MerkleProofs` turns
these into equal texts. For `HistoryIsSealed` the hash of the block in question is
fixed by the next block, or by assumption, and `Valid` recomputes it from the
block that was put there: all hashed fields are thus the same, and the roots of
the two lists too. `RootsAgree` gives that the lists have the same texts as far as
both go, and that what one has beyond repeats an entry of the other. Such an entry
is a grant: a signed payment's nonce cannot be used twice in a list that replays.
For `EditsAreCaught` what is left is the latest block sealed anew. Its link and
its difficulty are recomputed, and a signed payment in it carries a text and a key
that some payment of the old block signed, as the edits invent no signature.

*Past difficulties.* `ExpectedDifficulty` of a height reads the rules up to it, the
policy, and the times of the blocks below, and equal hashes mean equal times. A
step that mines changes none of these for the heights there were, an adoption
compares rules and policy first, and a change of a rule or of the policy leaves the
blocks, each of which still records what is expected of it.

### What proving changed

* `ForkPointIsShared` said that blocks with one hash are equal. Two names that are
  not UTF-8 can have the same text, so a hash tells texts apart and no more, and
  the property says so now. No instance had two such names in one run.
* `RootIsReference` compared with a recursive function that asked, in branches
  that play no part in the result, for values outside its domain; such a function
  cannot be shown to exist. The rows of the tree now have the width they need.
* `Conservation` is stated with sums that have a name (`Total`, `Minted`).
* `EditsAreCaught` needed its two exceptions as soon as it changed lists and sealed
  what it changed: see "Conditions worth knowing".

### Only model-checked

Liveness (`Terminates`, `NoGoroutineLeak`, `OneShotEnds`, the fair part of
`RefinesMineCall`), which is out of the prover's reach. That the six findings are
reachable is, by its nature, TLC's to show.

### Conditions worth knowing

* `ForkPointIsShared` is about blocks that repeat no transaction: because an odd
  level repeats its last hash, a block that repeats its last transactions can have
  the same root and hash as one that does not. Only faucet payments can occur
  twice, and for one repeated at the end of a block in a file `Validate` finds
  nothing to object to: the root and all hashes stay as they were
  (`Indistinct`). Loading such a file credits the recipient twice.
* Nothing comes after the latest block. Who has the file can seal it anew with
  another time, other grants or fewer payments, as anyone can mine a block
  (`Rewritten`); payments that their sender did not sign cannot get in.
* Commands that create wallets and overlap, or a power loss, cost only wallets that
  were created meanwhile (`SettledStay`).
* `Conservation` says that the sum of all balances is what the faucet gave, in the
  arithmetic of an int64, and that no balance is negative as long as an int64
  holds what it gave: beyond, balances wrap without an error.
* With a policy whose expected time fits an int64 and twice that does not, a
  window at the right pace counts as slow and the difficulty falls
  (retarget.go:111); one that is too fast still counts as fast. Where the expected
  time itself wraps, only that the move is by one and within the bounds is
  promised, and that `Validate` recomputes it (`RetargetFollowsWindow`,
  `RetargetIsGradual`, `AlwaysValid`).
* `AttemptBudget` holds below the bound it names, where the counter wraps.

## 5. Not modelled

* SHA-256 and Ed25519, which are library code (a hash is its text, a signature
  its key and text), and the refusal of malformed hexadecimal in
  `VerifyMerkleProof` and of malformed keys and signatures.
* The parsing of arguments, the read-only commands, all printing, and the counts
  of kept and dropped transactions in the result of `ResolveFork`.
* Hand-edited chain files beyond the replacement of one block
  (`EditsAreCaught`, `HistoryIsSealed`) and the loss, repetition or exchange of
  one; an edited pool, schedule or policy.
* The failure of `Release` itself, which is a warning, and of `MkdirAll` for the
  chain file.
* The memory and time a search takes.

## 6. Plan

1. Done: the models of section 2, their runs, and a theorem for every safety
   property that a run checks.
2. The conditions under which the findings about `Mining` and `Session` cannot
   happen, as `NodeProofs` has them for `Node`: `StaleLockOnlyAfterKill` for
   processes that neither fail nor are interrupted while they hold the lock.
3. What a fork costs: that an adoption keeps every payment of the old pool that
   still applies.
