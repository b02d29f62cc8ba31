----------------------------- MODULE Mining -----------------------------
(***************************************************************************)
(* Block.Mine (block/block.go): the search for a nonce by NumWorkers       *)
(* goroutines, the goroutine that waits for them, the goroutine of the     *)
(* caller in its select loop, and the caller's context, which another      *)
(* goroutine or a timer may end at any moment.                             *)
(*                                                                         *)
(* A step is what one goroutine does between two accesses to shared state: *)
(* the mining context, the attempt counter, the shared block, the result   *)
(* channel.  SHA-256 is abstracted to job.solutions, the nonces whose hash *)
(* meets the block's difficulty.                                           *)
(***************************************************************************)
EXTENDS Integers, FiniteSets

CONSTANTS
    NumWorkers,   \* workerCount, after the defaults of lines 329-337
    MaxUint,      \* ^uint64(0)
    Jobs,         \* the calls considered: puzzle and limits
    NoHash,       \* the empty Block.Hash
    NoResult      \* an empty result channel

Workers == 0 .. NumWorkers - 1
Nonces  == 0 .. MaxUint
Ended   == {"cancelled", "deadline"}

JobSet == [difficultyOK : BOOLEAN, solutions : SUBSET Nonces,
           maxNonce : Nonces, maxAttempts : Nonces]

ASSUME WorkersAssumption == NumWorkers \in Nat \ {0}
ASSUME UintAssumption == MaxUint \in Nat /\ NumWorkers <= MaxUint
ASSUME JobsAssumption == Jobs \subseteq JobSet
ASSUME NoHashAssumption == NoHash \notin Nonces
ASSUME NoResultAssumption == NoResult \notin Nonces

VARIABLES
    job,          \* the call: its puzzle and its MiningLimits
    ctx,          \* the caller's context
    miningDone,   \* miningContext is done
    pc,           \* where each worker is
    nonce,        \* each worker's loop variable
    attempts,     \* the shared atomic counter
    maximumAttemptsReached,
    resultChannel,\* its one buffered slot
    workersDone,  \* the channel is closed
    main,         \* where the caller's goroutine is
    received,     \* the worker's result the caller holds
    blk,          \* the shared block's Nonce and Hash
    outcome,      \* what Mine returned
    tried         \* history: the nonces each worker has hashed

workerVars == <<pc, nonce, attempts, maximumAttemptsReached, tried>>
mainVars   == <<main, received, blk, outcome>>
vars == <<job, ctx, miningDone, resultChannel, workersDone, workerVars, mainVars>>

Tried == UNION {tried[w] : w \in Workers}

(***************************************************************************)
(* Call gives the caller's view of the run: the block and the outcome      *)
(* change together when Mine returns, as nobody else looks at the block    *)
(* while Mine runs.                                                        *)
(***************************************************************************)
Unmined == [nonce |-> 0, hash |-> NoHash]

Call == INSTANCE MineCall WITH
            blk <- IF outcome.status = "mined" THEN blk ELSE Unmined,
            outcome <- [status |-> outcome.status, nonce |-> outcome.nonce]

Candidates == 0 .. (IF job.maxNonce > 0 THEN job.maxNonce ELSE MaxUint)

-----------------------------------------------------------------------------
(* The caller's context *)

EndContext ==
    /\ ctx = "live"
    /\ ctx' \in Ended
    /\ UNCHANGED <<job, miningDone, resultChannel, workersDone, workerVars, mainVars>>

(***************************************************************************)
(* context.WithCancel: the end of the parent reaches the child a moment    *)
(* later, when it comes during the call.                                   *)
(***************************************************************************)
PropagateCancel ==
    /\ main # "start" /\ ctx \in Ended /\ ~miningDone
    /\ miningDone' = TRUE
    /\ UNCHANGED <<job, ctx, resultChannel, workersDone, workerVars, mainVars>>

-----------------------------------------------------------------------------
(***************************************************************************)
(* The arithmetic of a worker's loop.  Beside some definitions stands a    *)
(* mutant, an operator that says what the code might have got wrong: TLC   *)
(* finds the property that notices when the mutant takes the definition's  *)
(* place (see README).  No specification uses a mutant.                    *)
(***************************************************************************)

(* Mutant: a worker skips the first nonce of its stride. *)
FirstNonceSkipped(w) == (w + NumWorkers) % (MaxUint + 1)

FirstNonce(w) == w

(* Mutant: MaxNonce is ignored. *)
PastMaxNonceIgnored(w) == nonce[w] > MaxUint

(* Mutant: MaxNonce itself is not tried. *)
PastMaxNonceEarly(w) == job.maxNonce > 0 /\ nonce[w] >= job.maxNonce

PastMaxNonce(w) == job.maxNonce > 0 /\ nonce[w] > job.maxNonce

(* Mutant: the attempt that reaches the limit is not made. *)
OverBudgetEarly(count) == job.maxAttempts > 0 /\ count >= job.maxAttempts

OverBudget(count) == job.maxAttempts > 0 /\ count > job.maxAttempts

(* Mutant: the loop variable wraps. *)
OverflowsUnnoticed(w) == nonce[w] > MaxUint

Overflows(w) == nonce[w] > MaxUint - NumWorkers

FollowingNonce(w) == (nonce[w] + NumWorkers) % (MaxUint + 1)

-----------------------------------------------------------------------------
(* The workers *)

Goto(w, label) == pc' = [pc EXCEPT ![w] = label]

(* The check of miningContext at the head of the loop. *)
WorkerPoll(w) ==
    /\ pc[w] = "poll"
    /\ Goto(w, IF miningDone THEN "done" ELSE "count")
    /\ UNCHANGED <<job, ctx, miningDone, resultChannel, workersDone, mainVars,
                   nonce, attempts, maximumAttemptsReached, tried>>

WorkerPastMaxNonce(w) ==
    /\ pc[w] = "count"
    /\ PastMaxNonce(w)
    /\ Goto(w, "done")
    /\ UNCHANGED <<job, ctx, miningDone, resultChannel, workersDone, mainVars,
                   nonce, attempts, maximumAttemptsReached, tried>>

(* attempts.Add, a 64-bit counter, and the test of its new value. *)
WorkerCount(w) ==
    /\ pc[w] = "count"
    /\ ~PastMaxNonce(w)
    /\ attempts' = (attempts + 1) % (MaxUint + 1)
    /\ Goto(w, IF OverBudget(attempts') THEN "capped" ELSE "copy")
    /\ UNCHANGED <<job, ctx, miningDone, resultChannel, workersDone, mainVars,
                   nonce, maximumAttemptsReached, tried>>

(* The flag, then cancel(): only the caller reads the flag, after workersDone. *)
WorkerCapped(w) ==
    /\ pc[w] = "capped"
    /\ maximumAttemptsReached' = TRUE
    /\ miningDone' = TRUE
    /\ Goto(w, "done")
    /\ UNCHANGED <<job, ctx, resultChannel, workersDone, mainVars,
                   nonce, attempts, tried>>

(***************************************************************************)
(* candidate := *b reads the shared block.  The copy's Nonce is overwritten *)
(* and its Hash is not hashed, so what was read does not matter afterwards. *)
(***************************************************************************)
WorkerCopy(w) ==
    /\ pc[w] = "copy"
    /\ Goto(w, "hash")
    /\ UNCHANGED <<job, ctx, miningDone, resultChannel, workersDone, mainVars,
                   nonce, attempts, maximumAttemptsReached, tried>>

(* A hash that misses: stop before the nonce overflows, or go on by step. *)
WorkerMiss(w) ==
    /\ pc[w] = "hash"
    /\ nonce[w] \notin job.solutions
    /\ tried' = [tried EXCEPT ![w] = @ \cup {nonce[w]}]
    /\ IF Overflows(w)
       THEN Goto(w, "done") /\ UNCHANGED nonce
       ELSE /\ Goto(w, "poll")
            /\ nonce' = [nonce EXCEPT ![w] = FollowingNonce(w)]
    /\ UNCHANGED <<job, ctx, miningDone, resultChannel, workersDone, mainVars,
                   attempts, maximumAttemptsReached>>

WorkerHit(w) ==
    /\ pc[w] = "hash"
    /\ nonce[w] \in job.solutions
    /\ tried' = [tried EXCEPT ![w] = @ \cup {nonce[w]}]
    /\ Goto(w, "send")
    /\ UNCHANGED <<job, ctx, miningDone, resultChannel, workersDone, mainVars,
                   nonce, attempts, maximumAttemptsReached>>

(* Mutant: a send that waits for room in the channel. *)
WorkerSendBlocking(w) ==
    /\ pc[w] = "send"
    /\ resultChannel = NoResult
    /\ resultChannel' = nonce[w] /\ Goto(w, "cancel")
    /\ UNCHANGED <<job, ctx, miningDone, workersDone, mainVars,
                   nonce, attempts, maximumAttemptsReached, tried>>

(* The send that never blocks: the first result wins, a later one is dropped. *)
WorkerSend(w) ==
    /\ pc[w] = "send"
    /\ IF resultChannel = NoResult
       THEN resultChannel' = nonce[w] /\ Goto(w, "cancel")
       ELSE UNCHANGED resultChannel /\ Goto(w, "done")
    /\ UNCHANGED <<job, ctx, miningDone, workersDone, mainVars,
                   nonce, attempts, maximumAttemptsReached, tried>>

WorkerCancel(w) ==
    /\ pc[w] = "cancel"
    /\ miningDone' = TRUE
    /\ Goto(w, "done")
    /\ UNCHANGED <<job, ctx, resultChannel, workersDone, mainVars,
                   nonce, attempts, maximumAttemptsReached, tried>>

Worker(w) ==
    \/ WorkerPoll(w) \/ WorkerPastMaxNonce(w) \/ WorkerCount(w) \/ WorkerCapped(w)
    \/ WorkerCopy(w) \/ WorkerMiss(w) \/ WorkerHit(w) \/ WorkerSend(w)
    \/ WorkerCancel(w)

(* Mutant: the channel is only closed once mining is cancelled. *)
CloseWorkersDoneIfCancelled ==
    /\ main # "start" /\ ~workersDone /\ miningDone
    /\ \A w \in Workers : pc[w] = "done"
    /\ workersDone' = TRUE
    /\ UNCHANGED <<job, ctx, miningDone, resultChannel, workerVars, mainVars>>

(* workerGroup.Wait, then close(workersDone). *)
CloseWorkersDone ==
    /\ main # "start" /\ ~workersDone
    /\ \A w \in Workers : pc[w] = "done"
    /\ workersDone' = TRUE
    /\ UNCHANGED <<job, ctx, miningDone, resultChannel, workerVars, mainVars>>

-----------------------------------------------------------------------------
(* The caller's goroutine *)

(* Every return of Mine runs the deferred cancel(). *)
Return(status, n, count) ==
    /\ main' = "returned"
    /\ outcome' = [status |-> status, nonce |-> n, attempts |-> count]
    /\ miningDone' = TRUE

MainRejectDifficulty ==
    /\ main = "start" /\ ~job.difficultyOK
    /\ main' = "returned"
    /\ outcome' = [status |-> "ErrDifficulty", nonce |-> 0, attempts |-> 0]
    /\ UNCHANGED <<job, ctx, miningDone, resultChannel, workersDone, workerVars,
                   received, blk>>

(* WithCancel of a context that has ended already gives a context that is done. *)
MainSpawn ==
    /\ main = "start" /\ job.difficultyOK
    /\ main' = "select"
    /\ miningDone' = (ctx \in Ended)
    /\ pc' = [w \in Workers |-> "poll"]
    /\ UNCHANGED <<job, ctx, resultChannel, workersDone, nonce, attempts,
                   maximumAttemptsReached, tried, received, blk, outcome>>

(* Mutant: the second look takes an empty channel for a result. *)
MainReceiveUnchecked ==
    /\ main \in {"select", "recheck"}
    /\ main = "select" => resultChannel # NoResult
    /\ received' = resultChannel
    /\ resultChannel' = NoResult
    /\ main' = "write"
    /\ UNCHANGED <<job, ctx, miningDone, workersDone, workerVars, blk, outcome>>

(* The receive, in the select loop or in the second look after workersDone. *)
MainReceive ==
    /\ main \in {"select", "recheck"}
    /\ resultChannel # NoResult
    /\ received' = resultChannel
    /\ resultChannel' = NoResult
    /\ main' = "write"
    /\ UNCHANGED <<job, ctx, miningDone, workersDone, workerVars, blk, outcome>>

MainWriteBlock ==
    /\ main = "write"
    /\ blk' = [nonce |-> received, hash |-> received]
    /\ main' = "report"
    /\ UNCHANGED <<job, ctx, miningDone, resultChannel, workersDone, workerVars,
                   received, outcome>>

MainReturnResult ==
    /\ main = "report"
    /\ Return("mined", received, attempts)
    /\ UNCHANGED <<job, ctx, resultChannel, workersDone, workerVars, received, blk>>

(* Mutant: every end of the context is reported as a timeout. *)
MainContextTimedOut ==
    /\ main = "select" /\ ctx \in Ended
    /\ Return("ErrMiningTimeout", 0, 0)
    /\ UNCHANGED <<job, ctx, resultChannel, workersDone, workerVars, received, blk>>

MainContextEnded ==
    /\ main = "select" /\ ctx \in Ended
    /\ Return(IF ctx = "deadline" THEN "ErrMiningTimeout" ELSE "ErrMiningCancelled", 0, 0)
    /\ UNCHANGED <<job, ctx, resultChannel, workersDone, workerVars, received, blk>>

MainWorkersDone ==
    /\ main = "select" /\ workersDone
    /\ main' = "recheck"
    /\ UNCHANGED <<job, ctx, miningDone, resultChannel, workersDone, workerVars,
                   received, blk, outcome>>

(* Mutant: no second look at the channel. *)
MainGiveUpAtOnce ==
    /\ main = "recheck"
    /\ Return(IF maximumAttemptsReached THEN "ErrMaxAttempts" ELSE "ErrMaxNonce", 0, 0)
    /\ UNCHANGED <<job, ctx, resultChannel, workersDone, workerVars, received, blk>>

MainGiveUp ==
    /\ main = "recheck"
    /\ resultChannel = NoResult
    /\ Return(IF maximumAttemptsReached THEN "ErrMaxAttempts" ELSE "ErrMaxNonce", 0, 0)
    /\ UNCHANGED <<job, ctx, resultChannel, workersDone, workerVars, received, blk>>

Main ==
    \/ MainRejectDifficulty \/ MainSpawn \/ MainReceive \/ MainWriteBlock
    \/ MainReturnResult \/ MainContextEnded \/ MainWorkersDone \/ MainGiveUp

-----------------------------------------------------------------------------
Init ==
    /\ job \in Jobs
    /\ ctx \in {"live", "cancelled", "deadline"}
    /\ miningDone = FALSE
    /\ pc = [w \in Workers |-> "idle"]
    /\ nonce = [w \in Workers |-> FirstNonce(w)]
    /\ attempts = 0
    /\ maximumAttemptsReached = FALSE
    /\ resultChannel = NoResult
    /\ workersDone = FALSE
    /\ main = "start"
    /\ received = NoResult
    /\ blk = Unmined
    /\ outcome = [status |-> "pending", nonce |-> 0, attempts |-> 0]
    /\ tried = [w \in Workers |-> {}]

Next ==
    \/ EndContext
    \/ PropagateCancel
    \/ \E w \in Workers : Worker(w)
    \/ CloseWorkersDone
    \/ Main

(***************************************************************************)
(* Fairness: the Go scheduler runs every runnable goroutine, and the end   *)
(* of a context reaches its children.  Nothing makes a caller end its      *)
(* context.                                                                *)
(***************************************************************************)
Fairness ==
    /\ WF_vars(PropagateCancel)
    /\ \A w \in Workers : WF_vars(Worker(w))
    /\ WF_vars(CloseWorkersDone)
    /\ WF_vars(Main)

Spec == Init /\ [][Next]_vars
FairSpec == Spec /\ Fairness

-----------------------------------------------------------------------------
(* Properties *)

WorkerLabels == {"idle", "poll", "count", "capped", "copy", "hash", "send", "cancel", "done"}
MainLabels   == {"start", "select", "recheck", "write", "report", "returned"}
Statuses     == {"pending", "mined", "ErrDifficulty", "ErrMiningTimeout",
                 "ErrMiningCancelled", "ErrMaxAttempts", "ErrMaxNonce"}

(* Every variable has its type. *)
TypeOK ==
    /\ job \in Jobs
    /\ ctx \in {"live", "cancelled", "deadline"}
    /\ miningDone \in BOOLEAN
    /\ pc \in [Workers -> WorkerLabels]
    /\ nonce \in [Workers -> Nonces]
    /\ attempts \in Nonces
    /\ maximumAttemptsReached \in BOOLEAN
    /\ resultChannel \in Nonces \cup {NoResult}
    /\ workersDone \in BOOLEAN
    /\ main \in MainLabels
    /\ received \in Nonces \cup {NoResult}
    /\ blk \in [nonce : Nonces, hash : Nonces \cup {NoHash}]
    /\ outcome \in [status : Statuses, nonce : Nonces, attempts : Nonces]
    /\ tried \in [Workers -> SUBSET Nonces]

Hashing(w) == pc[w] \in {"copy", "hash"}

(* "No two workers ever hash the same nonce" (README, Concurrent mining), and   *)
(* no worker hashes one twice, the wrap of the uint64 loop variable included:   *)
(* a worker about to hash holds a nonce no one has hashed or is about to hash.  *)
NoNonceHashedTwice ==
    /\ \A v, w \in Workers : v # w => tried[v] \cap tried[w] = {}
    /\ \A w \in Workers : Hashing(w) => nonce[w] \notin Tried
    /\ \A v, w \in Workers : v # w /\ Hashing(v) /\ Hashing(w) => nonce[v] # nonce[w]

(* A mined block carries a nonce that solves the puzzle within MaxNonce, sealed *)
(* with the hash of that nonce; a failed call has not touched the block.        *)
SealedOrUntouched ==
    main = "returned" =>
        IF outcome.status = "mined"
        THEN /\ outcome.nonce \in job.solutions \cap Candidates
             /\ blk = [nonce |-> outcome.nonce, hash |-> outcome.nonce]
        ELSE blk = Unmined

(* The second look at the channel: Mine never gives up with ErrMaxAttempts or   *)
(* ErrMaxNonce after a worker found a solution, however late it was sent.       *)
NoSolutionLost ==
    outcome.status \in {"ErrMaxAttempts", "ErrMaxNonce"} => Tried \cap job.solutions = {}

(* ErrMaxNonce for a live context means that every candidate was hashed: no     *)
(* stride was cut short, none skipped at the top of the nonce space.            *)
ExhaustedMeansSearched ==
    outcome.status = "ErrMaxNonce" /\ ctx = "live" => Candidates \subseteq Tried

(* MaxAttempts is a hard cap on the hashes of all workers together, and the     *)
(* error of that name is only returned when the whole budget was spent; but for *)
(* limits so near the largest uint64 that the counter wraps before the last     *)
(* worker has noticed.  The count that Mine is about to report with a block     *)
(* misses no hash, and exceeds the hashes made by one a worker at most.         *)
AttemptBudget ==
    /\ job.maxAttempts \in 1 .. MaxUint - NumWorkers =>
          /\ Cardinality(Tried) <= job.maxAttempts
          /\ outcome.status = "ErrMaxAttempts" => Cardinality(Tried) = job.maxAttempts
    /\ main = "report" =>
          \E unhashed \in 0 .. NumWorkers :
              attempts = (Cardinality(Tried) + unhashed) % (MaxUint + 1)

(* The nonces worker w goes through: w, w + n, w + 2n, ...                      *)
Stride(w) == {m \in Nonces : \E k \in Nonces : m = w + k * NumWorkers}

(* A mined nonce is the least solution of its worker's stride; with the one     *)
(* worker of NewGenesisBlock it is the least solution of all, which makes the   *)
(* genesis block the same on every machine.                                     *)
LeastOfItsStride ==
    outcome.status = "mined" =>
        \A w \in Workers : outcome.nonce \in Stride(w) =>
            \A m \in Stride(w) \cap job.solutions : outcome.nonce <= m

(* The caller's view: Mine implements MineCall.                                 *)
RefinesMineCall == Call!Spec

(* Mine returns, and afterwards every goroutine it started ends.                *)
Terminates == <>(main = "returned")
NoGoroutineLeak == (main = "select") ~> [](workersDone /\ \A w \in Workers : pc[w] = "done")

(* README: "which is what keeps this race-free": no worker copies the block     *)
(* while the caller's goroutine writes its Nonce and Hash.                      *)
NoDataRace == main = "write" => \A w \in Workers : pc[w] # "copy"

(* block_test.go, TestMineCanBeCancelled: a call whose context is cancelled     *)
(* beforehand, and whose puzzle nobody solves, returns ErrMiningCancelled.      *)
CancelledBeforeCall ==
    ctx = "cancelled" /\ job.solutions = {} /\ job.difficultyOK
        => [](main = "returned" => outcome.status = "ErrMiningCancelled")
==========================================================================
