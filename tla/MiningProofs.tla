--------------------------- MODULE MiningProofs ---------------------------
(***************************************************************************)
(* Proofs about Mining: what Block.Mine guarantees for every number of     *)
(* workers, every width of the nonce and every call.                       *)
(***************************************************************************)
EXTENDS Mining, FiniteSetTheorems, TLAPS

-----------------------------------------------------------------------------
(* Arithmetic of the strides w, w + n, w + 2n, ... *)

(* A product grows by at least n with its factor. *)
LEMMA ProductStep ==
    ASSUME NEW j \in Nat, NEW k \in Nat, j < k
    PROVE  j * NumWorkers + NumWorkers <= k * NumWorkers
BY WorkersAssumption

(* Two members of a stride are a step apart or more. *)
LEMMA StrideGap ==
    ASSUME NEW w \in Workers, NEW a \in Stride(w), NEW b \in Stride(w), a < b
    PROVE  a + NumWorkers <= b
<1>1. PICK j \in Nonces : a = w + j * NumWorkers
  BY DEF Stride
<1>2. PICK k \in Nonces : b = w + k * NumWorkers
  BY DEF Stride
<1>3. j \in Nat /\ k \in Nat /\ w \in Nat /\ NumWorkers \in Nat
  BY WorkersAssumption, UintAssumption DEF Nonces, Workers
<1>4. j < k
  <2>1. SUFFICES ASSUME k <= j PROVE FALSE
    BY <1>3
  <2>2. k = j \/ k * NumWorkers + NumWorkers <= j * NumWorkers
    BY <1>3, <2>1, ProductStep
  <2>3. QED
    BY <1>1, <1>2, <1>3, <2>2
<1>5. QED
  BY <1>1, <1>2, <1>3, <1>4, ProductStep

(* The strides of two workers have no nonce in common. *)
LEMMA StridesDisjoint ==
    ASSUME NEW v \in Workers, NEW w \in Workers, NEW m \in Stride(v), m \in Stride(w)
    PROVE  v = w
<1>1. PICK j \in Nonces : m = v + j * NumWorkers
  BY DEF Stride
<1>2. PICK k \in Nonces : m = w + k * NumWorkers
  BY DEF Stride
<1>3. /\ j \in Nat /\ k \in Nat /\ v \in Nat /\ w \in Nat /\ NumWorkers \in Nat
      /\ v < NumWorkers /\ w < NumWorkers
  BY WorkersAssumption, UintAssumption DEF Nonces, Workers
<1>4. CASE j < k
  BY <1>1, <1>2, <1>3, <1>4, ProductStep
<1>5. CASE k < j
  BY <1>1, <1>2, <1>3, <1>5, ProductStep
<1>6. CASE j = k
  BY <1>1, <1>2, <1>3, <1>6
<1>7. QED
  BY <1>3, <1>4, <1>5, <1>6

(* Every nonce belongs to the stride of some worker. *)
LEMMA StridesCover ==
    ASSUME NEW m \in Nonces
    PROVE  \E w \in Workers : m \in Stride(w)
<1> DEFINE w == m % NumWorkers
           k == m \div NumWorkers
<1>1. m \in Nat /\ NumWorkers \in Nat \ {0}
  BY WorkersAssumption, UintAssumption DEF Nonces
<1>2. w \in Workers /\ k \in Nat /\ m = w + k * NumWorkers
  BY <1>1 DEF Workers
<1>3. k <= m
  <2>1. k <= k * NumWorkers
    <3>1. k = 0 \/ 0 * k + k <= NumWorkers * k
      BY <1>1, <1>2
    <3>2. QED
      BY <1>1, <1>2, <3>1
  <2>2. w \in Nat /\ k * NumWorkers \in Nat
    BY <1>1, <1>2 DEF Workers
  <2>3. QED
    BY <1>1, <1>2, <2>1, <2>2
<1>4. k \in Nonces
  BY <1>1, <1>2, <1>3, UintAssumption DEF Nonces
<1>5. QED
  BY <1>2, <1>4 DEF Stride

(* A stride starts at its worker's number. *)
LEMMA StrideStart ==
    ASSUME NEW w \in Workers
    PROVE  w \in Stride(w) /\ w \in Nonces /\ \A m \in Stride(w) : w <= m
<1>1. w \in Nonces /\ 0 \in Nonces /\ w = w + 0 * NumWorkers
  BY WorkersAssumption, UintAssumption DEF Workers, Nonces
<1>2. ASSUME NEW m \in Stride(w) PROVE w <= m
  <2>1. PICK k \in Nonces : m = w + k * NumWorkers
    BY DEF Stride
  <2>2. k * NumWorkers \in Nat
    BY WorkersAssumption, UintAssumption DEF Nonces
  <2>3. QED
    BY <2>1, <2>2, <1>1 DEF Nonces, Workers
<1>3. QED
  BY <1>1, <1>2 DEF Stride

(* Unless the overflow guard stops it, a worker's next nonce does not wrap and *)
(* is the next one of its stride.                                              *)
LEMMA StrideNext ==
    ASSUME NEW w \in Workers, NEW a \in Stride(w), a <= MaxUint - NumWorkers
    PROVE  /\ (a + NumWorkers) % (MaxUint + 1) = a + NumWorkers
           /\ a + NumWorkers \in Stride(w)
           /\ a + NumWorkers \in Nonces
<1>1. PICK k \in Nonces : a = w + k * NumWorkers
  BY DEF Stride
<1>2. /\ a \in Nat /\ k \in Nat /\ w \in Nat
      /\ NumWorkers \in Nat \ {0} /\ MaxUint \in Nat
  BY WorkersAssumption, UintAssumption DEF Stride, Nonces, Workers
<1>3. a + NumWorkers \in Nonces /\ (a + NumWorkers) % (MaxUint + 1) = a + NumWorkers
  BY <1>2 DEF Nonces
<1>4. a + NumWorkers = w + (k + 1) * NumWorkers
  BY <1>1, <1>2
<1>5. k + 1 \in Nonces
  <2>1. k <= k * NumWorkers
    <3>1. 1 < NumWorkers \/ NumWorkers = 1
      BY <1>2
    <3>2. k * NumWorkers = k + k * (NumWorkers - 1) /\ k * (NumWorkers - 1) \in Nat
      BY <1>2
    <3>3. QED
      BY <1>2, <3>2
  <2>2. k <= a
    BY <1>1, <1>2, <2>1
  <2>3. QED
    BY <1>2, <2>2 DEF Nonces
<1>6. QED
  BY <1>3, <1>4, <1>5 DEF Stride
-----------------------------------------------------------------------------
(* The inductive invariant *)

AfterHit == {"send", "cancel", "done"}

(* A worker's nonce is in its stride; it has hashed the nonces of its stride    *)
(* below, all of them and nothing else, and its current nonce when it has hit   *)
(* a solution or stopped at the top; and only a last nonce can be a solution.   *)
StrideOK(w) ==
    /\ nonce[w] \in Stride(w)
    /\ \A m \in Stride(w) : m < nonce[w] => m \in tried[w]
    /\ \A m \in tried[w] :
          /\ m \in Stride(w) /\ m \in Candidates
          /\ m < nonce[w] \/ (m = nonce[w] /\ pc[w] \in AfterHit)
          /\ m \in job.solutions => m = nonce[w] /\ pc[w] \in AfterHit
    /\ pc[w] \in {"copy", "hash"} => nonce[w] \in Candidates
    /\ pc[w] \in {"send", "cancel"} => nonce[w] \in tried[w] \cap job.solutions

StrideInv == \A w \in Workers : StrideOK(w)

(* What a worker that stopped without being told to has done: its stride.       *)
StrideFinished(w) ==
    \/ job.maxNonce > 0 /\ nonce[w] > job.maxNonce
    \/ nonce[w] \in tried[w] /\ nonce[w] > MaxUint - NumWorkers

SolutionTried == \E w \in Workers : tried[w] \cap job.solutions # {}

(* Why a worker may have stopped, and why it may have been told to.             *)
StopInv ==
    /\ \A w \in Workers : pc[w] = "done" =>
          miningDone \/ StrideFinished(w) \/ tried[w] \cap job.solutions # {}
    /\ miningDone =>
          \/ ctx \in Ended \/ maximumAttemptsReached
          \/ SolutionTried \/ main = "returned"
    /\ workersDone => \A w \in Workers : pc[w] = "done"
    /\ main = "recheck" => workersDone
    /\ maximumAttemptsReached => job.maxAttempts > 0
    /\ \A w \in Workers : pc[w] = "capped" => job.maxAttempts > 0

(* What travels from worker to caller is a solution some worker hashed.         *)
IsFound(n) == n \in job.solutions /\ \E w \in Workers : n \in tried[w]

ResultInv ==
    /\ resultChannel # NoResult => IsFound(resultChannel)
    /\ main \in {"write", "report"} => IsFound(received)

GiveUpStatus == {"ErrMaxAttempts", "ErrMaxNonce"}

(* A solution that was hashed and is not about to be sent is in the channel or  *)
(* with the caller, unless the caller has left because of its context.          *)
DeliveryInv ==
    \A w \in Workers :
        tried[w] \cap job.solutions # {} /\ pc[w] # "send" =>
            \/ resultChannel # NoResult
            \/ main \in {"write", "report"}
            \/ main = "returned" /\ outcome.status \notin GiveUpStatus

(* The block and the outcome at each place of the caller's goroutine.           *)
CallerInv ==
    /\ main # "returned" => outcome = [status |-> "pending", nonce |-> 0, attempts |-> 0]
    /\ main \in {"start", "select", "recheck", "write"} => blk = Unmined
    /\ main = "report" => blk = [nonce |-> received, hash |-> received]
    /\ main = "start" =>
          ~miningDone /\ ~workersDone /\ \A w \in Workers : pc[w] = "idle"
    /\ main \in {"select", "recheck", "write", "report"} => job.difficultyOK
    /\ main = "returned" =>
          /\ outcome.status # "pending"
          /\ outcome.status = "mined" =>
                /\ IsFound(outcome.nonce)
                /\ blk = [nonce |-> outcome.nonce, hash |-> outcome.nonce]
          /\ outcome.status # "mined" => blk = Unmined
          /\ outcome.status \in GiveUpStatus =>
                workersDone /\ \A w \in Workers : tried[w] \cap job.solutions = {}

IInv == /\ TypeOK /\ StrideInv /\ StopInv /\ ResultInv
        /\ DeliveryInv /\ CallerInv /\ ExhaustedMeansSearched
-----------------------------------------------------------------------------
(* The invariant holds initially *)

THEOREM InitTypeOK == Init => TypeOK
<1>1. \A w \in Workers : w \in Nonces
  BY StrideStart
<1>2. 0 \in Nonces
  BY UintAssumption DEF Nonces
<1>3. ASSUME Init
      PROVE  /\ pc \in [Workers -> WorkerLabels]
             /\ nonce \in [Workers -> Nonces]
             /\ tried \in [Workers -> SUBSET Nonces]
  BY <1>1, <1>3 DEF Init, FirstNonce, WorkerLabels
<1>4. ASSUME Init
      PROVE  /\ blk \in [nonce : Nonces, hash : Nonces \cup {NoHash}]
             /\ outcome \in [status : Statuses, nonce : Nonces, attempts : Nonces]
  BY <1>2, <1>4 DEF Init, FirstNonce, Unmined, Statuses
<1>5. QED
  BY <1>2, <1>3, <1>4 DEF Init, FirstNonce, TypeOK, MainLabels

LEMMA InitIInv == Init => IInv
<1> SUFFICES ASSUME Init PROVE IInv
  OBVIOUS
<1>1. TypeOK
  BY InitTypeOK
<1>2. StrideInv
  <2>1. SUFFICES ASSUME NEW w \in Workers
                 PROVE  w \in Stride(w) /\ \A m \in Stride(w) : ~(m < w)
    BY DEF Init, FirstNonce, StrideInv, StrideOK
  <2>2. \A m \in Stride(w) : w <= m /\ m \in Int /\ w \in Int
    BY StrideStart, UintAssumption DEF Stride, Nonces
  <2>3. QED
    BY <2>2, StrideStart
<1>3. StopInv /\ ResultInv /\ DeliveryInv /\ CallerInv /\ ExhaustedMeansSearched
  BY DEF Init, FirstNonce, StopInv, ResultInv, DeliveryInv, CallerInv, ExhaustedMeansSearched, Unmined
<1>4. QED
  BY <1>1, <1>2, <1>3 DEF IInv

-----------------------------------------------------------------------------
(* Every step preserves the types *)

LEMMA NextTypeOK ==
    ASSUME TypeOK, ResultInv, [Next]_vars
    PROVE  TypeOK'
<1> USE DEF TypeOK, WorkerLabels, MainLabels, Statuses, Goto
<1>0. /\ 0 \in Nonces /\ MaxUint \in Nat
      /\ \A n \in Nat : n % (MaxUint + 1) \in Nonces
      /\ \A n \in Nonces : n + 1 \in Nat /\ n + NumWorkers \in Nat
  BY UintAssumption, WorkersAssumption DEF Nonces
<1>a. main \in {"write", "report"} => received \in Nonces
  BY DEF ResultInv, IsFound
<1>1. CASE EndContext
  BY <1>1 DEF EndContext, Ended, workerVars, mainVars
<1>2. CASE PropagateCancel
  BY <1>2 DEF PropagateCancel, workerVars, mainVars
<1>3. ASSUME NEW w \in Workers, Worker(w) PROVE TypeOK'
  <2>1. CASE WorkerPoll(w)
    BY <2>1 DEF WorkerPoll, mainVars
  <2>2. CASE WorkerPastMaxNonce(w)
    BY <2>2 DEF WorkerPastMaxNonce, PastMaxNonce, mainVars
  <2>3. CASE WorkerCount(w)
    BY <2>3, <1>0 DEF WorkerCount, PastMaxNonce, OverBudget, mainVars
  <2>4. CASE WorkerCapped(w)
    BY <2>4 DEF WorkerCapped, mainVars
  <2>5. CASE WorkerCopy(w)
    BY <2>5 DEF WorkerCopy, mainVars
  <2>6. CASE WorkerMiss(w)
    BY <2>6, <1>0 DEF WorkerMiss, Overflows, FollowingNonce, mainVars
  <2>7. CASE WorkerHit(w)
    BY <2>7 DEF WorkerHit, mainVars
  <2>8. CASE WorkerSend(w)
    BY <2>8 DEF WorkerSend, mainVars
  <2>9. CASE WorkerCancel(w)
    BY <2>9 DEF WorkerCancel, mainVars
  <2>10. QED
    BY <1>3, <2>1, <2>2, <2>3, <2>4, <2>5, <2>6, <2>7, <2>8, <2>9 DEF Worker
<1>4. CASE CloseWorkersDone
  BY <1>4 DEF CloseWorkersDone, workerVars, mainVars
<1>5. CASE Main
  <2>1. CASE MainRejectDifficulty
    BY <2>1, <1>0 DEF MainRejectDifficulty, workerVars
  <2>2. CASE MainSpawn
    BY <2>2 DEF MainSpawn
  <2>3. CASE MainReceive
    BY <2>3 DEF MainReceive, workerVars
  <2>4. CASE MainWriteBlock
    BY <2>4, <1>a DEF MainWriteBlock, workerVars
  <2>5. CASE MainReturnResult
    BY <2>5, <1>a DEF MainReturnResult, Return, workerVars
  <2>6. CASE MainContextEnded
    BY <2>6, <1>0 DEF MainContextEnded, Return, workerVars
  <2>7. CASE MainWorkersDone
    BY <2>7 DEF MainWorkersDone, workerVars
  <2>8. CASE MainGiveUp
    BY <2>8, <1>0 DEF MainGiveUp, Return, workerVars
  <2>9. QED
    BY <1>5, <2>1, <2>2, <2>3, <2>4, <2>5, <2>6, <2>7, <2>8 DEF Main
<1>6. CASE UNCHANGED vars
  BY <1>6 DEF vars, workerVars, mainVars
<1>7. QED
  BY <1>1, <1>2, <1>3, <1>4, <1>5, <1>6 DEF Next
-----------------------------------------------------------------------------
(* Every step preserves the invariant *)

(* A step that is not a worker's leaves the workers' search where it is.        *)
LEMMA OtherStep ==
    ASSUME TypeOK, CallerInv, [Next]_vars, ~ \E w \in Workers : Worker(w)
    PROVE  /\ UNCHANGED <<job, nonce, attempts, maximumAttemptsReached, tried>>
           /\ \A w \in Workers : pc'[w] = pc[w] \/ (pc[w] = "idle" /\ pc'[w] = "poll")
<1>1. CASE MainSpawn
  BY <1>1 DEF MainSpawn, CallerInv, TypeOK
<1>2. CASE ~MainSpawn
  BY <1>2 DEF Next, Main, EndContext, PropagateCancel, CloseWorkersDone,
     MainRejectDifficulty, MainReceive, MainWriteBlock, MainReturnResult,
     MainContextEnded, MainWorkersDone, MainGiveUp, vars, workerVars
<1>3. QED
  BY <1>1, <1>2

(* A worker's step leaves alone the other workers, the caller and the call, and *)
(* never forgets a nonce.                                                       *)
LEMMA WorkerStep ==
    ASSUME TypeOK, NEW w \in Workers, Worker(w)
    PROVE  /\ UNCHANGED <<job, ctx, workersDone, main, received, blk, outcome>>
           /\ \A v \in Workers \ {w} :
                 pc'[v] = pc[v] /\ nonce'[v] = nonce[v] /\ tried'[v] = tried[v]
           /\ \A v \in Workers : tried[v] \subseteq tried'[v]
           /\ miningDone => miningDone'
           /\ maximumAttemptsReached => maximumAttemptsReached'
           /\ pc[w] # "done"
BY DEF Worker, WorkerPoll, WorkerPastMaxNonce, WorkerCount, PastMaxNonce, OverBudget, WorkerCapped, WorkerCopy,
       WorkerMiss, Overflows, FollowingNonce, WorkerHit, WorkerSend, WorkerCancel, Goto, mainVars, TypeOK

(* The heart of the search: a worker's own step keeps its stride in order.      *)
LEMMA OwnStride ==
    ASSUME TypeOK, NEW w \in Workers, StrideOK(w), Worker(w)
    PROVE  StrideOK(w)'
<1> USE DEF StrideOK, Candidates, Goto, AfterHit
<1>1. CASE WorkerPoll(w)
  BY <1>1 DEF WorkerPoll, TypeOK
<1>2. CASE WorkerPastMaxNonce(w)
  BY <1>2 DEF WorkerPastMaxNonce, PastMaxNonce, TypeOK
<1>3. CASE WorkerCount(w)
  <2>1. nonce[w] \in Candidates
    BY <1>3, JobsAssumption, UintAssumption DEF WorkerCount, PastMaxNonce, OverBudget, TypeOK, Nonces, JobSet
  <2>2. /\ UNCHANGED <<job, nonce, tried>>
        /\ pc[w] = "count" /\ pc'[w] \in {"capped", "copy"}
    BY <1>3 DEF WorkerCount, PastMaxNonce, OverBudget, TypeOK
  <2>3. QED
    BY <2>1, <2>2
<1>4. CASE WorkerCapped(w)
  BY <1>4 DEF WorkerCapped, TypeOK
<1>5. CASE WorkerCopy(w)
  BY <1>5 DEF WorkerCopy, TypeOK
<1>6. CASE WorkerMiss(w)
  <2>1. /\ UNCHANGED job /\ pc[w] = "hash"
        /\ nonce[w] \notin job.solutions /\ nonce[w] \in Candidates
        /\ tried'[w] = tried[w] \cup {nonce[w]}
        /\ nonce[w] \in Nonces
    BY <1>6 DEF WorkerMiss, Overflows, FollowingNonce, TypeOK
  <2>2. CASE nonce[w] > MaxUint - NumWorkers
    <3>1. nonce'[w] = nonce[w] /\ pc'[w] = "done"
      BY <1>6, <2>2 DEF WorkerMiss, Overflows, FollowingNonce, TypeOK
    <3>2. QED
      BY <2>1, <3>1
  <2>3. CASE ~(nonce[w] > MaxUint - NumWorkers)
    <3>1. nonce'[w] = (nonce[w] + NumWorkers) % (MaxUint + 1) /\ pc'[w] = "poll"
      BY <1>6, <2>3 DEF WorkerMiss, Overflows, FollowingNonce, TypeOK
    <3>2. nonce[w] <= MaxUint - NumWorkers
      BY <2>1, <2>3, WorkersAssumption, UintAssumption DEF Nonces
    <3>3. nonce'[w] = nonce[w] + NumWorkers /\ nonce'[w] \in Stride(w)
      BY <3>1, <3>2, StrideNext
    <3>4. nonce[w] < nonce'[w] /\ \A m \in tried[w] : m < nonce[w] => m < nonce'[w]
      BY <2>1, <3>3, WorkersAssumption, UintAssumption DEF Nonces, Stride
    <3>5. ASSUME NEW m \in Stride(w), m < nonce'[w] PROVE m \in tried'[w]
      <4>1. ASSUME nonce[w] < m PROVE FALSE
        <5>1. nonce[w] + NumWorkers <= m
          BY <4>1, StrideGap
        <5>2. m \in Nat /\ nonce[w] + NumWorkers \in Nat
          BY <2>1, WorkersAssumption, UintAssumption DEF Nonces, Stride
        <5>3. QED
          BY <3>3, <3>5, <5>1, <5>2
      <4>2. m < nonce[w] \/ m = nonce[w]
        BY <2>1, <4>1, UintAssumption DEF Nonces, Stride
      <4>3. QED
        BY <2>1, <4>2
    <3>6. QED
      BY <2>1, <3>1, <3>3, <3>4, <3>5
  <2>4. QED
    BY <2>2, <2>3
<1>7. CASE WorkerHit(w)
  <2>1. /\ UNCHANGED <<job, nonce>> /\ pc[w] = "hash" /\ pc'[w] = "send"
        /\ nonce[w] \in job.solutions /\ nonce[w] \in Candidates
        /\ tried'[w] = tried[w] \cup {nonce[w]}
    BY <1>7 DEF WorkerHit, TypeOK
  <2>2. QED
    BY <2>1
<1>8. CASE WorkerSend(w)
  <2>1. /\ UNCHANGED <<job, nonce, tried>>
        /\ pc[w] = "send" /\ pc'[w] \in {"cancel", "done"}
    BY <1>8 DEF WorkerSend, TypeOK
  <2>2. QED
    BY <2>1
<1>9. CASE WorkerCancel(w)
  BY <1>9 DEF WorkerCancel, TypeOK
<1>10. QED
  BY <1>1, <1>2, <1>3, <1>4, <1>5, <1>6, <1>7, <1>8, <1>9 DEF Worker

LEMMA NextStrideInv ==
    ASSUME IInv, [Next]_vars
    PROVE  StrideInv'
<1>0. TypeOK /\ CallerInv /\ \A v \in Workers : StrideOK(v)
  BY DEF IInv, StrideInv
<1>1. SUFFICES ASSUME NEW v \in Workers PROVE StrideOK(v)'
  BY DEF StrideInv
<1>2. ASSUME NEW w \in Workers, Worker(w) PROVE StrideOK(v)'
  <2>1. CASE v = w
    BY <1>0, <1>2, <2>1, OwnStride
  <2>2. CASE v # w
    BY <1>0, <1>2, <2>2, WorkerStep DEF StrideOK, Candidates, Stride
  <2>3. QED
    BY <2>1, <2>2
<1>3. CASE ~ \E w \in Workers : Worker(w)
  BY <1>0, <1>3, OtherStep DEF StrideOK, Candidates, AfterHit, Stride
<1>4. QED
  BY <1>2, <1>3

(* Only the worker that finishes its stride can rely on it being finished.      *)
LEMMA NextStopInv ==
    ASSUME IInv, [Next]_vars
    PROVE  StopInv'
<1> USE DEF StopInv, SolutionTried
<1>0. TypeOK /\ CallerInv /\ StopInv /\ ResultInv /\ \A v \in Workers : StrideOK(v)
  BY DEF IInv, StrideInv
<1>1. ASSUME NEW w \in Workers, Worker(w) PROVE StopInv'
  <2>1. \A v \in Workers \ {w} : StrideFinished(v) => StrideFinished(v)'
    BY <1>0, <1>1, WorkerStep DEF StrideFinished
  <2>2. /\ UNCHANGED <<job, ctx, workersDone, main, received, blk, outcome>>
        /\ ~workersDone /\ main # "recheck"
        /\ \A v \in Workers : tried[v] \subseteq tried'[v]
        /\ \A v \in Workers \ {w} : pc'[v] = pc[v]
        /\ miningDone => miningDone'
        /\ maximumAttemptsReached => maximumAttemptsReached'
    BY <1>0, <1>1, WorkerStep
  <2>3. /\ pc'[w] = "done" =>
             miningDone' \/ StrideFinished(w)' \/ tried'[w] \cap job'.solutions # {}
        /\ miningDone' => \/ miningDone \/ maximumAttemptsReached'
                          \/ tried'[w] \cap job'.solutions # {}
        /\ maximumAttemptsReached' \/ pc'[w] = "capped" => job.maxAttempts > 0
    <3> USE DEF Goto, TypeOK, StrideFinished
    <3>1. CASE WorkerPoll(w)
      BY <1>0, <3>1 DEF WorkerPoll
    <3>2. CASE WorkerPastMaxNonce(w)
      BY <1>0, <3>2 DEF WorkerPastMaxNonce, PastMaxNonce
    <3>3. CASE WorkerCount(w)
      BY <1>0, <3>3 DEF WorkerCount, PastMaxNonce, OverBudget
    <3>4. CASE WorkerCapped(w)
      BY <1>0, <3>4 DEF WorkerCapped
    <3>5. CASE WorkerCopy(w)
      BY <1>0, <3>5 DEF WorkerCopy
    <3>6. CASE WorkerMiss(w)
      BY <1>0, <3>6 DEF WorkerMiss, Overflows, FollowingNonce
    <3>7. CASE WorkerHit(w)
      BY <1>0, <3>7 DEF WorkerHit
    <3>8. CASE WorkerSend(w)
      BY <1>0, <3>8 DEF WorkerSend, StrideOK
    <3>9. CASE WorkerCancel(w)
      BY <1>0, <3>9 DEF WorkerCancel, StrideOK
    <3>10. QED
      BY <1>1, <3>1, <3>2, <3>3, <3>4, <3>5, <3>6, <3>7, <3>8, <3>9 DEF Worker
  <2>4. \A v \in Workers \ {w} : pc'[v] = "done" =>
          miningDone' \/ StrideFinished(v)' \/ tried'[v] \cap job'.solutions # {}
    BY <1>0, <2>1, <2>2
  <2>5. miningDone' => \/ ctx' \in Ended \/ maximumAttemptsReached'
                       \/ SolutionTried' \/ main' = "returned"
    BY <1>0, <2>2, <2>3
  <2>6. /\ maximumAttemptsReached' => job'.maxAttempts > 0
        /\ \A v \in Workers : pc'[v] = "capped" => job'.maxAttempts > 0
    BY <1>0, <2>2, <2>3
  <2>7. QED
    BY <2>2, <2>3, <2>4, <2>5, <2>6
<1>2. CASE ~ \E w \in Workers : Worker(w)
  <2>1. /\ UNCHANGED <<job, nonce, attempts, maximumAttemptsReached, tried>>
        /\ \A v \in Workers : pc'[v] = pc[v] \/ (pc[v] = "idle" /\ pc'[v] = "poll")
    BY <1>0, <1>2, OtherStep
  <2>2. \A v \in Workers : StrideFinished(v)' = StrideFinished(v)
    BY <2>1 DEF StrideFinished
  <2>3. /\ miningDone => miningDone'
        /\ ctx \in Ended => ctx' \in Ended
        /\ main = "returned" => main' = "returned"
        /\ miningDone' => miningDone \/ ctx' \in Ended \/ main' = "returned"
        /\ workersDone' => workersDone \/ \A v \in Workers : pc[v] = "done"
        /\ workersDone => workersDone'
        /\ main' = "recheck" => main = "recheck" \/ workersDone
    <3> USE DEF Ended
    <3>1. CASE EndContext
      BY <3>1 DEF EndContext, workerVars, mainVars
    <3>2. CASE PropagateCancel
      BY <3>2 DEF PropagateCancel, workerVars, mainVars
    <3>3. CASE CloseWorkersDone
      BY <3>3 DEF CloseWorkersDone, workerVars, mainVars
    <3>4. CASE MainSpawn
      BY <1>0, <3>4 DEF MainSpawn, CallerInv
    <3>5. CASE Main /\ ~MainSpawn
      BY <1>0, <3>5 DEF Main, MainRejectDifficulty, MainReceive, MainWriteBlock,
         MainReturnResult, MainContextEnded, MainWorkersDone, MainGiveUp, Return
    <3>6. CASE UNCHANGED vars
      BY <3>6 DEF vars, mainVars
    <3>7. QED
      BY <1>2, <3>1, <3>2, <3>3, <3>4, <3>5, <3>6 DEF Next
  <2>4. \A v \in Workers : pc'[v] = "done" <=> pc[v] = "done"
    BY <2>1
  <2>5. \A v \in Workers : pc'[v] = "done" =>
          miningDone' \/ StrideFinished(v)' \/ tried'[v] \cap job'.solutions # {}
    BY <1>0, <2>1, <2>2, <2>3, <2>4
  <2>6. miningDone' => \/ ctx' \in Ended \/ maximumAttemptsReached'
                       \/ SolutionTried' \/ main' = "returned"
    BY <1>0, <2>1, <2>3
  <2>7. /\ workersDone' => \A v \in Workers : pc'[v] = "done"
        /\ main' = "recheck" => workersDone'
    BY <1>0, <2>3, <2>4
  <2>8. /\ maximumAttemptsReached' => job'.maxAttempts > 0
        /\ \A v \in Workers : pc'[v] = "capped" => job'.maxAttempts > 0
    BY <1>0, <2>1
  <2>9. QED
    BY <2>5, <2>6, <2>7, <2>8
<1>3. QED
  BY <1>1, <1>2

(* What was found stays found.                                                  *)
LEMMA FoundStays ==
    ASSUME IInv, [Next]_vars, NEW n, IsFound(n)
    PROVE  IsFound(n)'
<1>0. TypeOK /\ CallerInv
  BY DEF IInv
<1>1. ASSUME NEW w \in Workers, Worker(w) PROVE IsFound(n)'
  BY <1>0, <1>1, WorkerStep DEF IsFound
<1>2. CASE ~ \E w \in Workers : Worker(w)
  BY <1>0, <1>2, OtherStep DEF IsFound
<1>3. QED
  BY <1>1, <1>2

LEMMA NextResultInv ==
    ASSUME IInv, [Next]_vars
    PROVE  ResultInv'
<1>0. /\ TypeOK /\ ResultInv
      /\ \A v \in Workers : pc[v] = "send" => IsFound(nonce[v])
  BY DEF IInv, StrideInv, StrideOK, IsFound
<1>1. /\ \/ resultChannel' \in {resultChannel, NoResult}
         \/ \E w \in Workers : pc[w] = "send" /\ resultChannel' = nonce[w]
      /\ main' \in {"write", "report"} =>
           \/ main \in {"write", "report"} /\ received' = received
           \/ resultChannel # NoResult /\ received' = resultChannel
  <2>1. ASSUME NEW w \in Workers, Worker(w)
        PROVE  /\ \/ resultChannel' = resultChannel
                  \/ pc[w] = "send" /\ resultChannel' = nonce[w]
               /\ UNCHANGED <<main, received>>
    BY <2>1 DEF Worker, WorkerPoll, WorkerPastMaxNonce, WorkerCount, PastMaxNonce, OverBudget, WorkerCapped,
       WorkerCopy, WorkerMiss, Overflows, FollowingNonce, WorkerHit, WorkerSend, WorkerCancel, mainVars
  <2>2. CASE EndContext \/ PropagateCancel \/ CloseWorkersDone \/ UNCHANGED vars
    BY <2>2 DEF EndContext, PropagateCancel, CloseWorkersDone, vars, mainVars
  <2>3. CASE Main
    BY <2>3 DEF Main, MainRejectDifficulty, MainSpawn, MainReceive, MainWriteBlock,
       MainReturnResult, MainContextEnded, MainWorkersDone, MainGiveUp, Return
  <2>4. QED
    BY <2>1, <2>2, <2>3 DEF Next
<1>2. resultChannel' # NoResult => IsFound(resultChannel')
  BY <1>0, <1>1 DEF ResultInv
<1>3. main' \in {"write", "report"} => IsFound(received')
  BY <1>0, <1>1 DEF ResultInv
<1>4. QED
  BY <1>2, <1>3, FoundStays DEF ResultInv

LEMMA NextDeliveryInv ==
    ASSUME IInv, [Next]_vars
    PROVE  DeliveryInv'
<1> DEFINE Delivered == \/ resultChannel # NoResult
                        \/ main \in {"write", "report"}
                        \/ main = "returned" /\ outcome.status \notin GiveUpStatus
           Hits(v) == tried[v] \cap job.solutions # {} /\ pc[v] # "send"
<1>0. /\ TypeOK /\ CallerInv /\ StopInv
      /\ \A v \in Workers : StrideOK(v)
      /\ \A v \in Workers : Hits(v) => Delivered
  BY DEF IInv, StrideInv, DeliveryInv
<1>1. ASSUME NEW w \in Workers, Worker(w), NEW v \in Workers, Hits(v)'
      PROVE  Delivered'
  <2>1. UNCHANGED <<job, main, outcome>>
    BY <1>0, <1>1, WorkerStep
  <2>2. resultChannel # NoResult => resultChannel' # NoResult
    BY <1>0, <1>1, NoResultAssumption DEF Worker, WorkerPoll, WorkerPastMaxNonce, PastMaxNonce,
       WorkerCount, PastMaxNonce, OverBudget, WorkerCapped, WorkerCopy, WorkerMiss, Overflows, FollowingNonce, WorkerHit, WorkerSend,
       WorkerCancel, TypeOK
  <2>3. CASE Hits(v)
    BY <1>0, <2>1, <2>2, <2>3
  <2>4. CASE ~Hits(v)
    <3>1. v = w
      BY <1>0, <1>1, <2>4, WorkerStep
    <3>2. WorkerSend(w)
      <4> USE DEF Goto, TypeOK
      <4>1. CASE WorkerPoll(w)
        BY <1>0, <1>1, <2>4, <3>1, <4>1 DEF WorkerPoll
      <4>2. CASE WorkerPastMaxNonce(w)
        BY <1>0, <1>1, <2>4, <3>1, <4>2 DEF WorkerPastMaxNonce, PastMaxNonce
      <4>3. CASE WorkerCount(w)
        BY <1>0, <1>1, <2>4, <3>1, <4>3 DEF WorkerCount, PastMaxNonce, OverBudget
      <4>4. CASE WorkerCapped(w)
        BY <1>0, <1>1, <2>4, <3>1, <4>4 DEF WorkerCapped
      <4>5. CASE WorkerCopy(w)
        BY <1>0, <1>1, <2>4, <3>1, <4>5 DEF WorkerCopy
      <4>6. CASE WorkerMiss(w)
        BY <1>0, <1>1, <2>4, <3>1, <4>6 DEF WorkerMiss, Overflows, FollowingNonce
      <4>7. CASE WorkerHit(w)
        BY <1>0, <1>1, <2>4, <3>1, <4>7 DEF WorkerHit
      <4>8. CASE WorkerCancel(w)
        BY <1>0, <1>1, <2>4, <3>1, <4>8 DEF WorkerCancel
      <4>9. QED
        BY <1>1, <4>1, <4>2, <4>3, <4>4, <4>5, <4>6, <4>7, <4>8 DEF Worker
    <3>3. QED
      BY <1>0, <3>2, NoResultAssumption DEF WorkerSend, TypeOK
  <2>5. QED
    BY <2>3, <2>4
<1>2. ASSUME ~ \E w \in Workers : Worker(w), NEW v \in Workers, Hits(v)'
      PROVE  Delivered'
  <2>1. Hits(v) /\ pc[v] # "idle"
    BY <1>0, <1>2, OtherStep DEF StrideOK, AfterHit
  <2>2. Delivered /\ main # "start"
    BY <1>0, <2>1 DEF CallerInv
  <2>3. CASE EndContext \/ PropagateCancel \/ CloseWorkersDone \/ UNCHANGED vars
    BY <2>2, <2>3 DEF EndContext, PropagateCancel, CloseWorkersDone, vars, mainVars
  <2>4. CASE MainReceive \/ MainWriteBlock \/ MainReturnResult
    BY <2>4 DEF MainReceive, MainWriteBlock, MainReturnResult, Return, GiveUpStatus
  <2>5. CASE MainContextEnded
    BY <2>5 DEF MainContextEnded, Return, GiveUpStatus
  <2>6. CASE MainWorkersDone \/ MainGiveUp
    BY <2>2, <2>6 DEF MainWorkersDone, MainGiveUp
  <2>7. CASE MainRejectDifficulty \/ MainSpawn
    BY <2>2, <2>7 DEF MainRejectDifficulty, MainSpawn
  <2>8. QED
    BY <1>2, <2>3, <2>4, <2>5, <2>6, <2>7 DEF Next, Main
<1>3. ASSUME NEW v \in Workers, Hits(v)' PROVE Delivered'
  BY <1>1, <1>2, <1>3
<1>4. QED
  BY <1>3 DEF DeliveryInv

LEMMA NextCallerInv ==
    ASSUME IInv, [Next]_vars
    PROVE  CallerInv'
<1>0. /\ TypeOK /\ CallerInv /\ StopInv /\ ResultInv /\ DeliveryInv
      /\ \A v \in Workers : StrideOK(v)
  BY DEF IInv, StrideInv
<1>1. ASSUME NEW w \in Workers, Worker(w) PROVE CallerInv'
  <2>1. /\ UNCHANGED <<job, ctx, workersDone, main, received, blk, outcome>>
        /\ pc[w] # "done" /\ ~workersDone
    BY <1>0, <1>1, WorkerStep DEF StopInv
  <2>2. main # "start"
    BY <1>0, <1>1 DEF CallerInv, Worker, WorkerPoll, WorkerPastMaxNonce, WorkerCount, PastMaxNonce, OverBudget,
       WorkerCapped, WorkerCopy, WorkerMiss, Overflows, FollowingNonce, WorkerHit, WorkerSend, WorkerCancel
  <2>3. \A n : IsFound(n) => IsFound(n)'
    BY FoundStays
  <2>4. QED
    BY <1>0, <2>1, <2>2, <2>3 DEF CallerInv, Unmined
<1>2. CASE ~ \E w \in Workers : Worker(w)
  <2>1. /\ UNCHANGED <<job, nonce, attempts, maximumAttemptsReached, tried>>
        /\ \A n : IsFound(n)' <=> IsFound(n)
    BY <1>0, <1>2, OtherStep DEF IsFound
  <2> USE <1>0, <2>1 DEF CallerInv, Unmined
  <2>2. CASE EndContext
    BY <2>2 DEF EndContext, workerVars, mainVars
  <2>3. CASE PropagateCancel
    BY <2>3 DEF PropagateCancel, workerVars, mainVars
  <2>4. CASE CloseWorkersDone
    BY <2>4 DEF CloseWorkersDone, workerVars, mainVars
  <2>5. CASE MainRejectDifficulty
    BY <2>5 DEF MainRejectDifficulty, GiveUpStatus
  <2>6. CASE MainSpawn
    BY <2>6 DEF MainSpawn
  <2>7. CASE MainReceive
    BY <2>7 DEF MainReceive, workerVars
  <2>8. CASE MainWriteBlock
    BY <2>8 DEF MainWriteBlock, workerVars
  <2>9. CASE MainReturnResult
    BY <2>9 DEF MainReturnResult, Return, GiveUpStatus, ResultInv
  <2>10. CASE MainContextEnded
    BY <2>10 DEF MainContextEnded, Return, GiveUpStatus
  <2>11. CASE MainWorkersDone
    BY <2>11 DEF MainWorkersDone, workerVars
  <2>12. CASE MainGiveUp
    <3>1. /\ workersDone /\ \A v \in Workers : pc[v] = "done"
          /\ \A v \in Workers : tried[v] \cap job.solutions = {}
      BY <2>12 DEF MainGiveUp, StopInv, DeliveryInv
    <3>2. QED
      BY <2>12, <3>1 DEF MainGiveUp, Return
  <2>13. CASE UNCHANGED vars
    BY <2>13 DEF vars, workerVars, mainVars
  <2>14. QED
    BY <1>2, <2>2, <2>3, <2>4, <2>5, <2>6, <2>7, <2>8, <2>9, <2>10, <2>11, <2>12, <2>13
    DEF Next, Main
<1>3. QED
  BY <1>1, <1>2

(* A worker that finished its stride has hashed every candidate of it.          *)
LEMMA FinishedStride ==
    ASSUME TypeOK, NEW w \in Workers, StrideOK(w), StrideFinished(w),
           NEW m \in Stride(w), m \in Candidates
    PROVE  m \in tried[w]
<1>0. nonce[w] \in Stride(w) /\ (m < nonce[w] => m \in tried[w])
  BY DEF StrideOK
<1>1. m \in Nat /\ m <= MaxUint /\ nonce[w] \in Nat /\ NumWorkers \in Nat
  BY WorkersAssumption, UintAssumption DEF TypeOK, Nonces, Stride
<1>2. CASE job.maxNonce > 0 /\ nonce[w] > job.maxNonce
  <2>1. m <= job.maxNonce /\ job.maxNonce \in Nat
    BY <1>2, JobsAssumption DEF Candidates, TypeOK, JobSet, Nonces
  <2>2. QED
    BY <1>0, <1>1, <1>2, <2>1
<1>3. CASE nonce[w] \in tried[w] /\ nonce[w] > MaxUint - NumWorkers
  <2>1. ASSUME nonce[w] < m PROVE FALSE
    <3>1. nonce[w] + NumWorkers <= m
      BY <1>0, <2>1, StrideGap
    <3>2. QED
      BY <1>1, <1>3, <3>1, UintAssumption
  <2>2. QED
    BY <1>0, <1>1, <1>3, <2>1
<1>4. QED
  BY <1>2, <1>3 DEF StrideFinished

LEMMA NextExhausted ==
    ASSUME IInv, [Next]_vars
    PROVE  ExhaustedMeansSearched'
<1>0. /\ TypeOK /\ StopInv /\ DeliveryInv /\ CallerInv /\ ExhaustedMeansSearched
      /\ \A v \in Workers : StrideOK(v)
  BY DEF IInv, StrideInv
<1>1. ASSUME NEW w \in Workers, Worker(w) PROVE ExhaustedMeansSearched'
  <2>1. UNCHANGED <<job, ctx, outcome>> /\ \A v \in Workers : tried[v] \subseteq tried'[v]
    BY <1>0, <1>1, WorkerStep
  <2>2. Tried \subseteq Tried' /\ Candidates' = Candidates
    BY <2>1 DEF Tried, Candidates
  <2>3. QED
    BY <1>0, <2>1, <2>2 DEF ExhaustedMeansSearched
<1>2. CASE MainGiveUp
  <2>1. SUFFICES ASSUME outcome'.status = "ErrMaxNonce", ctx = "live",
                        NEW m \in Candidates
                 PROVE  \E w \in Workers : m \in tried[w]
    <3>1. UNCHANGED <<job, ctx, tried>>
      BY <1>2 DEF MainGiveUp, workerVars
    <3>2. QED
      BY <3>1 DEF ExhaustedMeansSearched, Candidates, Tried
  <2>2. /\ ~maximumAttemptsReached /\ main = "recheck" /\ resultChannel = NoResult
    BY <1>2, <2>1 DEF MainGiveUp, Return
  <2>3. \A w \in Workers : pc[w] = "done" /\ tried[w] \cap job.solutions = {}
    BY <1>0, <2>2 DEF StopInv, DeliveryInv
  <2>4. ~miningDone
    BY <1>0, <2>1, <2>2, <2>3 DEF StopInv, SolutionTried, Ended
  <2>5. \A w \in Workers : StrideFinished(w)
    BY <1>0, <2>3, <2>4 DEF StopInv
  <2>6. m \in Nonces
    BY <1>0, JobsAssumption, UintAssumption DEF Candidates, TypeOK, JobSet, Nonces
  <2>7. PICK w \in Workers : m \in Stride(w)
    BY <2>6, StridesCover
  <2>8. QED
    BY <1>0, <2>5, <2>7, FinishedStride
<1>3. CASE ~ MainGiveUp /\ ~ \E w \in Workers : Worker(w)
  <2>1. /\ UNCHANGED <<job, tried>>
        /\ ctx' = "live" => ctx = "live"
        /\ outcome'.status = "ErrMaxNonce" => outcome.status = "ErrMaxNonce"
    <3>1. UNCHANGED <<job, tried>>
      BY <1>0, <1>3, OtherStep
    <3>2. CASE EndContext \/ PropagateCancel \/ CloseWorkersDone \/ UNCHANGED vars
      BY <3>1, <3>2 DEF EndContext, PropagateCancel, CloseWorkersDone, vars, mainVars, Ended
    <3>3. CASE MainSpawn \/ MainReceive \/ MainWriteBlock \/ MainWorkersDone
      BY <3>1, <3>3 DEF MainSpawn, MainReceive, MainWriteBlock, MainWorkersDone
    <3>4. CASE MainRejectDifficulty \/ MainReturnResult \/ MainContextEnded
      BY <3>1, <3>4 DEF MainRejectDifficulty, MainReturnResult, MainContextEnded, Return
    <3>5. QED
      BY <1>3, <3>2, <3>3, <3>4 DEF Next, Main
  <2>2. QED
    BY <1>0, <2>1 DEF ExhaustedMeansSearched, Candidates, Tried
<1>4. QED
  BY <1>1, <1>2, <1>3

(* The invariant, for every number of workers, nonce width and call.            *)
THEOREM InductiveInvariant == Spec => []IInv
<1>1. Init => IInv
  BY InitIInv
<1>2. IInv /\ [Next]_vars => IInv'
  <2>1. SUFFICES ASSUME IInv, [Next]_vars PROVE IInv'
    OBVIOUS
  <2>2. TypeOK'
    BY <2>1, NextTypeOK DEF IInv
  <2>3. StrideInv' /\ StopInv' /\ ResultInv'
    BY <2>1, NextStrideInv, NextStopInv, NextResultInv
  <2>4. DeliveryInv' /\ CallerInv' /\ ExhaustedMeansSearched'
    BY <2>1, NextDeliveryInv, NextCallerInv, NextExhausted
  <2>5. QED
    BY <2>2, <2>3, <2>4 DEF IInv
<1>3. QED
  BY <1>1, <1>2, PTL DEF Spec
-----------------------------------------------------------------------------
(* What a caller of Mine may rely on *)

(* Every variable keeps its type: in particular nonce and counter stay within   *)
(* the width of uint64.                                                         *)
THEOREM TypeCorrect == Spec => []TypeOK
BY InductiveInvariant, PTL DEF IInv

LEMMA InvHashedOnce ==
    ASSUME IInv
    PROVE  NoNonceHashedTwice
<1>2. TypeOK /\ \A w \in Workers : StrideOK(w)
  BY DEF IInv, StrideInv
<1>3. \A v, w \in Workers : v # w => tried[v] \cap tried[w] = {}
  BY <1>2, StridesDisjoint DEF StrideOK
<1>4. ASSUME NEW w \in Workers, Hashing(w), NEW v \in Workers
      PROVE  nonce[w] \notin tried[v]
  <2>1. pc[w] \notin AfterHit /\ nonce[w] \in Nat /\ nonce[w] \in Stride(w)
    BY <1>2, <1>4, UintAssumption DEF Hashing, AfterHit, StrideOK, TypeOK, Nonces
  <2>2. CASE v = w
    BY <1>2, <2>1, <2>2 DEF StrideOK
  <2>3. CASE v # w
    BY <1>2, <2>1, <2>3, StridesDisjoint DEF StrideOK
  <2>4. QED
    BY <2>2, <2>3
<1>5. \A w \in Workers : Hashing(w) => nonce[w] \notin Tried
  BY <1>4 DEF Tried
<1>6. ASSUME NEW v \in Workers, NEW w \in Workers, v # w PROVE nonce[v] # nonce[w]
  BY <1>2, <1>6, StridesDisjoint DEF StrideOK
<1>7. QED
  BY <1>3, <1>5, <1>6 DEF NoNonceHashedTwice

(* README: no two workers ever hash the same nonce, and none hashes one twice.  *)
THEOREM NonceHashedOnce == Spec => []NoNonceHashedTwice
BY InvHashedOnce, InductiveInvariant, PTL

(* Success seals the block with a solution, failure leaves it untouched.        *)
THEOREM ResultCorrect == Spec => []SealedOrUntouched
<1>1. IInv => SealedOrUntouched
  BY DEF IInv, CallerInv, StrideInv, StrideOK, IsFound, SealedOrUntouched
<1>2. QED
  BY <1>1, InductiveInvariant, PTL

(* No solution that was hashed is lost when Mine gives up.                      *)
THEOREM NothingFoundIsLost == Spec => []NoSolutionLost
<1>1. IInv => NoSolutionLost
  <2>1. SUFFICES ASSUME IInv, outcome.status \in GiveUpStatus
                 PROVE  Tried \cap job.solutions = {}
    BY DEF NoSolutionLost, GiveUpStatus
  <2>2. main = "returned"
    BY <2>1 DEF IInv, CallerInv, GiveUpStatus
  <2>3. QED
    BY <2>1, <2>2 DEF IInv, CallerInv, Tried
<1>2. QED
  BY <1>1, InductiveInvariant, PTL

(* ErrMaxNonce for a live context is a proof by exhaustion.                     *)
THEOREM ExhaustionIsReal == Spec => []ExhaustedMeansSearched
BY InductiveInvariant, PTL DEF IInv

(* The mined nonce is the least solution of its stride.                         *)
THEOREM LeastSolution == Spec => []LeastOfItsStride
<1>1. IInv => LeastOfItsStride
  <2>1. SUFFICES ASSUME IInv, outcome.status = "mined",
                        NEW w \in Workers, outcome.nonce \in Stride(w),
                        NEW m \in Stride(w), m \in job.solutions
                 PROVE  outcome.nonce <= m
    BY DEF LeastOfItsStride
  <2>2. TypeOK /\ \A v \in Workers : StrideOK(v)
    BY <2>1 DEF IInv, StrideInv
  <2>3. main = "returned" /\ outcome.nonce \in job.solutions
    BY <2>1 DEF IInv, CallerInv, IsFound
  <2>4. PICK v \in Workers : outcome.nonce \in tried[v]
    BY <2>1, <2>3 DEF IInv, CallerInv, IsFound
  <2>5. v = w
    BY <2>1, <2>2, <2>4, StridesDisjoint DEF StrideOK
  <2>6. outcome.nonce = nonce[w]
    BY <2>2, <2>3, <2>4, <2>5 DEF StrideOK
  <2>7. nonce[w] \in Nat /\ m \in Nat
    BY <2>2, UintAssumption DEF TypeOK, Nonces, Stride
  <2>8. ~ (m < nonce[w])
    <3>1. m < nonce[w] => m \in tried[w] /\ m = nonce[w]
      BY <2>1, <2>2 DEF StrideOK
    <3>2. QED
      BY <2>7, <3>1
  <2>9. QED
    BY <2>6, <2>7, <2>8
<1>2. QED
  BY <1>1, InductiveInvariant, PTL

(* NewGenesisBlock: one worker finds the least solution there is, whatever the  *)
(* scheduler does, so the genesis block is the same on every machine.           *)
THEOREM GenesisDeterministic ==
    ASSUME NumWorkers = 1
    PROVE  Spec => [](outcome.status = "mined" =>
                          \A m \in job.solutions : outcome.nonce <= m)
<1>1. Workers = {0}
  BY DEF Workers
<1>2. \A m \in Nonces : m \in Stride(0)
  BY <1>1, StridesCover
<1>3. TypeOK /\ LeastOfItsStride =>
        (outcome.status = "mined" => \A m \in job.solutions : outcome.nonce <= m)
  BY <1>1, <1>2, JobsAssumption DEF LeastOfItsStride, TypeOK, JobSet
<1>4. QED
  BY <1>3, TypeCorrect, LeastSolution, PTL

(* Mine implements MineCall, liveness apart: seen by its caller, a run of the   *)
(* goroutines is a pending call that returns once, as MineCall allows.          *)
THEOREM MineImplementsCall == Spec => Call!SafeSpec
<1>1. Init => Call!Init
  BY DEF Init, FirstNonce, Call!Init, Call!Unmined, Call!Pending, Unmined
<1>2. IInv /\ IInv' /\ [Next]_vars => [Call!Next]_(Call!callVars)
  <2> SUFFICES ASSUME IInv, IInv', [Next]_vars PROVE [Call!Next]_(Call!callVars)
    OBVIOUS
  <2>0. TypeOK /\ CallerInv /\ StopInv /\ ResultInv /\ DeliveryInv
        /\ \A w \in Workers : StrideOK(w)
    BY DEF IInv, StrideInv
  <2>a. Call!Candidates(job) = Candidates
    BY DEF Call!Candidates, Candidates
  <2>1. ASSUME NEW w \in Workers, Worker(w) PROVE UNCHANGED Call!callVars
    BY <2>0, <2>1, WorkerStep DEF Call!callVars
  <2>2. CASE EndContext
    <3>1. Call!EndContext(ctx')
      BY <2>2 DEF EndContext, Call!EndContext, Ended, mainVars
    <3>2. QED
      BY <2>2, <3>1 DEF EndContext, Call!Next, Ended
  <2>3. CASE PropagateCancel \/ CloseWorkersDone \/ UNCHANGED vars
    BY <2>3 DEF PropagateCancel, CloseWorkersDone, vars, mainVars, Call!callVars
  <2>4. CASE MainSpawn \/ MainReceive \/ MainWorkersDone
    BY <2>4 DEF MainSpawn, MainReceive, MainWorkersDone, Call!callVars
  <2>5. CASE MainWriteBlock
    BY <2>0, <2>5 DEF MainWriteBlock, CallerInv, Call!callVars
  <2>6. CASE MainRejectDifficulty
    <3>1. Call!Fail
      BY <2>0, <2>6 DEF MainRejectDifficulty, CallerInv, Call!Fail, Call!Failed, Call!Pending
    <3>2. QED
      BY <3>1 DEF Call!Next
  <2>7. CASE MainReturnResult
    <3>1. received \in Candidates \cap job.solutions
      BY <2>0, <2>7 DEF MainReturnResult, ResultInv, IsFound, StrideOK
    <3>2. Call!Succeed
      BY <2>0, <2>7, <2>a, <3>1 DEF MainReturnResult, Return, CallerInv, Call!Succeed, Call!Pending
    <3>3. QED
      BY <3>2 DEF Call!Next
  <2>8. CASE MainContextEnded
    <3>1. Call!Fail
      BY <2>0, <2>8 DEF MainContextEnded, Return, CallerInv, Ended,
         Call!Fail, Call!Failed, Call!Pending
    <3>2. QED
      BY <3>1 DEF Call!Next
  <2>9. CASE MainGiveUp
    <3>1. /\ outcome = [status |-> "pending", nonce |-> 0, attempts |-> 0]
          /\ job.difficultyOK /\ UNCHANGED <<job, ctx, blk, tried>>
          /\ outcome' = [status |-> IF maximumAttemptsReached THEN "ErrMaxAttempts"
                                    ELSE "ErrMaxNonce",
                         nonce |-> 0, attempts |-> 0]
      BY <2>0, <2>9 DEF MainGiveUp, Return, CallerInv, workerVars
    <3>2. CASE maximumAttemptsReached
      <4>1. Call!Fail
        BY <2>0, <3>1, <3>2 DEF StopInv, Call!Fail, Call!Failed, Call!Pending
      <4>2. QED
        BY <4>1 DEF Call!Next
    <3>3. CASE ~maximumAttemptsReached
      <4>1. ctx = "live" => Candidates \cap job.solutions = {}
        <5>1. ctx = "live" => Candidates \subseteq Tried
          BY <3>1, <3>3 DEF IInv, ExhaustedMeansSearched, Candidates, Tried
        <5>2. Tried \cap job.solutions = {}
          BY <2>0, <2>9 DEF MainGiveUp, StopInv, DeliveryInv, Tried
        <5>3. QED
          BY <5>1, <5>2
      <4>2. Call!Fail
        BY <2>a, <3>1, <3>3, <4>1 DEF Call!Fail, Call!Failed, Call!Pending
      <4>3. QED
        BY <4>2 DEF Call!Next
    <3>4. QED
      BY <3>2, <3>3
  <2>10. QED
    BY <2>1, <2>2, <2>3, <2>4, <2>5, <2>6, <2>7, <2>8, <2>9 DEF Next, Main
<1>3. QED
  BY <1>1, <1>2, InductiveInvariant, PTL DEF Spec, Call!SafeSpec

-----------------------------------------------------------------------------
(* The attempt budget *)

HashingWorkers == {w \in Workers : Hashing(w)}

(* The hashes made and about to be made. *)
Granted == Cardinality(Tried) + Cardinality(HashingWorkers)

Limited == job.maxAttempts \in 1 .. MaxUint - NumWorkers

(* Every attempt that was counted is a hash, or was refused to one of the       *)
(* workers in refused, each of which makes no other; and with a limit none is   *)
(* refused before all that it allows are granted.                               *)
BudgetOK(refused) ==
    /\ refused \subseteq Workers
    /\ \A w \in refused : pc[w] \in {"capped", "done"}
    /\ \A w \in Workers : pc[w] = "capped" => w \in refused
    /\ maximumAttemptsReached => refused # {}
    /\ attempts = (Granted + Cardinality(refused)) % (MaxUint + 1)
    /\ Limited => /\ Granted <= job.maxAttempts
                  /\ refused # {} => Granted = job.maxAttempts

BudgetInv ==
    /\ \E refused : BudgetOK(refused)
    /\ outcome.status = "ErrMaxAttempts" => maximumAttemptsReached

LEMMA WorkersFinite == IsFiniteSet(Workers) /\ Cardinality(Workers) = NumWorkers
<1>1. 0 \in Int /\ NumWorkers - 1 \in Int /\ ~(0 > NumWorkers - 1)
  BY WorkersAssumption
<1>2. IsFiniteSet(0 .. NumWorkers - 1)
      /\ Cardinality(0 .. NumWorkers - 1) = (NumWorkers - 1) - 0 + 1
  BY <1>1, FS_Interval
<1>3. QED
  BY <1>2, WorkersAssumption DEF Workers

(* The sets that are counted, and how many they can be. *)
LEMMA CountedFinite ==
    ASSUME TypeOK, NEW refused, BudgetOK(refused)
    PROVE  /\ IsFiniteSet(Tried) /\ IsFiniteSet(HashingWorkers) /\ IsFiniteSet(refused)
           /\ Cardinality(Tried) \in Nat /\ Cardinality(HashingWorkers) \in Nat
           /\ Cardinality(refused) \in Nat
           /\ Cardinality(HashingWorkers) + Cardinality(refused) <= NumWorkers
<1>1. IsFiniteSet(Nonces)
  BY UintAssumption, FS_Interval DEF Nonces
<1>2. Tried \subseteq Nonces
  BY DEF Tried, TypeOK
<1>3. IsFiniteSet(Tried)
  BY <1>1, <1>2, FS_Subset
<1>4. HashingWorkers \subseteq Workers /\ refused \subseteq Workers
      /\ HashingWorkers \cap refused = {}
  BY DEF HashingWorkers, Hashing, BudgetOK
<1>5. IsFiniteSet(HashingWorkers) /\ IsFiniteSet(refused)
  BY <1>4, WorkersFinite, FS_Subset
<1>6. /\ Cardinality(Tried) \in Nat /\ Cardinality(HashingWorkers) \in Nat
      /\ Cardinality(refused) \in Nat
  BY <1>3, <1>5, FS_CardinalityType
<1>7. Cardinality(HashingWorkers \cup refused)
        = Cardinality(HashingWorkers) + Cardinality(refused) - Cardinality(HashingWorkers \cap refused)
  BY <1>5, FS_Union
<1>8. Cardinality(HashingWorkers \cap refused) = 0
  BY <1>4, FS_EmptySet
<1>9. Cardinality(HashingWorkers \cup refused) <= NumWorkers
  <2>1. HashingWorkers \cup refused \in SUBSET Workers
    BY <1>4
  <2>2. QED
    BY <2>1, WorkersFinite, FS_Subset
<1>10. QED
  BY <1>3, <1>5, <1>6, <1>7, <1>8, <1>9

(* A step that neither counts nor hashes. *)
LEMMA BudgetStays ==
    ASSUME NEW refused, BudgetOK(refused), UNCHANGED <<job, attempts, tried>>,
           HashingWorkers' = HashingWorkers,
           \A w \in refused : pc'[w] \in {"capped", "done"},
           \A w \in Workers : pc'[w] = "capped" => w \in refused,
           maximumAttemptsReached' => refused # {}
    PROVE  BudgetOK(refused)'
<1>1. Tried' = Tried
  BY DEF Tried
<1>2. Granted' = Granted
  BY <1>1 DEF Granted
<1>3. QED
  BY <1>2 DEF BudgetOK, Limited

(* The steps of one worker that leave it out of the hashing ones. *)
LEMMA WorkerElsewhere ==
    ASSUME TypeOK, NEW w \in Workers, NEW label,
           pc' = [pc EXCEPT ![w] = label], ~Hashing(w), label \notin {"copy", "hash"}
    PROVE  HashingWorkers' = HashingWorkers
BY DEF HashingWorkers, Hashing, TypeOK

LEMMA WorkerStarts ==
    ASSUME TypeOK, NEW w \in Workers, pc' = [pc EXCEPT ![w] = "copy"], ~Hashing(w)
    PROVE  HashingWorkers' = HashingWorkers \cup {w} /\ w \notin HashingWorkers
BY DEF HashingWorkers, Hashing, TypeOK

LEMMA WorkerStops ==
    ASSUME TypeOK, NEW w \in Workers, NEW label,
           pc' = [pc EXCEPT ![w] = label], Hashing(w), label \notin {"copy", "hash"}
    PROVE  HashingWorkers' = HashingWorkers \ {w} /\ w \in HashingWorkers
BY DEF HashingWorkers, Hashing, TypeOK

(* What the remainder is. *)
LEMMA Remainder ==
    ASSUME NEW m \in Nat \ {0}, NEW p \in Int, NEW s \in 0 .. m - 1, NEW a, a = m * p + s
    PROVE  a % m = s
OBVIOUS

LEMMA SmallRemainder ==
    ASSUME NEW m \in Nat \ {0}, NEW s \in 0 .. m - 1
    PROVE  s % m = s
OBVIOUS

(* The counter goes on, modulo its width. *)
LEMMA CounterGoesOn ==
    ASSUME NEW n \in Nat, NEW m \in Nat, m = MaxUint + 1
    PROVE  ((n % m) + 1) % m = (n + 1) % m
<1>1. m \in Nat \ {0}
  BY UintAssumption
<1>2. n % m \in 0 .. m - 1 /\ n \div m \in Int /\ n = m * (n \div m) + (n % m)
  BY <1>1
<1> DEFINE q == n \div m
           r == n % m
<1>3. q \in Int /\ r \in 0 .. m - 1 /\ n = m * q + r
  BY <1>2
<1> HIDE DEF q, r
<1>5. CASE r < m - 1
  <2>1. r + 1 \in 0 .. m - 1 /\ n + 1 = m * q + (r + 1)
    BY <1>1, <1>3, <1>5
  <2>2. (n + 1) % m = r + 1
    BY ONLY <1>1, <1>3, <2>1, Remainder
  <2>3. (r + 1) % m = r + 1
    BY ONLY <1>1, <2>1, SmallRemainder
  <2>4. QED
    BY <2>2, <2>3 DEF r
<1>6. CASE r = m - 1
  <2>1. m * q + m = m * (q + 1) /\ q + 1 \in Int
    BY <1>1, <1>3
  <2>2. n + 1 = m * (q + 1) + 0 /\ n + 1 \in Int /\ 0 \in 0 .. m - 1
    BY <1>1, <1>3, <1>6, <2>1
  <2>3. (n + 1) % m = 0
    BY ONLY <1>1, <2>1, <2>2, Remainder
  <2>4. r + 1 = m /\ m % m = 0
    <3>1. m = m * 1 + 0 /\ 1 \in Int
      BY <1>1
    <3>2. QED
      BY <1>1, <1>3, <1>6, <2>2, <3>1, Remainder
  <2>5. QED
    BY <2>3, <2>4 DEF r
<1>7. QED
  BY <1>1, <1>3, <1>5, <1>6

(* A counted attempt is granted, or refused when the limit is reached. *)
LEMMA CountBudget ==
    ASSUME TypeOK, NEW refused, BudgetOK(refused), NEW w \in Workers, WorkerCount(w)
    PROVE  \E more : BudgetOK(more)'
<1> DEFINE g == Granted
           k == Cardinality(refused)
           m == MaxUint + 1
           max == job.maxAttempts
<1>1. /\ pc[w] = "count" /\ UNCHANGED <<job, tried, maximumAttemptsReached>>
      /\ attempts' = (attempts + 1) % m
      /\ pc' = [pc EXCEPT ![w] = IF OverBudget(attempts') THEN "capped" ELSE "copy"]
  BY DEF WorkerCount, Goto
<1>2. /\ IsFiniteSet(HashingWorkers) /\ IsFiniteSet(refused)
      /\ Cardinality(Tried) \in Nat /\ Cardinality(HashingWorkers) \in Nat
      /\ k \in Nat
  BY CountedFinite
<1>3. g \in Nat /\ g = Cardinality(Tried) + Cardinality(HashingWorkers)
  BY <1>2 DEF Granted
<1>4. w \notin refused /\ ~Hashing(w)
  BY <1>1 DEF BudgetOK, Hashing
<1>5. k < NumWorkers
  <2>1. refused \in SUBSET Workers /\ refused # Workers
    BY <1>4 DEF BudgetOK
  <2>2. k <= NumWorkers /\ k # NumWorkers
    BY <2>1, WorkersFinite, FS_Subset
  <2>3. QED
    BY <1>2, <2>2, WorkersAssumption
<1>6. attempts = (g + k) % m
  BY DEF BudgetOK
<1>7. attempts' = (g + k + 1) % m
  <2>1. g + k \in Nat /\ m \in Nat
    BY <1>2, <1>3, UintAssumption
  <2>2. (((g + k) % m) + 1) % m = (g + k + 1) % m
    BY <2>1, CounterGoesOn
  <2>3. QED
    BY <1>1, <1>6, <2>2
<1>8. max \in Nat
  BY JobsAssumption, UintAssumption DEF TypeOK, JobSet, Nonces
<1>9. ASSUME Limited
      PROVE  /\ max \in Nat \ {0} /\ g <= max /\ (refused # {} => g = max)
             /\ attempts' = g + k + 1
  <2>1. max \in 1 .. MaxUint - NumWorkers /\ g <= max /\ (refused # {} => g = max)
    BY <1>9 DEF BudgetOK, Limited
  <2>2. g + k + 1 \in 0 .. m - 1
    BY <1>2, <1>3, <1>5, <1>8, <2>1, UintAssumption, WorkersAssumption
  <2>3. (g + k + 1) % m = g + k + 1
    BY <2>2, UintAssumption
  <2>4. QED
    BY <1>7, <1>8, <2>1, <2>3
<1>10. k = 0 <=> refused = {}
  BY <1>2, FS_EmptySet
<1>11. CASE OverBudget(attempts')
  <2> DEFINE more == refused \cup {w}
  <2>1. pc' = [pc EXCEPT ![w] = "capped"]
    BY <1>1, <1>11
  <2>2. HashingWorkers' = HashingWorkers
    <3>1. "capped" \notin {"copy", "hash"}
      OBVIOUS
    <3>2. QED
      BY ONLY TypeOK, w \in Workers, <1>4, <2>1, <3>1, WorkerElsewhere
  <2>3. Cardinality(more) = k + 1
    BY <1>2, <1>4, FS_AddElement
  <2>4. Granted' = g
    BY <1>1, <2>2 DEF Granted, Tried
  <2>5. Limited' => Granted' <= max /\ Granted' = max
    <3>1. ASSUME Limited PROVE g = max
      <4>1. attempts' > max
        BY <1>11 DEF OverBudget
      <4>2. QED
        BY <1>2, <1>3, <1>8, <1>9, <1>10, <3>1, <4>1
    <3>2. QED
      BY <1>1, <1>8, <2>4, <3>1 DEF Limited
  <2>6. attempts' = (Granted' + Cardinality(more)) % m
    <3>1. g + k + 1 = g + (k + 1)
      BY <1>2, <1>3
    <3>2. QED
      BY <1>7, <2>3, <2>4, <3>1
  <2>7. /\ more \subseteq Workers
        /\ \A v \in more : pc'[v] \in {"capped", "done"}
        /\ \A v \in Workers : pc'[v] = "capped" => v \in more
        /\ more # {}
    BY <1>4, <2>1 DEF BudgetOK, TypeOK
  <2>8. BudgetOK(more)'
    <3> HIDE DEF more
    <3>1. QED
      BY <1>1, <2>5, <2>6, <2>7 DEF BudgetOK
  <2>9. QED
    BY <2>8
<1>12. CASE ~OverBudget(attempts')
  <2>1. pc' = [pc EXCEPT ![w] = "copy"]
    BY <1>1, <1>12
  <2>2. HashingWorkers' = HashingWorkers \cup {w} /\ w \notin HashingWorkers
    BY <1>4, <2>1, WorkerStarts
  <2>3. Cardinality(HashingWorkers') = Cardinality(HashingWorkers) + 1
    BY <1>2, <2>2, FS_AddElement
  <2>4. Granted' = g + 1
    BY <1>1, <1>2, <1>3, <2>3 DEF Granted, Tried
  <2>5. Limited' => Granted' <= max /\ refused = {}
    <3>1. ASSUME Limited PROVE g + 1 <= max /\ refused = {}
      <4>1. ~(attempts' > max)
        BY <1>9, <1>12, <3>1 DEF OverBudget
      <4>2. QED
        BY <1>2, <1>3, <1>8, <1>9, <1>10, <3>1, <4>1
    <3>2. QED
      BY <1>1, <2>4, <3>1 DEF Limited
  <2>6. attempts' = (Granted' + k) % m
    <3>1. g + k + 1 = (g + 1) + k
      BY <1>2, <1>3
    <3>2. QED
      BY <1>7, <2>4, <3>1
  <2>7. /\ refused \subseteq Workers
        /\ \A v \in refused : pc'[v] \in {"capped", "done"}
        /\ \A v \in Workers : pc'[v] = "capped" => v \in refused
        /\ maximumAttemptsReached' => refused # {}
    BY <1>1, <1>4, <2>1 DEF BudgetOK, TypeOK
  <2>8. BudgetOK(refused)'
    BY <1>1, <2>5, <2>6, <2>7 DEF BudgetOK
  <2>9. QED
    BY <2>8
<1>13. QED
  BY <1>11, <1>12

(* A hash that is made moves from the hashing workers to the tried nonces. *)
LEMMA HashBudget ==
    ASSUME IInv, NEW refused, BudgetOK(refused), NEW w \in Workers,
           WorkerMiss(w) \/ WorkerHit(w)
    PROVE  BudgetOK(refused)'
<1>0. TypeOK
  BY DEF IInv
<1>1. PICK label \in {"done", "poll", "send"} :
         /\ pc' = [pc EXCEPT ![w] = label]
         /\ pc[w] = "hash" /\ UNCHANGED <<job, attempts, maximumAttemptsReached>>
         /\ tried' = [tried EXCEPT ![w] = @ \cup {nonce[w]}]
  BY DEF WorkerMiss, WorkerHit, Goto
<1>2. Hashing(w) /\ w \notin refused
  BY <1>1 DEF BudgetOK, Hashing
<1>3. HashingWorkers' = HashingWorkers \ {w} /\ w \in HashingWorkers
  BY <1>0, <1>1, <1>2, WorkerStops
<1>4. Tried' = Tried \cup {nonce[w]} /\ nonce[w] \notin Tried
  <2>1. \A v \in Workers : tried'[v] = IF v = w THEN tried[w] \cup {nonce[w]} ELSE tried[v]
    BY <1>0, <1>1 DEF TypeOK
  <2>2. Tried' = Tried \cup {nonce[w]}
    BY <2>1 DEF Tried
  <2>3. nonce[w] \notin Tried
    BY <1>2, InvHashedOnce DEF NoNonceHashedTwice
  <2>4. QED
    BY <2>2, <2>3
<1>5. /\ IsFiniteSet(Tried) /\ IsFiniteSet(HashingWorkers)
      /\ Cardinality(Tried) \in Nat /\ Cardinality(HashingWorkers) \in Nat
  BY <1>0, CountedFinite
<1>6. /\ Cardinality(Tried') = Cardinality(Tried) + 1
      /\ Cardinality(HashingWorkers') = Cardinality(HashingWorkers) - 1
  BY <1>3, <1>4, <1>5, FS_AddElement, FS_RemoveElement
<1>7. Granted' = Granted
  BY <1>5, <1>6 DEF Granted
<1>8. /\ \A v \in refused : pc'[v] \in {"capped", "done"}
      /\ \A v \in Workers : pc'[v] = "capped" => v \in refused
  BY <1>0, <1>1, <1>2 DEF BudgetOK, TypeOK
<1>9. QED
  BY <1>1, <1>7, <1>8 DEF BudgetOK, Limited

LEMMA NextBudgetInv ==
    ASSUME IInv, BudgetInv, [Next]_vars
    PROVE  BudgetInv'
<1>0. TypeOK /\ CallerInv /\ StopInv
  BY DEF IInv
<1>1. PICK refused : BudgetOK(refused)
  BY DEF BudgetInv
<1>2. ASSUME NEW w \in Workers, Worker(w) PROVE \E more : BudgetOK(more)'
  <2>1. CASE WorkerCount(w)
    BY <1>0, <1>1, <2>1, CountBudget
  <2>2. CASE WorkerMiss(w) \/ WorkerHit(w)
    BY <1>1, <2>2, HashBudget
  <2>3. CASE WorkerCopy(w)
    <3>1. /\ pc[w] = "copy" /\ pc' = [pc EXCEPT ![w] = "hash"]
          /\ UNCHANGED <<job, attempts, tried, maximumAttemptsReached>>
      BY <2>3 DEF WorkerCopy, Goto
    <3>2. HashingWorkers' = HashingWorkers
      BY <1>0, <3>1 DEF HashingWorkers, Hashing, TypeOK
    <3>3. /\ \A v \in refused : pc'[v] \in {"capped", "done"}
          /\ \A v \in Workers : pc'[v] = "capped" => v \in refused
          /\ maximumAttemptsReached' => refused # {}
      BY <1>0, <1>1, <3>1 DEF BudgetOK, TypeOK
    <3>4. QED
      BY <1>1, <3>1, <3>2, <3>3, BudgetStays
  <2>4. CASE WorkerCapped(w)
    <3>1. /\ pc[w] = "capped" /\ pc' = [pc EXCEPT ![w] = "done"]
          /\ UNCHANGED <<job, attempts, tried>>
      BY <2>4 DEF WorkerCapped, Goto
    <3>2. HashingWorkers' = HashingWorkers
      BY <1>0, <3>1, WorkerElsewhere DEF Hashing
    <3>3. /\ \A v \in refused : pc'[v] \in {"capped", "done"}
          /\ \A v \in Workers : pc'[v] = "capped" => v \in refused
          /\ refused # {}
      BY <1>0, <1>1, <3>1 DEF BudgetOK, TypeOK
    <3>4. QED
      BY <1>1, <3>1, <3>2, <3>3, BudgetStays
  <2>5. CASE WorkerPoll(w) \/ WorkerPastMaxNonce(w) \/ WorkerSend(w) \/ WorkerCancel(w)
    <3>1. PICK label \in {"poll", "count", "cancel", "done"} :
             /\ pc[w] \in {"poll", "count", "send", "cancel"}
             /\ pc' = [pc EXCEPT ![w] = label]
             /\ UNCHANGED <<job, attempts, tried, maximumAttemptsReached>>
      BY <2>5 DEF WorkerPoll, WorkerPastMaxNonce, WorkerSend, WorkerCancel, Goto
    <3>2. HashingWorkers' = HashingWorkers
      BY <1>0, <3>1, WorkerElsewhere DEF Hashing
    <3>3. /\ \A v \in refused : pc'[v] \in {"capped", "done"}
          /\ \A v \in Workers : pc'[v] = "capped" => v \in refused
          /\ maximumAttemptsReached' => refused # {}
      BY <1>0, <1>1, <3>1 DEF BudgetOK, TypeOK
    <3>4. QED
      BY <1>1, <3>1, <3>2, <3>3, BudgetStays
  <2>6. QED
    BY <1>2, <2>1, <2>2, <2>3, <2>4, <2>5 DEF Worker
<1>3. ASSUME ~ \E w \in Workers : Worker(w) PROVE \E more : BudgetOK(more)'
  <2>1. /\ UNCHANGED <<job, nonce, attempts, maximumAttemptsReached, tried>>
        /\ \A w \in Workers : pc'[w] = pc[w] \/ (pc[w] = "idle" /\ pc'[w] = "poll")
    BY <1>0, <1>3, OtherStep
  <2>2. HashingWorkers' = HashingWorkers
    BY <2>1 DEF HashingWorkers, Hashing
  <2>3. /\ \A v \in refused : pc'[v] \in {"capped", "done"}
        /\ \A v \in Workers : pc'[v] = "capped" => v \in refused
        /\ maximumAttemptsReached' => refused # {}
    BY <1>1, <2>1 DEF BudgetOK
  <2>4. UNCHANGED <<job, attempts, tried>>
    BY <2>1
  <2>5. BudgetOK(refused)'
    BY ONLY <1>1, <2>2, <2>3, <2>4, BudgetStays
  <2>6. QED
    BY <2>5
<1>4. outcome'.status = "ErrMaxAttempts" => maximumAttemptsReached'
  <2>1. CASE \E w \in Workers : Worker(w)
    BY <1>0, <2>1, WorkerStep DEF BudgetInv
  <2>2. CASE MainGiveUp
    BY <2>2 DEF MainGiveUp, Return, workerVars
  <2>3. CASE EndContext \/ PropagateCancel \/ CloseWorkersDone \/ UNCHANGED vars
    BY <2>3 DEF EndContext, PropagateCancel, CloseWorkersDone, vars, workerVars, mainVars, BudgetInv
  <2>4. CASE MainSpawn \/ MainReceive \/ MainWriteBlock \/ MainWorkersDone
    BY <2>4 DEF MainSpawn, MainReceive, MainWriteBlock, MainWorkersDone, workerVars, BudgetInv
  <2>5. CASE MainRejectDifficulty \/ MainReturnResult \/ MainContextEnded
    BY <2>5 DEF MainRejectDifficulty, MainReturnResult, MainContextEnded, Return
  <2>6. QED
    BY <2>1, <2>2, <2>3, <2>4, <2>5 DEF Next, Main
<1>5. QED
  BY <1>2, <1>3, <1>4 DEF BudgetInv

LEMMA InitBudgetInv == Init => BudgetInv
<1> SUFFICES ASSUME Init PROVE BudgetOK({}) /\ outcome.status # "ErrMaxAttempts"
  BY DEF BudgetInv
<1>1. Tried = {} /\ HashingWorkers = {}
  BY DEF Init, Tried, HashingWorkers, Hashing
<1>2. Cardinality({}) = 0
  BY FS_EmptySet
<1>3. Granted = 0 /\ (0 + 0) % (MaxUint + 1) = 0
  BY <1>1, <1>2, UintAssumption DEF Granted
<1>4. Limited => 0 <= job.maxAttempts
  BY UintAssumption, WorkersAssumption DEF Limited
<1>5. QED
  BY <1>2, <1>3, <1>4 DEF BudgetOK, Init

(* The budget binds all workers together, and its error is never early.         *)
THEOREM BudgetIsKept == Spec => []AttemptBudget
<1>1. IInv /\ BudgetInv => AttemptBudget
  <2> SUFFICES ASSUME IInv, BudgetInv PROVE AttemptBudget
    OBVIOUS
  <2>1. TypeOK /\ CallerInv /\ StopInv
    BY DEF IInv
  <2>2. PICK refused : BudgetOK(refused)
    BY DEF BudgetInv
  <2>3. /\ Cardinality(Tried) \in Nat /\ Cardinality(HashingWorkers) \in Nat
        /\ Cardinality(refused) \in Nat
        /\ Cardinality(HashingWorkers) + Cardinality(refused) <= NumWorkers
    BY <2>1, <2>2, CountedFinite
  <2>4. job.maxAttempts \in Nat
    BY <2>1, JobsAssumption, UintAssumption DEF TypeOK, JobSet, Nonces
  <2>5. ASSUME Limited PROVE Cardinality(Tried) <= job.maxAttempts
    BY <2>2, <2>3, <2>4, <2>5 DEF BudgetOK, Granted
  <2>6. ASSUME Limited, outcome.status = "ErrMaxAttempts"
        PROVE  Cardinality(Tried) = job.maxAttempts
    <3>1. \A w \in Workers : pc[w] = "done"
      BY <2>1, <2>6 DEF CallerInv, StopInv, GiveUpStatus
    <3>2. Cardinality(HashingWorkers) = 0
      BY <3>1, FS_EmptySet DEF HashingWorkers, Hashing
    <3>3. refused # {}
      BY <2>2, <2>6 DEF BudgetOK, BudgetInv
    <3>4. QED
      BY <2>2, <2>3, <2>6, <3>2, <3>3 DEF BudgetOK, Granted
  <2>7. \E unhashed \in 0 .. NumWorkers :
           attempts = (Cardinality(Tried) + unhashed) % (MaxUint + 1)
    <3> DEFINE unhashed == Cardinality(HashingWorkers) + Cardinality(refused)
    <3>1. unhashed \in 0 .. NumWorkers
      BY <2>3, WorkersAssumption
    <3>2. Granted + Cardinality(refused) = Cardinality(Tried) + unhashed
      BY <2>3 DEF Granted
    <3>3. attempts = (Cardinality(Tried) + unhashed) % (MaxUint + 1)
      BY <2>2, <3>2 DEF BudgetOK
    <3>4. QED
      BY <3>1, <3>3
  <2>8. QED
    BY <2>5, <2>6, <2>7 DEF AttemptBudget, Limited
<1>2. Spec => []BudgetInv
  BY InitBudgetInv, NextBudgetInv, InductiveInvariant, PTL DEF Spec
<1>3. QED
  BY <1>1, <1>2, InductiveInvariant, PTL
==========================================================================
