---------------------------- MODULE MineCall ----------------------------
(***************************************************************************)
(* What one call of Block.Mine promises to its caller, without goroutines. *)
(* The call is pending; meanwhile the caller's context may end; then the   *)
(* call returns once, either with a sealed block or with an error and the  *)
(* block untouched.  Mining.tla implements this module; Node.tla relies on *)
(* it for Chain.MineBlock.                                                 *)
(***************************************************************************)
EXTENDS Integers

CONSTANTS MaxUint,  \* the largest uint64 nonce
          NoHash    \* the empty string in Block.Hash

VARIABLES job,      \* the block's proof-of-work puzzle and the limits of the call
          ctx,      \* the caller's context: "live", "cancelled" or "deadline"
          blk,      \* the fields Nonce and Hash of the block being mined
          outcome   \* what the call has returned, status "pending" before

callVars == <<job, ctx, blk, outcome>>

Unmined == [nonce |-> 0, hash |-> NoHash]

Pending == [status |-> "pending", nonce |-> 0]

Failed(err) == [status |-> err, nonce |-> 0]

(***************************************************************************)
(* The nonces the call may try: all of uint64, or up to MaxNonce when that *)
(* limit is set (zero means no limit).                                     *)
(***************************************************************************)
Candidates(j) == 0 .. (IF j.maxNonce > 0 THEN j.maxNonce ELSE MaxUint)

EndContext(reason) ==
    /\ ctx = "live"
    /\ ctx' = reason
    /\ UNCHANGED <<job, blk, outcome>>

(***************************************************************************)
(* Success: the nonce solves the puzzle and respects MaxNonce.  The hash   *)
(* of the block with nonce n is written as n itself: hashes of distinct    *)
(* nonces are distinct, and only "which nonce was hashed" matters here.    *)
(***************************************************************************)
Succeed ==
    /\ outcome = Pending
    /\ job.difficultyOK
    /\ \E n \in Candidates(job) \cap job.solutions :
          /\ blk' = [nonce |-> n, hash |-> n]
          /\ outcome' = [status |-> "mined", nonce |-> n]
    /\ UNCHANGED <<job, ctx>>

(***************************************************************************)
(* Failure leaves the block alone.  ErrMaxNonce is a proof that no         *)
(* candidate solves the puzzle, unless the context ended; the two context  *)
(* errors are only reported for a context that ended that way;             *)
(* ErrMaxAttempts only for a call that set that limit.                     *)
(***************************************************************************)
Fail ==
    /\ outcome = Pending
    /\ \/ /\ ~job.difficultyOK
          /\ outcome' = Failed("ErrDifficulty")
       \/ /\ job.difficultyOK /\ ctx = "deadline"
          /\ outcome' = Failed("ErrMiningTimeout")
       \/ /\ job.difficultyOK /\ ctx = "cancelled"
          /\ outcome' = Failed("ErrMiningCancelled")
       \/ /\ job.difficultyOK /\ job.maxAttempts > 0
          /\ outcome' = Failed("ErrMaxAttempts")
       \/ /\ job.difficultyOK
          /\ ctx = "live" => Candidates(job) \cap job.solutions = {}
          /\ outcome' = Failed("ErrMaxNonce")
    /\ UNCHANGED <<job, ctx, blk>>

Init ==
    /\ ctx \in {"live", "cancelled", "deadline"}
    /\ blk = Unmined
    /\ outcome = Pending

Next ==
    \/ \E reason \in {"cancelled", "deadline"} : EndContext(reason)
    \/ Succeed
    \/ Fail

SafeSpec == Init /\ [][Next]_callVars
Spec == SafeSpec /\ WF_callVars(Succeed \/ Fail)
==========================================================================
