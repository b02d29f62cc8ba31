----------------------------- MODULE MCMining -----------------------------
(* Instances of Mining for TLC: a few puzzles and limits for each run.      *)
EXTENDS Mining

(* At most one or two solutions, with and without each of the two limits.  The last *)
(* attempt limit lets the workers drive the counter to the top of its range.       *)
MCJobs ==
    [difficultyOK : {TRUE}, solutions : {S \in SUBSET Nonces : Cardinality(S) <= 1 \/ S \in {{1, 2}, {1, 4}}},
     maxNonce : {0, 2}, maxAttempts : {0, 2}]
        \cup [difficultyOK : {TRUE}, solutions : {{}, {3}}, maxNonce : {0}, maxAttempts : {MaxUint - NumWorkers}]
        \cup [difficultyOK : {FALSE}, solutions : {{}}, maxNonce : {0}, maxAttempts : {0}]

(* Nothing to find: the search can only be ended or be exhausted.           *)
MCJobsUnsolvable ==
    [difficultyOK : {TRUE}, solutions : {{}}, maxNonce : {0}, maxAttempts : {0}]
==========================================================================
