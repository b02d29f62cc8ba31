\* Three workers over the eight nonces of a 3-bit uint, which 3 does not divide.
SPECIFICATION FairSpec
CONSTANTS
    NumWorkers = 3
    MaxUint = 7
    NoHash = NoHash
    NoResult = NoResult
    Jobs <- MCJobs
INVARIANTS
    TypeOK
    NoNonceHashedTwice
    SealedOrUntouched
    NoSolutionLost
    LeastOfItsStride
    ExhaustedMeansSearched
    AttemptBudget
PROPERTIES
    RefinesMineCall
    Terminates
    NoGoroutineLeak
\* Mine returns and its goroutines exit: the system stops.
CHECK_DEADLOCK FALSE
