SPECIFICATION FairSpec
CONSTANTS
    NumWorkers = 2
    MaxUint = 3
    NoHash = NoHash
    NoResult = NoResult
    Jobs <- MCJobsUnsolvable
PROPERTY CancelledBeforeCall
CHECK_DEADLOCK FALSE
