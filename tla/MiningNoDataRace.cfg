SPECIFICATION Spec
CONSTANTS
    NumWorkers = 2
    MaxUint = 3
    NoHash = NoHash
    NoResult = NoResult
    Jobs <- MCJobs
INVARIANT NoDataRace
CHECK_DEADLOCK FALSE
