SPECIFICATION CollectiveFairSpec
CONSTANT
    Jobs <- MCJobs
INVARIANTS ResultCorrect
PROPERTY AllReturn
CHECK_DEADLOCK FALSE
