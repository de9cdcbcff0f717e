SPECIFICATION CollectiveFairSpec
CONSTANT
    Jobs <- AheadJobs
INVARIANT ResultCorrect
CHECK_DEADLOCK FALSE
