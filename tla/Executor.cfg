SPECIFICATION FairSpec
CONSTANTS
    Reactors = {r1}
    PollInterval = 2
    StatusCache = 2
    MaxReactorOnly = 1
    MaxStuck = 5
    MaxTasks = 3
    MaxKeys = 2
    Programs <- Mixed
INVARIANTS TypeOK SlabConsistent NoLostWakeup BlockOnHasResult ReactorPolledInTime
PROPERTIES CallsComplete StarvationFree
CHECK_DEADLOCK FALSE
