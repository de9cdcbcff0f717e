SPECIFICATION FairSpec
CONSTANTS
    Reactors = {r1}
    PollInterval = 1
    StatusCache = 0
    MaxReactorOnly = 1
    MaxStuck = 2
    MaxTasks = 3
    MaxKeys = 2
    Programs <- Reusing
PROPERTY BlockOnIndependent
CHECK_DEADLOCK FALSE
