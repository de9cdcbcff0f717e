SPECIFICATION BootstrapFairSpec
CONSTANTS
    p0 = p0
    p1 = p1
    p2 = p2
    Procs = {p0, p1, p2}
    Launches <- SomeLaunches
    MaxRetries = 2
    MaxFaults = 2
    NoProc = NoProc
INVARIANT TablesUsable
PROPERTIES Established NobodyHangs
CHECK_DEADLOCK FALSE
