SPECIFICATION FairSpec
CONSTANTS
    Clients = {c1, c2, c3}
    States = {s1, s2}
    PoolSize = 2
    MaxQueue = 3
    MaxHeld = 2
    None = None
INVARIANTS TypeOK OneOwner NoneLost EnoughWoken
PROPERTY FreeBuffersAreTaken
CHECK_DEADLOCK FALSE
