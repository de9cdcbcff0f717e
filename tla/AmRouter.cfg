SPECIFICATION FairSpec
CONSTANTS
    Keys = {k1, k2}
    MaxFutures = 2
    Tasks = {t1, t2}
    MaxMsgs = 3
    None = None
INVARIANTS TargetValid WakersCurrent MatchedInOrder
PROPERTY Received
CHECK_DEADLOCK FALSE
