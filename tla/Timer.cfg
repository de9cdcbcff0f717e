SPECIFICATION FairSpec
CONSTANTS
    Tasks = {t1, t2}
    MaxFutures = 2
    MaxTime = 2
    Word = 8
    None = None
INVARIANTS NoTimerLeaked SleepersArmed
PROPERTIES ImplementsReactor Resolves
CHECK_DEADLOCK FALSE
