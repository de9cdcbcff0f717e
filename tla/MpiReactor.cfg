SPECIFICATION FairSpec
CONSTANTS
    Tasks = {t1, t2}
    Callers = {t1}
    MaxFutures = 3
    Word = 8
    None = None
PROPERTIES ImplementsReactor NoneSkipped Completes Quiesces
CHECK_DEADLOCK FALSE
