SPECIFICATION Spec
CONSTANTS
    Workers = {w1, w2}
    Ops = {o1, o2}
    Ids = {i1}
    Word = 8
    MaxHandles = 2
INVARIANTS CountMirrorsStates InFlightPolled RestsWhenClosed
CHECK_DEADLOCK FALSE
