SPECIFICATION Spec
CONSTANTS
    Msg = {m1, m2, m3}
    Uninit = Uninit
    InitCap = 2
    MaxCap = 4
    MaxHandles = 2
SYMMETRY Symmetry
INVARIANTS TypeOK InitializedExactly NoLeak
PROPERTY ImplementsFifo
CHECK_DEADLOCK FALSE
