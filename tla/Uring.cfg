SPECIFICATION FairSpec
CONSTANTS
    Configs <- Submitting
    SubmitDepth = 2
    WaitSubmit = 1
    WaitComplete = 2
    MaxOps = 2
INVARIANTS OutstandingTracked OnlyUnpolledMissed NoLostCompletion
PROPERTY Completes
CHECK_DEADLOCK FALSE
