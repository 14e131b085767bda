SPECIFICATION FairSpec
CONSTANTS
    HookWindow = 2
    Checkpoints <- TwoCheckpoints
    Deadline = 3
    IdStaged = FALSE
    Doubts = {"occupant_unprovable"}
    MaxDetaches = 0
    MaxEvents = 2
    MaxOutage = 1
    MaxLate = 0
PROPERTY WaitEnds
