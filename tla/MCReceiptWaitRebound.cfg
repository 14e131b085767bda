SPECIFICATION Spec
CONSTANTS
    HookWindow = 2
    Checkpoints <- TwoCheckpoints
    Deadline = 3
    IdStaged = FALSE
    Doubts = {"occupant_unprovable"}
    MaxDetaches = 0
    MaxEvents = 1
    MaxOutage = 2
    MaxLate = 1
INVARIANT ReboundIsProved
