SPECIFICATION FairSpec
CONSTANTS
    HookWindow = 2
    Checkpoints <- TwoCheckpoints
    Deadline = 3
    IdStaged = FALSE
    Doubts = {}
    MaxDetaches = 1
    MaxEvents = 0
    MaxOutage = 1
    MaxLate = 1
PROPERTY WaitEnds
