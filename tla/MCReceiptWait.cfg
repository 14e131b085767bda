SPECIFICATION FairSpec
CONSTANTS
    HookWindow = 1
    Checkpoints <- ShortCheckpoints
    Deadline = 2
    IdStaged = FALSE
    Doubts = {"pane_in_mode", "occupant_unprovable", "capture_fails"}
    MaxDetaches = 1
    MaxEvents = 1
    MaxOutage = 1
    MaxLate = 0
INVARIANT FullWindow
PROPERTY ScreenReceiptIsOurs
PROPERTY WaitEndsUnlessCrossed
