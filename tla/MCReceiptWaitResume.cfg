SPECIFICATION Spec
CONSTANTS
    HookWindow = 2
    Checkpoints <- TwoCheckpoints
    Deadline = 3
    IdStaged = FALSE
    Doubts = {"pane_in_mode"}
    MaxDetaches = 0
    MaxEvents = 4
    MaxOutage = 1
    MaxLate = 0
INVARIANT ResumeSafe
