SPECIFICATION FairSpec
CONSTANTS
    o1 = o1
    o2 = o2
    t1 = t1
    t2 = t2
    Attempts <- MCAttempts
    Turns = {t1, t2}
    EndsCap = 1
    Loads <- MCLoads
PROPERTY DraftProtected
PROPERTY ForeignReceiptHarmless
PROPERTY OnlyItsOwnEnd
PROPERTY PinnedEndKept
PROPERTY BarrierLiftsUnlessMarked
