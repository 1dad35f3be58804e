SPECIFICATION FairSpec
CONSTANTS
    l1 = l1
    l2 = l2
    p1 = p1
    p2 = p2
    Main = Main
    Requests = {l1, l2}
    Local = {l1, l2}
    NudgeCap = 1
    PipeCap = 2
    MaxSignals = 1
CHECK_DEADLOCK FALSE
PROPERTY ShutdownReturns
