SPECIFICATION FairSpec
CONSTANTS
    l1 = l1
    l2 = l2
    p1 = p1
    p2 = p2
    Main = Main
    Requests = {l1, p1}
    Local = {l1}
    NudgeCap = 4
    PipeCap = 2
    MaxSignals = 2
INVARIANTS
    TypeOK
    NoLostNudge
    ShutdownRemembered
    WritersFindSocket
PROPERTIES
    ImplementsConduit
    ResponsesArrive
    ShutdownCompletes
    JoinEnds
