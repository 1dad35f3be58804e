SPECIFICATION FairSpec
CONSTANTS
    Callers = {c1, c2, c3}
    Senders = {c3}
    Closers = {k1}
    Kind <- SendersGet
    Timeout <- AllTimed
    PipeCap = 1
    OutCap = 3
    None = None
INVARIANTS
    TypeOK
    NoneForgotten
PROPERTIES
    ImplementsCalls
    ResponsesUnderstood
    CallsReturn
