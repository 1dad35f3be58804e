SPECIFICATION FairSpec
CONSTANTS
    Callers = {c1, c2}
    Senders = {}
    Closers = {}
    Kind <- OnePut
    Timeout <- AllTimed
    PipeCap = 2
    OutCap = 4
    None = None
PROPERTY ResponsesUnderstood
