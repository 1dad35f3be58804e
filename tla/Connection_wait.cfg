SPECIFICATION FairSpec
CONSTANTS
    Callers = {c1, c2}
    Senders = {}
    Closers = {}
    Kind <- AllFramed
    Timeout <- NoneTimed
    PipeCap = 2
    OutCap = 4
    None = None
PROPERTY CallsReturn
