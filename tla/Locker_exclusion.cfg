SPECIFICATION Spec
CONSTANTS
    NoThread = NoThread
    Threads = {main, t1, t2, t3, t4, t5}
    Relockers = {main}
INVARIANT MutualExclusion
