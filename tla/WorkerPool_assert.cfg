SPECIFICATION Spec
CONSTANTS
    r1 = r1
    r2 = r2
    r3 = r3
    w1 = w1
    w2 = w2
    w3 = w3
    search = search
    indexer = indexer
    NoRequest = NoRequest
    NoWorker = NoWorker
    NoGroup = NoGroup
    Requests = {r1, r2}
    Workers = {w1, w2}
    Groups = {search, indexer}
    GroupOf <- MCGroupOf
INVARIANT AssertsHold
