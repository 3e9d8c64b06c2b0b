SPECIFICATION FairPoolSpec
CONSTANTS
    Items = 4
    Worker = {w1, w2, w3}
    NoItem = NoItem
INVARIANTS
    BatchIsPrefix
PROPERTIES
    PoolReturns
