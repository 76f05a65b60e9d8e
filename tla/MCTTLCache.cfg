CONSTANTS
    Key = {k1, k2, k3}
    Value = {v1, v2}
    TTL = 2
    MaxSize = 2
SPECIFICATION FairSpec
INVARIANTS
    TypeOK
    Bounded
PROPERTIES
    ImplementsStore
    ExpiredIsCollected
