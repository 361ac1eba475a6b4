SPECIFICATION Spec
CONSTANTS
    Workers = {w1}
    Slots = {k1, k2}
    Limit <- MCLimit
    QuotaBatchSize = 2
    MaxFlush = 2
    OnRedisError = {"reject"}
    MaxPrefetch = 2
    MaxRefunds = 0
    MaxRedisErrors = 0
    MaxLosses = 0
SYMMETRY MCSymmetry
INVARIANT OvershootBounded
