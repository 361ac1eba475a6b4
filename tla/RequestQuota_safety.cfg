SPECIFICATION Spec
CONSTANTS
    Workers = {w1, w2}
    Slots = {k1, k2}
    Limit <- MCLimit
    QuotaBatchSize = 2
    MaxFlush = 2
    OnRedisError = {"reject"}
    MaxPrefetch = 1
    MaxRefunds = 2
    MaxRedisErrors = 1
    MaxLosses = 0
SYMMETRY MCSymmetry
INVARIANT EveryAdmissionCounted
INVARIANT OvershootBounded
INVARIANT LocalDenyOnlyWhenExhausted
INVARIANT PhantomUsageBounded
PROPERTY NoFalseDenial
PROPERTY ImplementsLedger
