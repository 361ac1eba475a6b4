SPECIFICATION FairSpec
CONSTANTS
    Workers = {w1, w2}
    Slots = {k1}
    Limit <- MCTightLimit
    QuotaBatchSize = 2
    MaxFlush = 2
    OnRedisError = {"passthrough", "reject", "local_fallback"}
    MaxPrefetch = 1
    MaxRefunds = 1
    MaxRedisErrors = 2
    MaxLosses = 1
INVARIANT TypeOK
INVARIANT EveryAdmissionCounted
PROPERTY QuotaFullyUsable
