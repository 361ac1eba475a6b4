SPECIFICATION Spec
CONSTANTS
    Requests = {r1}
    Headers = {"authorization", "api-key"}
    OnUnknown = {"passthrough"}
    OnRedisError = {"reject"}
    Capacity = 1
    TokenLimit <- MCTokenLimit
    TTL <- MCTTL
    MaxUsage = 1
    MaxTroubles = 0
INVARIANT UsageCovered
