SPECIFICATION FairSpec
CONSTANTS
    Requests = {r1, r2}
    Headers = {"authorization"}
    OnUnknown = {"passthrough"}
    OnRedisError = {"passthrough", "reject"}
    Capacity = 1
    TokenLimit <- MCTokenLimit
    TTL <- MCTTL
    MaxUsage = 2
    MaxTroubles = 1
INVARIANT TypeOK
INVARIANT TokenOvershootBounded
INVARIANT UsageCovered
INVARIANT QuotaConserved
PROPERTY ImplementsLedger
PROPERTY TokensComeBack
