SPECIFICATION FairSpec
CONSTANTS
    Workers = {w1, w2}
    Limit <- MCLimit
    TTL <- MCTTL
    QuotaBatchSize = 2
    LimitDivisor = 0
    MaxTroubles = 1
INVARIANT TypeOK
INVARIANT ShortWindowOvershoot
INVARIANT RefusedOnlyWhenUsedUp
INVARIANT OutageOvershoot
INVARIANT RefundErrorHeals
PROPERTY NotLockedOut
