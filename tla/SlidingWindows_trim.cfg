SPECIFICATION Spec
CONSTANTS
    Workers = {w1}
    Limit <- MCLimit
    TTL <- MCTTL
    QuotaBatchSize = 2
    LimitDivisor = 0
    MaxTroubles = 0
INVARIANT AllWindowsOvershoot
