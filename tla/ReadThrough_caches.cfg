SPECIFICATION Spec
CONSTANTS
    Workers = {w1}
    Slots = {k1}
    Admins = {a1, a2}
    OutsideWrites = TRUE
    Policies = {p1, p2}
    NoPolicy = NoPolicy
    L1TTL = 1
    NegativeTTL = 0
    RedisTTL = 2
    MaxDelay = 1
    MaxAge = 6
    MaxDbErrors = 1
    MaxOutages = 1
SYMMETRY MCSymmetry
INVARIANT TypeOK
INVARIANT ServedIsRecent
INVARIANT AbsenceConfirmedWithoutErrors
