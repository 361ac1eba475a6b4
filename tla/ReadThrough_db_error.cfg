SPECIFICATION Spec
CONSTANTS
    Workers = {w1}
    Slots = {k1}
    Admins = {}
    OutsideWrites = TRUE
    Policies = {p1}
    NoPolicy = NoPolicy
    L1TTL = 1
    NegativeTTL = 0
    RedisTTL = 1
    MaxDelay = 1
    MaxAge = 5
    MaxDbErrors = 1
    MaxOutages = 0
SYMMETRY MCSymmetry
INVARIANT AbsenceConfirmed
