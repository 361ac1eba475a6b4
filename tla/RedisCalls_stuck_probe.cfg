SPECIFICATION FairSpec
CONSTANTS
    Tasks = {t1}
    FailureThreshold = 2
    UsePing = FALSE
    MaxTroubles = 2
PROPERTY BreakerRecovers
