SPECIFICATION FairSpec
CONSTANTS
    Tasks = {t1, t2}
    FailureThreshold = 1
    UsePing = TRUE
    MaxTroubles = 2
INVARIANT TypeOK
INVARIANT ProbeHasOwner
INVARIANT ScriptLossInvisible
PROPERTY BreakerRecovers
PROPERTY CallsReturn
