SPECIFICATION FairSpec
CONSTANTS
    Proc = {p, q}
    Nobody = Nobody
    NoRow = NoRow
    Ttl = 4
    SeedDelay = 1
    BeatDelay = 9
    Skew = 1
    MaxTime = 9
    MaxCrashes = 1
INVARIANT FenceExact
PROPERTY CrashedLockReclaimed
