SPECIFICATION Spec
CONSTANTS
    Proc = {p, q, r}
    Nobody = Nobody
    NoRow = NoRow
    Ttl = 4
    SeedDelay = 1
    BeatDelay = 1
    Skew = 0
    MaxTime = 9
    MaxCrashes = 1
SYMMETRY Symmetric
INVARIANT Exclusion
