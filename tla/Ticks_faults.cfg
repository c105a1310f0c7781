\* Every interval of four hours and two days, batches of two, no or one
\* interval read again, two faults of any kind anywhere.
SPECIFICATION Spec
CONSTANTS
    MaxTime = 4
    Grain = 2
    BatchSize = 2
    Lookbacks = {0, 1}
    Ranges <- Days
    None = None
    MaxFaults = 2
    Crashes = TRUE
INVARIANTS DoneIsAudited RestateTakesEffect PassportHonest ExportVerified
    ManifestsFollow OkMeansCaughtUp
CHECK_DEADLOCK FALSE
