SPECIFICATION Spec
CONSTANTS
    Order <- Chain
    Deps <- ChainDeps
    Table <- Tables
    Dialect = "postgres"
    Jobs = 2
    Concurrency = 2
    Attempts = 1
    Lookback = 1
    MaxInterval = 2
    MaxFaults = 1
INVARIANTS DoneIsComplete LoadedOnce
PROPERTIES ApplyEnds CatchesUp
