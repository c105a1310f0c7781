SPECIFICATION Spec
CONSTANTS
    Order <- Through
    Deps <- ThroughDeps
    Table <- Tables
    Dialect = "postgres"
    Jobs = 2
    Concurrency = 2
    Attempts = 1
    Lookback = 1
    MaxInterval = 1
    MaxFaults = 0
INVARIANT DoneIsComplete
