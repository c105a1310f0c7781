SPECIFICATION Spec
CONSTANTS
    m = m
    n = n
    v1 = v1
    v2 = v2
    v3 = v3
    dev = dev
    prod = prod
    None = None
    Name = {m, n}
    Fp = {v1, v2, v3}
    Env = {dev}
    Interval = {1, 2}
    Kind <- MixedKinds
    Projects <- TwoModels
    Reuse = {m}
    Dialect = "duckdb"
    Isolation = "serial"
    Overlap = FALSE
    FailAt = {"views", "janitor"}
INVARIANTS LedgerBacked ServedComplete PhysicsKept
 
