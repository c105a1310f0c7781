SPECIFICATION Spec
CONSTANTS
    m = m
    n = n
    v1 = v1
    v2 = v2
    v3 = v3
    dev = dev
    prod = prod
    None = None
    Name = {m}
    Fp = {v1, v2}
    Env = {dev}
    Interval = {1}
    Kind <- AllIncremental
    Projects <- AnyProject
    Reuse = {m}
    Dialect = "duckdb"
    Isolation = "serial"
    Overlap = FALSE
    FailAt = {"create"}
INVARIANT ServedComplete
