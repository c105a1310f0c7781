SPECIFICATION Spec
CONSTANTS
    m = m
    n = n
    v1 = v1
    v2 = v2
    v3 = v3
    dev = dev
    prod = prod
    None = None
    Name = {m}
    Fp = {v1, v2}
    Env = {dev, prod}
    Interval = {1, 2}
    Kind <- AllIncremental
    Projects <- AnyProject
    Reuse = {}
    Dialect = "duckdb"
    Isolation = "readCommitted"
    Overlap = FALSE
    FailAt = {"inherit", "create", "register", "fill", "janitor"}
INVARIANTS ViewsFollowRows ViewsResolve
SYMMETRY Symmetric
