SPECIFICATION Spec
CONSTANTS
    m = m
    n = n
    v1 = v1
    v2 = v2
    v3 = v3
    dev = dev
    prod = prod
    None = None
    Name = {m}
    Fp = {v1, v2}
    Env = {dev, prod}
    Interval = {1}
    Kind <- AllFull
    Projects <- FullProjects
    Reuse = {m}
    Dialect = "duckdb"
    Isolation = "serial"
    Overlap = TRUE
    FailAt = {"create", "register", "views", "janitor"}
INVARIANTS TypeOK RowsAlive RollbackWindow
SYMMETRY Symmetric
