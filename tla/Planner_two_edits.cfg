SPECIFICATION Spec
CONSTANTS
    dev = dev
    prod = prod
    Name = {"a", "b", "d"}
    Env = {prod}
    None = None
    Kind <- Kind1
    Deps <- Deps1
    Projects <- TwoEdits
    Forward = {{}}
    Verdicts <- NoOverrides
    Versions = {2}
    Column <- Column1
    Reads <- Reads1
    Meaning <- Meaning1
    Listed = {"plain", "uniq"}
    Distinct = {"uniq"}
    MaxApplies = 3
INVARIANT Coherent
CHECK_DEADLOCK FALSE
