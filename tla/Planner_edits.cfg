SPECIFICATION Spec
CONSTANTS
    dev = dev
    prod = prod
    Name = {"a", "b", "c", "v", "w", "s"}
    Env = {dev, prod}
    None = None
    Kind <- Kind1
    Deps <- Deps1
    Projects <- Edits
    Forward = {{}, {"a"}}
    Verdicts <- OneOverride
    Versions = {1, 2}
    Column <- Column1
    Reads <- Reads1
    Meaning <- Meaning1
    Listed = {"plain", "uniq"}
    Distinct = {"uniq"}
    MaxApplies = 3
INVARIANTS Coherent OneAlgorithm
PROPERTIES Isolated AppendsSpareOthers
SYMMETRY Symmetric
CHECK_DEADLOCK FALSE
