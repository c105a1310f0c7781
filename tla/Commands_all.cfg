\* Each of the seven parts, one at a time.
SPECIFICATION CommandsSpec
CONSTANTS
    Checked = {"compaction", "migration", "project", "refresh", "reports", "schedule", "journal"}
    b1 = b1
    b2 = b2
    b3 = b3
    Batch = {b1, b2, b3}
    KeyOf <- Key1
    Compactor = {c1, c2}
    Lease = TRUE
    Policies <- Policies1
    Pub = Pub
    Gone = Gone
    MaxCrashes = 2
    Proc = {p, q}
    Fresh = Fresh
    plain = plain
    safe = safe
    ModelName = {1, 2, 3}
    Deployed = {plain, safe}
    Redacting = {safe}
    Declarable <- Declared1
    MaxProjectEdits = 1
    MaxProjectCommands = 2
    dev = dev
    prod = prod
    Null = Null
    Absent = Absent
    Binaries = {4, 5}
    Stores = {Fresh, 2}
    MaxMigrates = 3
    MaxKills = 1
    Env = {dev, prod}
    RefVersion = {"v1", "v2"}
    Places <- Placed
    Key = {1, 2, 4}
    Value = {"x", "y"}
    RefSources <- Results
    MaxTime = 2
    MaxResults = 2
    MaxApplies <- Applies
    Directory = {"/a/my-shop", "/b/my.shop", "/a/web"}
    Scheduled = {"prod", "dev"}
    Words <- Words1
    MaxSchedules = 4
    MaxScheduleKills = 1
    MaxTicks = 4
    MaxFaults = 1
INVARIANTS
    NothingLost ReadOnce
    OpenedIsComplete MigrateRepairs BackupIsTheStore
    OrderExact HonestBuilds NeverWritten
    Reconciled ChecksExact ReportsExact ScheduleKept
PROPERTY ClosedStays
SYMMETRY Symmetric
CHECK_DEADLOCK FALSE
