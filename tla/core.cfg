SPECIFICATION Spec
CONSTANTS
    Key = {"a", "b", "c", "long"}
    Value = {"u", "big", "huge"}
    ShardCount = 1
    ShardOf <- MCShardOf
    KeyLen <- MCKeyLen
    ValLen <- MCValLen
    MaxTime = 2
    MaxTTL = 1
    IoFaults = FALSE
    TabKey = {}
    RewriteThreshold = 0
    Thread = {t1, t2}
    Loop = loop
    Stopper = stopper
    Blank = Blank
    None = None
    Workload <- WlCore
    MaxRequests = 3
    MaxKeySize = 4
    MaxValueSize = 4
    MaxMemory = 4
    AofEnabled = TRUE
    RdbEnabled = FALSE
    SaveRules <- NoRules
INVARIANTS MemAccounting MemoryCeiling Armed
PROPERTIES ImplementsKV
SYMMETRY Alike
VIEW NoStats
CHECK_DEADLOCK FALSE
