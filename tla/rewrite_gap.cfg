SPECIFICATION Spec
CONSTANTS
    Key = {"a", "b"}
    Value = {"u"}
    ShardCount = 1
    ShardOf <- MCShardOf
    KeyLen <- MCKeyLen
    ValLen <- MCValLen
    MaxTime = 0
    MaxTTL = 0
    IoFaults = FALSE
    TabKey = {}
    RewriteThreshold = 1
    Thread = {t1, t2}
    Loop = loop
    Stopper = stopper
    Blank = Blank
    None = None
    Workload <- WlOwned
    MaxRequests = 2
    MaxKeySize = 4
    MaxValueSize = 4
    MaxMemory = 100
    AofEnabled = TRUE
    RdbEnabled = FALSE
    SaveRules <- NoRules
INVARIANTS Durable
CHECK_DEADLOCK FALSE
