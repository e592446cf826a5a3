SPECIFICATION Spec
CONSTANTS
    Key = {"a", "b"}
    Value = {"u"}
    ShardCount = 2
    ShardOf <- MCShardOf
    KeyLen <- MCKeyLen
    ValLen <- MCValLen
    MaxTime = 1
    MaxTTL = 1
    IoFaults = FALSE
    TabKey = {}
    RewriteThreshold = 1
    Thread = {t1, t2}
    Loop = loop
    Stopper = stopper
    Blank = Blank
    None = None
    Workload <- WlUniform
    MaxRequests = 3
    MaxKeySize = 4
    MaxValueSize = 4
    MaxMemory = 100
    AofEnabled = TRUE
    RdbEnabled = FALSE
    SaveRules <- NoRules
INVARIANTS NewFileCovers
VIEW NoStats
CHECK_DEADLOCK FALSE
