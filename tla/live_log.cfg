SPECIFICATION FairSpec
CONSTANTS
    Key = {"a"}
    Value = {"u"}
    ShardCount = 1
    ShardOf <- MCShardOf
    KeyLen <- MCKeyLen
    ValLen <- MCValLen
    MaxTime = 2
    MaxTTL = 2
    IoFaults = FALSE
    TabKey = {}
    RewriteThreshold = 1
    Thread = {t1}
    Loop = loop
    Stopper = stopper
    Blank = Blank
    None = None
    Workload <- WlSets
    MaxRequests = 2
    MaxKeySize = 4
    MaxValueSize = 4
    MaxMemory = 100
    AofEnabled = TRUE
    RdbEnabled = FALSE
    SaveRules <- NoRules
PROPERTIES ExpiryHappens RequestsReturn
CHECK_DEADLOCK FALSE
