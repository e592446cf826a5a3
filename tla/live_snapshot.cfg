SPECIFICATION FairSpec
CONSTANTS
    Key = {"a"}
    Value = {"u"}
    ShardCount = 1
    ShardOf <- MCShardOf
    KeyLen <- MCKeyLen
    ValLen <- MCValLen
    MaxTime = 1
    MaxTTL = 0
    IoFaults = FALSE
    TabKey = {}
    RewriteThreshold = 0
    Thread = {t1, t2}
    Loop = loop
    Stopper = stopper
    Blank = Blank
    None = None
    Workload <- WlSnap
    MaxRequests = 2
    MaxKeySize = 4
    MaxValueSize = 4
    MaxMemory = 100
    AofEnabled = FALSE
    RdbEnabled = TRUE
    SaveRules <- RuleSoon
PROPERTIES RequestsReturn RulesHonoured
CHECK_DEADLOCK FALSE
