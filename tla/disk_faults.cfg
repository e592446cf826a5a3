SPECIFICATION Spec
CONSTANTS
    Key = {"a"}
    Value = {"u"}
    ShardCount = 1
    ShardOf <- MCShardOf
    KeyLen <- MCKeyLen
    ValLen <- MCValLen
    MaxTime = 0
    MaxTTL = 0
    IoFaults = TRUE
    TabKey = {}
    RewriteThreshold = 2
    Thread = {t1, t2}
    Loop = loop
    Stopper = stopper
    Blank = Blank
    None = None
    Workload <- WlSnap
    MaxRequests = 3
    MaxKeySize = 4
    MaxValueSize = 4
    MaxMemory = 100
    AofEnabled = TRUE
    RdbEnabled = TRUE
    SaveRules <- RuleNow
INVARIANTS TypeOK RdbFileWhole SnapshotExclusive
SYMMETRY Alike
VIEW NoStats
CHECK_DEADLOCK FALSE
