SPECIFICATION DSpec
CONSTANTS
    Key = {"a"}
    Value = {"u"}
    ShardCount = 1
    ShardOf <- MCShardOf
    KeyLen <- MCKeyLen
    ValLen <- MCValLen
    MaxTime = 1
    MaxTTL = 1
    IoFaults = FALSE
    TabKey = {}
    RewriteThreshold = 0
    Thread = {t1}
    Loop = loop
    Stopper = stopper
    Blank = Blank
    None = None
    Workload <- WlAll
    MaxRequests = 2
    MaxKeySize = 4
    MaxValueSize = 4
    MaxMemory = 100
    AofEnabled = TRUE
    RdbEnabled = FALSE
    SaveRules <- NoRules
    Ends = {"kill"}
    HandlersOutlive = FALSE
    Found <- NothingFound
    CutKeys <- FirstLetter
    MaxBoots = 2
INVARIANTS RestartForgets
CHECK_DEADLOCK FALSE
