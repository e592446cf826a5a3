SPECIFICATION DSpec
CONSTANTS
    Key = {"a", "b"}
    Value = {"u"}
    ShardCount = 1
    ShardOf <- MCShardOf
    KeyLen <- MCKeyLen
    ValLen <- MCValLen
    MaxTime = 1
    MaxTTL = 1
    IoFaults = FALSE
    TabKey = {}
    RewriteThreshold = 0
    Thread = {t1, t2}
    Loop = loop
    Stopper = stopper
    Blank = Blank
    None = None
    Workload <- WlOwned
    MaxRequests = 2
    MaxKeySize = 4
    MaxValueSize = 4
    MaxMemory = 100
    AofEnabled = TRUE
    RdbEnabled = FALSE
    SaveRules <- NoRules
    Ends = {"stop", "kill", "power"}
    HandlersOutlive = FALSE
    Found <- NothingFound
    CutKeys <- FirstLetter
    MaxBoots = 3
INVARIANTS DTypeOK LogServes RestartKeeps ReplayPrefix CleanExit
VIEW DNoStats
CHECK_DEADLOCK FALSE
