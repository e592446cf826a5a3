SPECIFICATION Spec
CONSTANTS
    Key = {"a", "b"}
    Value = {"u", "empty", "huge"}
    MaxTime = 3
    MaxTTL = 0
    None = None
    Nil = Nil
    Second = 2
    Milli = 2
    MaxDuration = 5
    Caller = {cli, p}
    Cli = cli
    EmptyKeys = {}
    LongKeys = {}
    HugeValues = {"huge"}
    Failures = {"full", "append", "save"}
    MaxCalls = 3
    Lines <- MCLines
    Programs <- OwnWrites
INVARIANTS CTypeOK ReadsExplained LifetimeKept RemainingTrue
CHECK_DEADLOCK FALSE
