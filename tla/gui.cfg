SPECIFICATION Spec
CONSTANTS
    Server = {s1, s2}
    None = None
    MaxClicks = 4
INVARIANTS GTypeOK IndicatorTrue OperationsFollow
SYMMETRY Alike
CHECK_DEADLOCK FALSE
