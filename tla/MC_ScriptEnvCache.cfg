CONSTANTS
    None = None
    Procs = {p1, p2}
    Keys <- MCKeys
    Outputs = {o1, o2}
    ErrLine = ErrLine
    Raised = Raised
    ConfigCache = TRUE
    MaxChanges = 0
SPECIFICATION Spec
PROPERTY CacheTransparent
