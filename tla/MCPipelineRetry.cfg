SPECIFICATION Spec
CONSTANTS
    None = None
    Partial = Partial
    s1 = s1
    v1 = v1
    t1 = t1
    Sessions = {s1}
    Versions = {v1}
    Odd = {}
    Split = FALSE
    Concat = FALSE
    Versioned = {s1}
    Options <- Plain
    Tools = {t1}
    Unreadable = FALSE
    MaxChanges = 0
    MaxPasses = 2
INVARIANTS RetryPublishes
CHECK_DEADLOCK FALSE
