SPECIFICATION Spec
CONSTANTS
    s1 = s1
    s2 = s2
    v1 = v1
    v2 = v2
    t1 = t1
    t2 = t2
    None = None
    Partial = Partial
    N = 3
    Ids = {1, 2, 3, 4}
CHECK_DEADLOCK FALSE
INVARIANTS Faithful TakesExact
PROPERTIES Served
