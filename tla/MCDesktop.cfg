SPECIFICATION FairSpec
CONSTANTS
    Processes = {p1, p2}
    MaxMoves = 4
    MaxFaults = 2
    Count = 4
    Workers = {w1, w2}
    Ports = {1, 2}
    Volumes = {va, vb}
    MaxPlugs = 3
    MaxErrors = 1
    None = None
CHECK_DEADLOCK FALSE
INVARIANTS Batches
PROPERTIES Outputs Deletions WindowTrue Ends
