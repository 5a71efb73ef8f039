SPECIFICATION FairSpec
CONSTANTS
    Lan = Lan
    Card = Card
    l1 = l1
    l2 = l2
    c1 = c1
    Rows <- MCRows
    d1 = d1
    d2 = d2
    OldExports <- MCExports
    Dirs = {d1, d2}
    FirstDir = d1
    HistoryFails = TRUE
    MaxMoves = 3
    MaxThreads = 2
    None = None
CHECK_DEADLOCK FALSE
INVARIANTS OneSource Undisturbed
PROPERTIES Settles
