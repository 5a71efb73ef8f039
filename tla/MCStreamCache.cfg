SPECIFICATION FairSpec
CONSTANTS
    Requests = {r1, r2}
    Copiers = {c1}
    first = first
    second = second
    Files = {first}
    Final <- FinalOfFiles
    Size <- SizeOfBlocks
    CacheUnits = 2
    QueueUnits = 1
    Slots = 1
    None = None
CHECK_DEADLOCK FALSE
INVARIANTS Shared
PROPERTIES Ends
