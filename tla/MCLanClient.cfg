SPECIFICATION FairSpec
CONSTANTS
    MaxAttempts = 3
    MaxWait = 8
    Asks = {1, 2, 4, 6}
    Size = 3
    OtherSizes = {2, 3, 4}
    MaxChanges = 2
    Recordings = {a, b}
    MaxBatch = 2
    Gone = Gone
    None = None
    Catalogued = {1, 2, 3}
    Pending = {3}
    Noted = {2}
    Started <- OneUnreadable
    PageSize = 1
CHECK_DEADLOCK FALSE
INVARIANTS Downloads Patient Listings
PROPERTIES Deletions Ends
