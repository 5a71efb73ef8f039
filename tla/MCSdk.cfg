SPECIFICATION SdkFairSpec
CONSTANTS
    d1 = d1
    d2 = d2
    label = label
    Places = {p1, p2}
    MaxEvents = 2
    MaxCalls = 3
    Count = 4
    Unknown = {0}
    MaxWorkers = 2
    All = All
    Lengths = {1, 3}
    None = None
    Films <- Media
    Sounds <- Audio
    Micro = 2
    Slack = 1
    Rate = 2
    Period = 1
    Buffer = 1
CHECK_DEADLOCK FALSE
INVARIANTS Discoveries Renderings
PROPERTIES Batches Deletions CallsEnd
