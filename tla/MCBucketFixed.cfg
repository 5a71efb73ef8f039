SPECIFICATION FairSpec
CONSTANTS
    Publishers = {p1, p2}
    source = source
    video = video
    bytes1 = bytes1
    bytes2 = bytes2
    bytes3 = bytes3
    Items = {source, video}
    Contents = {bytes1, bytes2, bytes3}
    Publications <- MCTwo
    Generations = {g1, g2, g3, g4}
    ContentKeys = FALSE
    LongPauses = FALSE
    MaxFaults = 2
    None = None
INVARIANTS OneWriter
PROPERTIES SuccessMeansPublished CompleteKept KeepsCatalogue CompleteReturns
