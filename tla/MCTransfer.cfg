SPECIFICATION FairSpec
CONSTANTS
    video = video
    audio = audio
    imu = imu
    big = big
    List <- MCList
    Bytes <- MCBytes
    Budget = 3
    MaxFaults = 2
    MaxRuns = 2
    None = None
CHECK_DEADLOCK FALSE
INVARIANTS InBudget CancelledByUser
PROPERTIES UnverifiedKept AsSerial Ends
