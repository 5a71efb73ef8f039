SPECIFICATION MCFairSpec
CONSTANTS
    Exporters = {e1, e2}
    Options = {high, standard}
    OldOptions = {old}
    RetainSources = {standard}
    Manifest = manifest
    Media = {video, audio}
    Sidecars = {imu}
    KeptAudio = {audio}
    None = None
    Initial <- MCAny
    MaxFaults = 2
INVARIANTS FinalWhole ReportedKept
PROPERTIES ForeignUntouched KeepsPromise ExportReturns
