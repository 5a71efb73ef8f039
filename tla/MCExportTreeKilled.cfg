SPECIFICATION MCFairSpec
CONSTANTS
    Exporters = {e1}
    Options = {high, standard}
    OldOptions = {old}
    RetainSources = {}
    Manifest = manifest
    Media = {video}
    Sidecars = {imu}
    KeptAudio = {}
    None = None
    Initial <- MCLegacy
    MaxFaults = 1
PROPERTIES LegacyBecomesExport
