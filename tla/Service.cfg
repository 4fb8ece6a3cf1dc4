SPECIFICATION FairSpec
CONSTANTS
    c1 = c1
    c2 = c2
    Clients = {c1, c2}
    Uploads <- SmallUploads
    ResultSizes = {1, 3}
    MaxUploadBytes = 2
    MaxTotalBytes = 3
    MaxArtifacts = 2
    MaxUploadFiles = 2
    MaxInputs = 2
    ArtifactTtl = 1
    MaxRequests = 3
    MaxCrashes = 1
INVARIANTS
    AccountedWithinCaps
    LoadedWithinLimit
    FilesMatchRecords
PROPERTIES
    EvictsOldestFirst
    Drains
CHECK_DEADLOCK FALSE
