CONSTANTS
    p1 = p1
    p2 = p2
    MaxDay = 2
    Paths <- OnePath
    MaxVersion = 1
    AppendMode = FALSE
    CatchupDays = 0
    Since = 1
    Batches = 1
    FilesPerSource = 1
    Malformed <- NoneMalformed
    BackupDir = FALSE
    KeepDays = 0
    BaseNames <- OnePath
    BaseName <- OwnName
    Size <- OtherSize
    NoCopy = NoCopy
    RemoteHost = TRUE
    LegacyLedgers <- NoLegacy
    MaxChanges = 2
    MaxFaults = 2
SPECIFICATION FairSpec
PROPERTIES
    UnfinishedIsRetried
    TodayIsCollected
