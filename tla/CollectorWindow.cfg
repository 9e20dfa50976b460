CONSTANTS
    p1 = p1
    p2 = p2
    MaxDay = 2
    Paths <- OnePath
    MaxVersion = 2
    AppendMode = FALSE
    CatchupDays = 2
    Since = 1
    Batches = 1
    FilesPerSource = 2
    Malformed <- NoneMalformed
    BackupDir = TRUE
    KeepDays = 0
    BaseNames <- OnePath
    BaseName <- OwnName
    Size <- OtherSize
    NoCopy = NoCopy
    RemoteHost = TRUE
    LegacyLedgers <- NoLegacy
    MaxChanges = 1
    MaxFaults = 0
SPECIFICATION Spec
PROPERTIES
    WindowIsRechecked
