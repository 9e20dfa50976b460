CONSTANTS
    p1 = p1
    p2 = p2
    MaxDay = 1
    Paths <- TwoPaths
    MaxVersion = 2
    AppendMode = FALSE
    CatchupDays = 0
    Since = 1
    Batches = 1
    FilesPerSource = 1
    Malformed <- NoneMalformed
    BackupDir = TRUE
    KeepDays = 0
    BaseNames <- SameName
    BaseName <- SharedName
    Size <- OneSize
    NoCopy = NoCopy
    RemoteHost = FALSE
    LegacyLedgers <- NoLegacy
    MaxChanges = 0
    MaxFaults = 0
SPECIFICATION Spec
INVARIANTS
    CompletedHasItsCopy
