CONSTANTS
    p1 = p1
    p2 = p2
    MaxDay = 3
    Paths <- OnePath
    MaxVersion = 2
    AppendMode = TRUE
    CatchupDays = 2
    Since = 2
    Batches = 1
    FilesPerSource = 1
    Malformed <- FirstMalformed
    BackupDir = TRUE
    KeepDays = 1
    BaseNames <- OnePath
    BaseName <- OwnName
    Size <- OtherSize
    NoCopy = NoCopy
    RemoteHost = FALSE
    LegacyLedgers <- OlderReleases
    MaxChanges = 1
    MaxFaults = 2
SPECIFICATION Spec
INVARIANTS
    CompletedIsStored
    LifeStartsAtSince
PROPERTIES
    CatchUpLeavesSuccessAlone
