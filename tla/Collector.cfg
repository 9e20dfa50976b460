CONSTANTS
    p1 = p1
    p2 = p2
    MaxDay = 2
    Paths <- TwoPaths
    MaxVersion = 2
    AppendMode = FALSE
    CatchupDays = 2
    Since = 1
    Batches = 2
    FilesPerSource = 2
    Malformed <- FirstMalformed
    BackupDir = TRUE
    KeepDays = 0
    BaseNames <- SameName
    BaseName <- SharedName
    Size <- OtherSize
    NoCopy = NoCopy
    RemoteHost = TRUE
    LegacyLedgers <- OlderReleases
    MaxChanges = 1
    MaxFaults = 1
SPECIFICATION Spec
INVARIANTS
    TypeOK
    CompletedIsStored
    NoFailureOnSuccess
PROPERTIES
    SucceededIsWhole
    ImplementsDelivery
