\* A flat source and its watch trigger: dedup by content, discovery and announcing.
SPECIFICATION Spec
CONSTANTS
    f1 = f1
    Paths <- OneFile
    MaxDay = 2
    MaxVersion = 2
    AppendMode = TRUE
    CatchupDays = 0
    Since = 1
    QueueCap = 1
    MaxWrites = 2
    MaxFaults = 1
INVARIANTS
    TypeOK
    UnchangedIsRecordedOnce
    SuccessIsRecorded
    OwedIsCarried
PROPERTIES
    SettledContentIsRecorded
    EventsAreAnnounced
