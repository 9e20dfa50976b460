CONSTANTS
    u1 = u1
    u2 = u2
    startup = startup
    daily = daily
    watch = watch
    NoUnit = NoUnit
    NoJob = NoJob
    Units <- TwoUnits
    Triggers <- TwoTriggers
    Startup = startup
    Addressed <- AllForAll
    QueueCap = 1
    GateSize = 1
    MaxRetained = 1
    Once = TRUE
    MaxStops = 0
    MaxEnds = 1
SPECIFICATION WaitFairSpec
PROPERTIES
    WaitHonorsCancel
CHECK_DEADLOCK FALSE
