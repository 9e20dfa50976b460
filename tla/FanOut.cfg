CONSTANTS
    u1 = u1
    u2 = u2
    startup = startup
    daily = daily
    watch = watch
    NoUnit = NoUnit
    NoJob = NoJob
    Units <- TwoUnits
    Triggers <- ThreeTriggers
    Startup = startup
    Addressed <- StartupForAll
    QueueCap = 1
    GateSize = 1
    MaxRetained = 1
    Once = TRUE
    MaxStops = 1
    MaxEnds = 1
SPECIFICATION FairSpec
INVARIANTS
    TypeOK
    CountersMatchJobs
    ExitCodeIsHonest
    SleeperAwaitsAJob
    SomebodyMoves
PROPERTIES
    ImplementsJobLedger
    PassEnds
    DispatchEnds
    JobsEnd
CHECK_DEADLOCK FALSE
