CONSTANTS
    u1 = u1
    u2 = u2
    startup = startup
    daily = daily
    watch = watch
    NoUnit = NoUnit
    NoJob = NoJob
    Units <- TwoUnits
    Triggers <- TwoTriggers
    Startup = startup
    Addressed <- AllForAll
    QueueCap = 1
    GateSize = 1
    MaxRetained = 1
    Once = FALSE
    MaxStops = 1
    MaxEnds = 1
SPECIFICATION Spec
INVARIANTS
    ExitedUnitOwesNothing
CHECK_DEADLOCK FALSE
