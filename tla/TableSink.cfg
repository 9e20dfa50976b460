CONSTANTS
    s1 = s1
    s2 = s2
    w1 = w1
    w2 = w2
    w3 = w3
    w4 = w4
    known = known
    legacy = legacy
    new = new
    NoRow = NoRow
    NoKey = NoKey
    NoCounter = NoCounter
    Nobody = Nobody
    Sinks <- TwoSinks
    AutoSinks = {s1}
    Declared = {"temp"}
    Writers <- FourWriters
    SinkOf <- TwoPerSink
    Files <- ThreeFiles
    Header <- Headers
    Registered <- OneOfEach
    Baseline = 1
    Dialects = {"postgres", "mysql", "oracle"}
    MaxWrites = 3
    MaxCloses = 1
SPECIFICATION Spec
INVARIANTS
    TypeOK
    KeysTellFilesApart
    RowsFollowTheRegistry
    OwnColumnsExist
    PoolRefsAccountedFor
PROPERTIES
    KeysAreForLife
CHECK_DEADLOCK FALSE
