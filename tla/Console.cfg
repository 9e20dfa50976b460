CONSTANTS
    plugin = plugin
    sink = sink
    e1 = e1
    e2 = e2
    Absent = Absent
    Ids <- TwoIds
    Files <- TwoFiles
    EditValues = {"good", "bad", "slow"}
    Invalid = {"bad"}
    NeverReady = {"slow"}
    Critical = {}
    Editors <- TwoEditors
    Watcher = watcher
    watcher = watcher
    Pages <- BothPages
    AlarmAnswers <- TwoAlarmAnswers
    FailureAnswers <- OneFailureAnswer
    CollectionAnswers <- TwoCollectionAnswers
    MaxLoads = 2
    Plugin = plugin
    Mixes <- FewMixes
SPECIFICATION Spec
INVARIANTS
    TypeOK
    EditsAreIsolated
    NewestSnapshotSurvives
    RuntimeFollowsOverlay
    BaseFollowsFile
    PageShowsOneLoad
    SummariesMatchRows
    AlarmsComeFromThePlugin
    LoadingMeansAsked
CHECK_DEADLOCK FALSE
