\* The observer: three events, two of them signals, emitted one at a time and cancelled anywhere, on a bus that
\* keeps one, and a queue for one signal.  The others: see the bounds in README.md.
SPECIFICATION MCSpec
CONSTANTS
    Events = {e1, e2, e3}
    Signals = {e1, e2}
    MaxEmitting = 1
    o = o
    Subs = {o}
    Observer = o
    Priority <- Priorities
    None = None
    Capacity = 1
    QueueCapacity = 1
    MaxUpdates = 3
    MaxLives = 2
    Dispatched = {1, 3}
    ReplyRoom = 1
    Streams = {a}
    MaxFrames = 4
    MaxTime = 2
    Lifetimes = {1, 2}
    CanvasCapacity = 2
    Clients = {k1, k2}
    MaxInstances = 3
    MaxFailures = 1
    Chunks = {c1}
    Tags = {t1}
    Migrators = {m1, m2}
    Writers = {w1, w2}
    Senders = {s1, s2}
    Group = group
    GroupPerMin = 2
    SenderPerMin = 1
    Minute = 2
    StaleAfter = 2
    BucketTime = 3
    Turns = {turn1, turn2}
    KeepLast = 2
    Topics = {t1, t2}
    MaxFatigue = 3
    Tired = 1
    Day = 2
    RECENT_TOPICS_CAP = 1
    MaxHours = 2
    MaxWrites = 4
    Distillations = {d1, d2}
    Sessions = {z1, z2}
    MinTurns = 1
    TraitValues = {v1, pii}
    Personal = {pii}
    Readings = {3, 5, 12}
    TraitFloor = 4
    PruneFloor = 6
    MaxDepth = 2
    Failed = Failed
    Stems = {"f", "g"}
    Texts = {u, v}
    FixedKeys = {"TarFixed"}
    TarKeys = {"TarFixed", "TarA"}
    SarKeys = {"SarP1"}
    VarKeys = {"VarA"}
    Environment = {"VarA"}
    MaxVersions = 3
    SearchIds = {1, 2, 3, 4}
    Whole = 2
    SearchRuns = {1, 2}
    SearchWrites = 1
    ScoreUnit = 15249024
    RrfK = 60
    Hosts = {1, 2}
    TopK = 2
    KbFiles <- Markdown
    Rebuilds = {1, 2}
    Docs = {doc1}
    MaxBackfills = 1
    Full = 16
    FloorScore = 1
    RecallBoost = 5
    Threshold = 10
    Cooling = 1
    DecayTime = 3
    ModelCallIds = {c3, c4}
    Fragments = {"x"}
    MaxVendorEvents = 4
    Temperature = 5
    MaxAnswerFrames = 2
    MaxChatTurns = 2
    MaxPieces = 4
INVARIANTS SignalsAreAccounted FrontEndsHold StorageHolds AnswersHold
PROPERTY NewestSurvives
SYMMETRY Interchangeable
CHECK_DEADLOCK FALSE
