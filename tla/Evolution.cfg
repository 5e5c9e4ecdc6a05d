\* Filing, the tag tree, a skill file and a shadow case, one per behaviour.
SPECIFICATION MCSpec
CONSTANTS
    None = None
    e1 = e1 e2 = e2
    s1 = s1 s2 = s2 k1 = k1 k2 = k2
    Engines = {e1, e2}
    Jobs = {j1}
    Kinds = {"memory_op", "skill_update"}
    Targets = {s1, s2}
    Chunks = {k1, k2}
    KindOf <- KindOfTarget
    Days = 2
    WeeklyTotal = 2
    Cap <- KindCaps
    MaxPerRun = 2
    MaxSeq = 3
    MaxResets = 1
    MaxRuns = 2
    Null = Null
    m1 = m1 m2 = m2 t1 = t1 c1 = c1 c2 = c2
    Paths <- OneBranch
    Tagged = {c1, c2}
    InitialNodes <- BranchNodes
    InitialLastId = 3
    Merges = {m1, m2}
    MergePath <- HeroAndVoice
    Taggers = {t1}
    TagPath <- OnVoice
    TagChunk <- OfFirst
    MaxTagFailures = 1
    MaxTagReverts = 2
    Updates = {u1, u2}
    UpdateFailures = 2
    ChunkIds = {1, 2, 3}
SYMMETRY Interchangeable
INVARIANTS
    TypeOK DayIdsDense EngineFilesOnce EngineWithinBudget OneLivePromotion
    TreeIsConsistent ListedStayFindable ChangesHold
CHECK_DEADLOCK FALSE
