\* The small independent parts of the gateway, one behaviour each.
SPECIFICATION MCFairSpec
CONSTANTS
    Checks = {c1}
    Operators = {o1, o2}
    None = None
    MaxRestarts = 3
    MaxSpawns = 5
    Slots = {1, 2, 3}
    MaxTime = 3
    MaxMessages = 3
    QueueRoom = 1
    MaxBreaks = 1
    CallIds = {i1, i2}
    MaxRounds = 2
    Places <- Roots
    Names = {n1, n2}
    MaxEdits = 2
    Broken = Broken
    Calls = {a1, a2}
    TaskIds = {t3, t4}
    Callbacks = {p1a, p2a}
    Writers = {w1, w2}
    Posts = {w1}
    Edits = {x1, x2}
    Faulty = {x2, w2}
    Undiffed = {w1}
    Reloaders = {watcher, r1}
    Watcher = watcher
    Base = base
    Mixed = mixed
    MaxRequests = 2
    ProviderSlots = {p1}
    CustomSlot = custom
    Aliases = {n3}
    Boots <- AllOn
INVARIANTS
    RunsOnlyApproved NoSenderLeaks ServicesTypeOK
    PluginsHold GatewayHolds ChannelsHold ChatHolds ConfigurationHolds
PROPERTIES FirstDecisionStays WaitsEnd
CHECK_DEADLOCK FALSE
