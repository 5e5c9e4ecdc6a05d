\* Two connections, of one runner or of two, and a call.
SPECIFICATION Spec
CONSTANTS
    Conns = {c1, c2}
    Calls = {i1}
    Runners = {r1, r2}
    Tools = {t1}
    Adverts = {{t1}}
    None = None
    OutboxSize = 1
    MaxMissed = 1
INVARIANTS TypeOK RegistryIsSound GaugeCountsRunners WaitersMatchCalls
PROPERTY KeepsItsPromise
SYMMETRY Interchangeable
CHECK_DEADLOCK FALSE
