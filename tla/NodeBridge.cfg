\* Two connections, of one node or of two, and a job; a node can do two things.
SPECIFICATION Spec
CONSTANTS
    Conns = {c1, c2}
    Nodes = {n1, n2}
    Jobs = {j1}
    Kinds = {k1, k2}
    Adverts = {{k1, k2}}
    None = None
    Shard <- OwnShard
    IndexShard <- OneShard
    OutboxSize = 1
    MaxMissed = 1
INVARIANTS RegistryIsSound  WaitersMatchJobs
PROPERTY KeepsItsPromise
SYMMETRY Interchangeable
CHECK_DEADLOCK FALSE
