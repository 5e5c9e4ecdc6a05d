\* One connection, and a job that may be in its outbox when it ends.
SPECIFICATION FairSpec
CONSTANTS
    Conns = {c1}
    Nodes = {n1}
    Jobs = {j1}
    Kinds = {k1}
    Adverts = {{k1}}
    None = None
    Shard <- OwnShard
    IndexShard <- OneShard
    OutboxSize = 1
    MaxMissed = 1
PROPERTY WriterExits
CHECK_DEADLOCK FALSE
