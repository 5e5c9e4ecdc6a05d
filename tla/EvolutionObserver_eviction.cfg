\* Two signals and a queue for one.
SPECIFICATION FairSpec
CONSTANTS
    Events = {e1, e2}
    Signals = {e1, e2}
    MaxEmitting = 2
    Subs = {o}
    Observer = o
    Priority <- AllLow
    None = None
    Capacity = 2
    QueueCapacity = 1
PROPERTY EvictionEnds
CHECK_DEADLOCK FALSE
