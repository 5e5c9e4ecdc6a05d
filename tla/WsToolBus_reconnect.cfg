\* A runner whose first connection ends after its second was accepted.
SPECIFICATION Spec
CONSTANTS
    Conns = {c1, c2}
    Calls = {i1}
    Runners = {r1}
    Tools = {t1}
    Adverts = {{t1}}
    None = None
    OutboxSize = 1
    MaxMissed = 1
SYMMETRY Interchangeable
INVARIANT ReconnectedRunnerServes
CHECK_DEADLOCK FALSE
