\* A revert of a deletion that is cut short, and the next monitor run.
SPECIFICATION Spec
CONSTANTS
    p1 = p1 p2 = p2
    d1 = d1 d2 = d2
    a1 = a1 a2 = a2
    s1 = s1 s2 = s2
    r1 = r1 r2 = r2
    None = None
    Proposals = {p1}
    NeedsShadow = {p1}
    Decisions = {d1}
    Applies = {a1}
    ShadowRuns = {}
    Reverts = {r1, r2}
    Kind <- KindDelete
INVARIANT RestoredOnce
CHECK_DEADLOCK FALSE
