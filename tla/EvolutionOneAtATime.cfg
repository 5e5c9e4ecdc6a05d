\* Two proposals; requests about one of them never overlap.
SPECIFICATION OneAtATimeSpec
CONSTANTS
    p1 = p1 p2 = p2
    d1 = d1 d2 = d2
    a1 = a1 a2 = a2
    s1 = s1 s2 = s2
    r1 = r1 r2 = r2
    None = None
    Proposals = {p1, p2}
    NeedsShadow = {p1}
    Decisions = {d1, d2}
    Applies = {a1, a2}
    ShadowRuns = {s1}
    Reverts = {r1}
    Kind <- KindDeleteAndSkill
SYMMETRY InterchangeableRequests
INVARIANT ChangedOnce
PROPERTY FollowsStateMachine
CHECK_DEADLOCK FALSE
