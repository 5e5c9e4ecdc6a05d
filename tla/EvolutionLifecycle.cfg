\* Racing decisions, applies, shadow runs and monitors against one proposal.
SPECIFICATION OneProposalSpec
CONSTANTS
    p1 = p1 p2 = p2
    d1 = d1 d2 = d2
    a1 = a1 a2 = a2
    s1 = s1 s2 = s2
    r1 = r1 r2 = r2
    None = None
    Proposals = {p1, p2}
    NeedsShadow = {p1}
    Decisions = {d1, d2}
    Applies = {a1, a2}
    ShadowRuns = {s1, s2}
    Reverts = {r1, r2}
    Kind <- KindSkillAndMerge
SYMMETRY Interchangeable
INVARIANTS TypeOK WriteAhead OneRunner NothingUnapproved StatusIsAudited
PROPERTY ScanReportsInterrupted
CHECK_DEADLOCK FALSE
