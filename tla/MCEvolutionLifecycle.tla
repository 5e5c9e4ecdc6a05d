------------------------ MODULE MCEvolutionLifecycle ------------------------
(* Small instances of EvolutionLifecycle.                                  *)
EXTENDS EvolutionLifecycle, TLC

CONSTANTS p1, p2, d1, d2, a1, a2, s1, s2, r1, r2

KindDelete == [p \in Proposals |-> "delete"]
KindDeleteAndSkill == p1 :> "delete" @@ p2 :> "skill"
KindSkillAndMerge == p1 :> "skill" @@ p2 :> "merge"

Interchangeable ==
    Permutations(Decisions) \cup Permutations(Applies)
    \cup Permutations(ShadowRuns) \cup Permutations(Reverts)

\* Of the two proposals one is filed.
OneFiled == Cardinality({p \in Proposals : status'[p] # "absent"}) <= 1

InterchangeableRequests == Permutations(Decisions) \cup Permutations(Applies)

OneProposalSpec == Init /\ [][Next /\ OneFiled]_vars
=============================================================================
