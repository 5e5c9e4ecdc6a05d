----------------------------- MODULE MCEvolution -----------------------------
(***************************************************************************)
(* Parts of the evolution system that are checked one at a time, in one    *)
(* run: the filing of proposals, the tag tree and a skill file that        *)
(* applies and reverts change, and one case of a shadow run.  A behaviour  *)
(* is that of one of them, chosen at the start.                            *)
(***************************************************************************)
EXTENDS ProposalFiling, TagTree, TLC

CONSTANTS
    e1, e2, s1, s2, k1, k2, m1, m2, t1, c1, c2,
    Updates, UpdateFailures,
    ChunkIds

ASSUME SkillAssumption == None \notin Updates \cup Nat /\ IsFiniteSet(Updates) /\ UpdateFailures \in Nat
ASSUME ChunkAssumption == ChunkIds \subseteq Int /\ IsFiniteSet(ChunkIds)

VARIABLES
    machine,
    inodes, file, temp, update, fileLog, met, collided, failures,
    case, box, seeded, before, runner, output

KindOfTarget == s1 :> "skill_update" @@ s2 :> "skill_update"
KindCaps == "memory_op" :> 2 @@ "skill_update" :> 1

Role == <<"role">>
Hero == <<"role", "hero">>
Voice == <<"role", "hero", "voice">>
OneBranch == {Role, Hero, Voice}
BranchNodes == {[id |-> 1, parent |-> Null, path |-> Role],
                [id |-> 2, parent |-> 1, path |-> Hero],
                [id |-> 3, parent |-> 2, path |-> Voice]}
HeroAndVoice == m1 :> Hero @@ m2 :> Voice
OnVoice == t1 :> Voice
OfFirst == t1 :> c1

Skills == INSTANCE SkillFile WITH MaxFailures <- UpdateFailures

Shadow == INSTANCE ShadowCase WITH skills <- seeded, Absent <- Null

skillVars == <<inodes, file, temp, update, fileLog, met, collided, failures>>
shadowVars == <<case, box, seeded, before, runner, output>>

\* c1 has the tag of a node, c2 that of the node and that of its parent.
MCInit ==
    /\ machine \in {"filing", "tags", "skills", "shadow"}
    /\ machine # "filing" => today = 1
    /\ machine # "shadow" =>
        case = [kind |-> "delete", id |-> 1, expected |-> "noop"]
        /\ box = [chunks |-> {}, nodes |-> {}, tags |-> {}]
    /\ Init /\ TagInit /\ Skills!Init /\ Shadow!Init
    /\ tags = {<<c1, 2>>, <<c2, 1>>, <<c2, 2>>}

Runs(m) ==
    /\ machine = m /\ UNCHANGED machine
    /\ m # "filing" => UNCHANGED vars
    /\ m # "tags" => UNCHANGED tagVars
    /\ m # "skills" => UNCHANGED skillVars
    /\ m # "shadow" => UNCHANGED shadowVars

MCNext ==
    \/ Runs("filing") /\ Next
    \/ Runs("tags") /\ TagNext
    \/ Runs("skills") /\ Skills!Next
    \/ Runs("shadow") /\ Shadow!Next

MCSpec == MCInit /\ [][MCNext]_<<machine, vars, tagVars, skillVars, shadowVars>>

Interchangeable ==
    Permutations({e1, e2}) \cup Permutations({s1, s2}) \cup Permutations({k1, k2})

-----------------------------------------------------------------------------
\* A skill file is whole and holds what was applied and not reverted (apply_skill_update),
\* and a case that passed in the shadow says what the applier does with the same data
\* (simulator.rs).
ChangesHold ==
    /\ Skills!TypeOK /\ Skills!SkillsHold
    /\ Shadow!TypeOK /\ Shadow!PassedIsWhatApplies

=============================================================================
