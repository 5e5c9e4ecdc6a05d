------------------------------ MODULE ShadowCase ------------------------------
(***************************************************************************)
(* One case of a shadow run (corlinman-shadow-tester, runner.rs, eval.rs   *)
(* and simulator.rs).  The runner copies the knowledge base into a         *)
(* directory of its own, adds the rows and files of the case and hands it  *)
(* to the simulator of the kind, which does what the gateway's             *)
(* evolution_applier.rs does, in SQL and file operations of its own, and   *)
(* compares the result with what the case expects.                         *)
(*                                                                         *)
(* The applier's half is here as what an apply that nothing interrupts     *)
(* does; its steps are in EvolutionLifecycle, TagTree and SkillFile.  Of a *)
(* skill file, the number of its lines is kept.                            *)
(***************************************************************************)
EXTENDS Integers, FiniteSets, FiniteSetsExt

CONSTANTS
    ChunkIds,       \* a set of numbers
    Absent          \* no parent, no file, no output yet

Above == [n \in {1, 2, 3} |-> IF n = 1 THEN Absent ELSE n - 1]  \* a root, its child, a grandchild

VARIABLES
    case,           \* what is tested and what is expected of it
    box,            \* the copied knowledge base, with the rows of the seed
    skills,         \* the lines of the skill file, if the seed has it
    before,         \* the two before the simulator ran (history)
    runner,         \* how far run_case is
    output          \* the SimulatorOutput

caseVars == <<case, box, skills, before, runner, output>>

\* The chunks, the branch of tag nodes, and which chunk has which tag.
Branches == {{}, {1}, {1, 2}, {1, 2, 3}}
Boxes ==
    UNION {[chunks : {cs}, nodes : {ns}, tags : SUBSET (cs \X ns)] :
            cs \in SUBSET ChunkIds, ns \in Branches}

\* The targets: chunks to merge, one chunk to delete, a tag to merge away, a diff.
Cases ==
    [kind : {"merge"}, ids : SUBSET ChunkIds, expected : {"merged", "noop"}]
    \cup [kind : {"delete"}, id : ChunkIds, expected : {"noop"}]
    \cup [kind : {"tag"}, node : {1, 2, 3}, moved : 0 .. 1, expected : {"merged", "noop"}]
    \cup [kind : {"skill"}, lines : {Absent, 0, 1}, expected : {"merged", "noop"}]

Result(status, kb, file, count) == [status |-> status, kb |-> kb, skills |-> file, count |-> count]

\* DELETE FROM chunks and DELETE FROM tag_nodes take the rows of chunk_tags along.
WithoutChunks(kb, gone) ==
    [kb EXCEPT !.chunks = @ \ gone, !.tags = {t \in @ : t[1] \notin gone}]
WithoutNode(kb, n) ==
    LET gone == {m \in kb.nodes : m >= n}
    IN [kb EXCEPT !.nodes = @ \ gone, !.tags = {t \in @ : t[2] \notin gone}]

-----------------------------------------------------------------------------
(* The simulators.                                                         *)

\* Mutant: the newest of the chunks survives.
SimulateMerge_newest(kb, file, ids) ==
    IF Cardinality(ids) < 2 THEN Result("error", kb, file, 0)
    ELSE IF ids \subseteq kb.chunks
         THEN Result("done", WithoutChunks(kb, ids \ {Max(ids)}), file, Cardinality(ids) - 1)
         ELSE Result("noop", kb, file, 0)

\* MemoryOpSimulator: nothing is merged unless every chunk is there.
SimulateMerge(kb, file, ids) ==
    IF Cardinality(ids) < 2 THEN Result("error", kb, file, 0)
    ELSE IF ids \subseteq kb.chunks
         THEN Result("done", WithoutChunks(kb, ids \ {Min(ids)}), file, Cardinality(ids) - 1)
         ELSE Result("noop", kb, file, 0)

\* After the conflicting rows were deleted.
Moved(kb, n) == {t \in kb.tags : t[2] = n /\ <<t[1], Above[n]>> \notin kb.tags}

\* TagRebalanceSimulator
SimulateTag(kb, file, n) ==
    IF n \notin kb.nodes \/ Above[n] = Absent
    THEN Result(IF n \in kb.nodes THEN "root" ELSE "noop", kb, file, 0)
    ELSE LET moved == Moved(kb, n)
             kept == {t \in kb.tags : t[2] # n} \cup {<<t[1], Above[n]>> : t \in moved}
         IN Result("done", WithoutNode([kb EXCEPT !.tags = kept], n), file, Cardinality(moved))

\* SkillUpdateSimulator: a missing file or a diff of another shape is no update.
SimulateSkill(kb, file, lines) ==
    IF file = Absent \/ lines = Absent THEN Result("noop", kb, file, 0)
    ELSE Result("done", kb, file + lines, lines)

Simulate(c, kb, file) ==
    CASE c.kind = "merge" -> SimulateMerge(kb, file, c.ids)
      [] c.kind = "delete" -> Result("error", kb, file, 0)
      [] c.kind = "tag" -> SimulateTag(kb, file, c.node)
      [] c.kind = "skill" -> SimulateSkill(kb, file, c.lines)

\* What the case expects, by kind: a merge names its count, a skill update a line.
Passes(c, r) ==
    /\ r.status # "error"
    /\ c.expected = "noop" => IF c.kind = "tag" THEN r.status = "noop" ELSE r.count = 0
    /\ c.expected = "merged" =>
        /\ c.kind = "merge" => r.count = Cardinality(c.ids) - 1 /\ r.count > 0
        /\ c.kind = "tag" => r.status = "done" /\ r.count = c.moved
        /\ c.kind = "skill" => r.status = "done" /\ r.count > 0

-----------------------------------------------------------------------------
(* The applier.                                                            *)

Refused(kb, file) == Result("refused", kb, file, 0)

\* MemoryOp::parse takes two chunks to merge, no more.
ApplyMerge(kb, file, ids) ==
    IF Cardinality(ids) # 2 \/ ~ids \subseteq kb.chunks THEN Refused(kb, file)
    ELSE Result("done", WithoutChunks(kb, {Max(ids)}), file, 1)

\* Its history row lists the chunks before the conflicting rows are deleted.
ApplyTag(kb, file, n) ==
    IF n \notin kb.nodes \/ Above[n] = Absent THEN Refused(kb, file)
    ELSE LET cleared == {t \in kb.tags : t[2] = n => <<t[1], Above[n]>> \notin kb.tags}
             moved == {IF t[2] = n THEN <<t[1], Above[n]>> ELSE t : t \in cleared}
         IN Result("done", WithoutNode([kb EXCEPT !.tags = moved], n), file,
                   Cardinality({t \in kb.tags : t[2] = n}))

Apply(c, kb, file) ==
    CASE c.kind = "merge" -> ApplyMerge(kb, file, c.ids)
      [] c.kind = "delete" ->
            IF c.id \in kb.chunks THEN Result("done", WithoutChunks(kb, {c.id}), file, 1)
            ELSE Refused(kb, file)
      [] c.kind = "tag" -> ApplyTag(kb, file, c.node)
      [] c.kind = "skill" ->
            IF file = Absent \/ c.lines = Absent THEN Refused(kb, file)
            ELSE Result("done", kb, file + c.lines, c.lines)

-----------------------------------------------------------------------------
(* run_case                                                                *)

Init ==
    /\ case \in Cases
    /\ box \in Boxes
    /\ skills \in {Absent, 0, 2}
    /\ case.kind # "skill" => skills = Absent
    /\ case.kind = "skill" => box.chunks = {}
    /\ case.kind # "tag" => box.nodes \subseteq {1}
    /\ before = <<box, skills>>
    /\ runner = "materialize" /\ output = Absent

Fails == runner' = "over" /\ output' = [passed |-> FALSE, result |-> Absent]

\* No directory, no copy.
Materialize ==
    /\ runner = "materialize"
    /\ \/ runner' = "seed" /\ UNCHANGED output
       \/ Fails
    /\ UNCHANGED <<case, box, skills, before>>

\* A statement of the seed, or a name in it, may be refused.
Seed ==
    /\ runner = "seed"
    /\ \/ runner' = "simulate" /\ UNCHANGED output
       \/ Fails
    /\ UNCHANGED <<case, box, skills, before>>

RunSimulator ==
    /\ runner = "simulate"
    /\ LET r == Simulate(case, box, skills) IN
        /\ box' = r.kb /\ skills' = r.skills
        /\ output' = [passed |-> Passes(case, r), result |-> r]
    /\ runner' = "over"
    /\ UNCHANGED <<case, before>>

\* A statement fails half way; what it leaves goes with the directory.
SimulatorFails ==
    /\ runner = "simulate" /\ Fails
    /\ UNCHANGED <<case, box, skills, before>>

Next == Materialize \/ Seed \/ RunSimulator \/ SimulatorFails

Spec == Init /\ [][Next]_caseVars

-----------------------------------------------------------------------------
TypeOK ==
    /\ box.chunks \subseteq ChunkIds /\ box.nodes \in Branches
    /\ box.tags \subseteq box.chunks \X box.nodes
    /\ runner \in {"materialize", "seed", "simulate", "over"}

\* "Mirroring the gateway applier's apply_tag_rebalance SQL inline": a case that passes
\* says what the applier will do with the same data.  Where a change was expected the
\* applier leaves the very same rows and lines, and where none was it changes nothing;
\* only a merge of more than two chunks, which the applier refuses, is simulated.
PassedIsWhatApplies ==
    runner = "over" /\ output.passed =>
        LET applied == Apply(case, before[1], before[2])
            many == case.kind = "merge" /\ Cardinality(case.ids) > 2
        IN /\ case.expected = "noop" => applied.kb = before[1] /\ applied.skills = before[2]
           /\ case.expected = "merged" /\ ~many =>
                applied.status = "done" /\ applied.kb = box /\ applied.skills = skills
=============================================================================
