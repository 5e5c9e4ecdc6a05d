---------------------------- MODULE ProposalFiling ----------------------------
(***************************************************************************)
(* How proposals get into evolution_proposals: the evolution engine        *)
(* (engine.py, run_once), the consolidation job (consolidation.py) and the *)
(* manual decay reset (routes/admin/memory.rs) file them; nothing          *)
(* coordinates them but the database.                                      *)
(*                                                                         *)
(* A member of Engines is a process that runs the engine again and again   *)
(* (the scheduler's cron loop, an operator at the CLI), a member of Jobs   *)
(* one that runs the consolidation.  A row id is a day and a number of     *)
(* that day.  All days are in one ISO week.  Statements are atomic and     *)
(* commit one by one, except the consolidation's batch, which is one       *)
(* transaction.                                                            *)
(***************************************************************************)
EXTENDS Naturals, FiniteSets, Functions

CONSTANTS
    Engines, Jobs,
    Kinds,              \* enabled_kinds
    Targets,            \* what the handlers propose about
    Chunks,             \* what the consolidation proposes about
    KindOf,             \* the handler of a target
    Days,               \* the last day of the week
    WeeklyTotal, Cap,   \* [evolution.budget]
    MaxPerRun,          \* max_proposals_per_run
    MaxSeq,             \* the last number of a day: 999 in the code
    MaxResets, MaxRuns, \* bounds on the manual resets and on the runs started
    None

ASSUME WriterAssumption == Engines \cap Jobs = {}
ASSUME TargetAssumption ==
    /\ Targets \cap Chunks = {} /\ None \notin Targets
    /\ IsFiniteSet(Chunks)
    /\ KindOf \in [Targets -> Kinds]
ASSUME KindAssumption == "memory_op" \in Kinds
ASSUME BoundAssumption ==
    /\ {Days, WeeklyTotal, MaxPerRun, MaxSeq, MaxResets, MaxRuns} \subseteq Nat
    /\ Cap \in [Kinds -> Nat]

Writers == Engines \cup Jobs
Statuses == {"pending", "applied", "denied", "rolled_back"}

\* _DEDUP_BLOCKING_STATUSES; a row that is approved is pending here.
Blocking == {"pending", "applied"}

\* The handlers of the two programs, step by step.
EngineSteps == {"count", "propose", "candidates", "check_kind", "persist", "emit"}
JobSteps == {"existing", "count", "insert"}
Steps == {"idle"} \cup EngineSteps \cup JobSteps

VARIABLES
    proposals,  \* the rows with a dated id
    resets,     \* the rows reset_decay filed, with an id of their own
    exceeded,   \* the evolution.budget.exceeded signals, by engine
    today,
    runs,       \* how many runs were started
    pc,
    day,        \* the day prefix of each run
    offset,     \* the count each run read
    written,    \* the rows each run filed
    existing,   \* the targets each run read as filed
    kinds,      \* the handlers each engine run has left
    todo,       \* the candidates each run has left
    cand,       \* the candidate each engine run is at
    skipped     \* did the engine run skip for the budget

tableVars == <<proposals, resets, exceeded, today, runs>>
engineVars == <<kinds, cand, skipped>>
runVars == <<day, offset, written, existing, todo>>
vars == <<tableVars, pc, runVars, engineVars>>

Init ==
    /\ proposals = {} /\ resets = 0 /\ exceeded = {} /\ runs = 0
    /\ today \in 1..Days
    /\ pc = [w \in Writers |-> "idle"]
    /\ day = [w \in Writers |-> 1]
    /\ offset = [w \in Writers |-> 0]
    /\ written = [w \in Writers |-> 0]
    /\ existing = [w \in Writers |-> {}]
    /\ todo = [w \in Writers |-> {}]
    /\ kinds = [e \in Engines |-> {}]
    /\ cand = [e \in Engines |-> None]
    /\ skipped = [e \in Engines |-> FALSE]

Goto(w, step) == pc' = [pc EXCEPT ![w] = step]

\* A target of the consolidation is a memory_op as well.
KindOfRow(r) == IF r.target \in Chunks THEN "memory_op" ELSE KindOf[r.target]
RowsOn(d) == {r \in proposals : r.day = d}
RowsOfKind(k) == {r \in proposals : KindOfRow(r) = k}
Taken(d, n) == \E r \in proposals : r.day = d /\ r.seq = n
Row(d, n, t) == [day |-> d, seq |-> n, target |-> t, status |-> "pending"]

\* A run ends: its locals go with its process, what it committed stays.
Stop(w) ==
    /\ Goto(w, "idle")
    /\ day' = [day EXCEPT ![w] = 1]
    /\ offset' = [offset EXCEPT ![w] = 0]
    /\ written' = [written EXCEPT ![w] = 0]
    /\ existing' = [existing EXCEPT ![w] = {}]
    /\ todo' = [todo EXCEPT ![w] = {}]
    /\ kinds' = [x \in Engines |-> IF x = w THEN {} ELSE kinds[x]]
    /\ cand' = [x \in Engines |-> IF x = w THEN None ELSE cand[x]]
    /\ skipped' = [x \in Engines |-> IF x = w THEN FALSE ELSE skipped[x]]

-----------------------------------------------------------------------------
(* Both programs: now_ms and the day prefix first, the count later.        *)

BeginRun(w) ==
    /\ pc[w] = "idle"
    /\ runs < MaxRuns
    /\ runs' = runs + 1
    /\ day' = [day EXCEPT ![w] = today]
    /\ UNCHANGED <<proposals, resets, exceeded, today, offset, written, existing>>

\* Mutant: the count is not of the day.
count_all_proposals(w) ==
    /\ pc[w] = "count"
    /\ offset' = [offset EXCEPT ![w] = Cardinality(proposals)]
    /\ UNCHANGED <<tableVars, day, written, existing, todo>>

count_proposals_on_day(w) ==
    /\ pc[w] = "count"
    /\ offset' = [offset EXCEPT ![w] = Cardinality(RowsOn(day[w]))]
    /\ UNCHANGED <<tableVars, day, written, existing, todo>>

\* A full disk, a lock that is not got, a process that is killed.
Abandon(w) ==
    /\ pc[w] # "idle"
    /\ Stop(w)
    /\ UNCHANGED tableVars

-----------------------------------------------------------------------------
(* The engine.                                                             *)

StartEngine(e) ==
    /\ BeginRun(e)
    /\ kinds' = [kinds EXCEPT ![e] = Kinds]
    /\ Goto(e, "count")
    /\ UNCHANGED <<todo, cand, skipped>>

CountForEngine(e) ==
    /\ count_proposals_on_day(e)
    /\ Goto(e, "propose")
    /\ UNCHANGED engineVars

\* A handler's candidates, and its existing_targets: the rows of its kind,
\* whatever became of them.
Propose(e, k, candidates) ==
    /\ pc[e] = "propose" /\ k \in kinds[e]
    /\ kinds' = [kinds EXCEPT ![e] = @ \ {k}]
    /\ todo' = [todo EXCEPT ![e] = candidates]
    /\ existing' = [existing EXCEPT ![e] = {r.target : r \in RowsOfKind(k)}]
    /\ Goto(e, "candidates")
    /\ UNCHANGED <<tableVars, day, offset, written, cand, skipped>>

\* _check_budget, its first count: the week's rows of every kind and origin.
TotalUsed == Cardinality(proposals) + resets

Skip(e, t) ==
    /\ todo' = [todo EXCEPT ![e] = @ \ {t}]
    /\ cand' = [cand EXCEPT ![e] = None]
    /\ skipped' = [skipped EXCEPT ![e] = TRUE]
    /\ Goto(e, "candidates")

\* Mutant: the total may be reached and one more filed.
CheckTotal_off_by_one(e, t) ==
    /\ pc[e] = "candidates"
    /\ t \in todo[e] \ existing[e]
    /\ written[e] < MaxPerRun
    /\ \/ TotalUsed > WeeklyTotal /\ Skip(e, t)
       \/ /\ TotalUsed <= WeeklyTotal
          /\ cand' = [cand EXCEPT ![e] = t]
          /\ Goto(e, "check_kind")
          /\ UNCHANGED <<todo, skipped>>
    /\ UNCHANGED <<tableVars, day, offset, written, existing, kinds>>

\* A candidate that is not filed yet, while the run may file more.
CheckTotal(e, t) ==
    /\ pc[e] = "candidates"
    /\ t \in todo[e] \ existing[e]
    /\ written[e] < MaxPerRun
    /\ \/ TotalUsed >= WeeklyTotal /\ Skip(e, t)
       \/ /\ TotalUsed < WeeklyTotal
          /\ cand' = [cand EXCEPT ![e] = t]
          /\ Goto(e, "check_kind")
          /\ UNCHANGED <<todo, skipped>>
    /\ UNCHANGED <<tableVars, day, offset, written, existing, kinds>>

\* Its second count, of the candidate's kind.
KindUsed(k) == Cardinality(RowsOfKind(k)) + IF k = "memory_op" THEN resets ELSE 0

CheckKind(e) ==
    /\ pc[e] = "check_kind"
    /\ \/ KindUsed(KindOf[cand[e]]) >= Cap[KindOf[cand[e]]] /\ Skip(e, cand[e])
       \/ /\ KindUsed(KindOf[cand[e]]) < Cap[KindOf[cand[e]]]
          /\ Goto(e, "persist")
          /\ UNCHANGED <<todo, skipped, cand>>
    /\ UNCHANGED <<tableVars, day, offset, written, existing, kinds>>

\* Mutant: the number is counted anew at every insert.
NextSeq_recounted(w) == Cardinality(RowsOn(day[w])) + 1

\* Mutant: the first number of a day is 0.
NextSeq_from_zero(w) == offset[w] + written[w]

\* mint_proposal_id and _persist: a number out of range or taken is an error,
\* and ends the run.
NextSeq(w) == offset[w] + written[w] + 1

Persist(e) ==
    /\ pc[e] = "persist"
    /\ \/ /\ NextSeq(e) <= MaxSeq /\ ~ Taken(day[e], NextSeq(e))
          /\ proposals' = proposals \cup {Row(day[e], NextSeq(e), cand[e])}
          /\ existing' = [existing EXCEPT ![e] = @ \cup {cand[e]}]
          /\ written' = [written EXCEPT ![e] = @ + 1]
          /\ todo' = [todo EXCEPT ![e] = @ \ {cand[e]}]
          /\ cand' = [cand EXCEPT ![e] = None]
          /\ Goto(e, "candidates")
          /\ UNCHANGED <<day, offset, kinds, skipped>>
       \/ /\ NextSeq(e) > MaxSeq \/ Taken(day[e], NextSeq(e))
          /\ Stop(e)
          /\ UNCHANGED proposals
    /\ UNCHANGED <<resets, exceeded, today, runs>>

\* The candidates are through, or the run's cap or its time budget is.
EndKind(e) ==
    /\ pc[e] = "candidates"
    /\ \/ todo[e] \subseteq existing[e] /\ Goto(e, "propose")
       \/ Goto(e, "emit")
    /\ UNCHANGED <<tableVars, runVars, engineVars>>

_emit_budget_signal(e) ==
    /\ pc[e] = "emit" \/ (pc[e] = "propose" /\ kinds[e] = {})
    /\ exceeded' = IF skipped[e] THEN exceeded \cup {e} ELSE exceeded
    /\ Stop(e)
    /\ UNCHANGED <<proposals, resets, today, runs>>

-----------------------------------------------------------------------------
(* The consolidation.                                                      *)

\* _list_promotion_candidates.
StartJob(j, candidates) ==
    /\ BeginRun(j)
    /\ todo' = [todo EXCEPT ![j] = candidates]
    /\ Goto(j, "existing")
    /\ UNCHANGED engineVars

\* Mutant: only a pending proposal blocks the next.
existing_pending_targets(j) ==
    /\ pc[j] = "existing"
    /\ existing' = [existing EXCEPT ![j] =
           {r.target : r \in {q \in proposals : q.target \in Chunks /\ q.status = "pending"}}]
    /\ Goto(j, "count")
    /\ UNCHANGED <<tableVars, day, offset, written, todo, engineVars>>

_existing_consolidate_targets(j) ==
    /\ pc[j] = "existing"
    /\ existing' = [existing EXCEPT ![j] =
           {r.target : r \in {q \in proposals : q.target \in Chunks /\ q.status \in Blocking}}]
    /\ Goto(j, "count")
    /\ UNCHANGED <<tableVars, day, offset, written, todo, engineVars>>

CountForJob(j) ==
    /\ count_proposals_on_day(j)
    /\ Goto(j, "insert")
    /\ UNCHANGED engineVars

\* All the inserts and their commit; an id that is taken rolls all back.
InsertBatch(j) ==
    LET fresh == todo[j] \ existing[j]
        seqs  == offset[j] + 1 .. offset[j] + Cardinality(fresh)
    IN  /\ pc[j] = "insert"
        /\ \/ /\ \A n \in seqs : n <= MaxSeq /\ ~ Taken(day[j], n)
              /\ \E order \in Bijection(seqs, fresh) :
                    proposals' = proposals \cup {Row(day[j], n, order[n]) : n \in seqs}
           \/ /\ \E n \in seqs : n > MaxSeq \/ Taken(day[j], n)
              /\ UNCHANGED proposals
        /\ Stop(j)
        /\ UNCHANGED <<resets, exceeded, today, runs>>

-----------------------------------------------------------------------------
(* The gateway, and the clock.                                             *)

\* reset_decay files an applied memory_op under an id of its own.
reset_decay ==
    /\ resets < MaxResets
    /\ resets' = resets + 1
    /\ UNCHANGED <<proposals, exceeded, today, runs, pc, runVars, engineVars>>

\* What the gateway makes of a row.
Settle(r, s) ==
    /\ \/ r.status = "pending" /\ s \in {"applied", "denied"}
       \/ r.status = "applied" /\ s = "rolled_back"
    /\ proposals' = (proposals \ {r}) \cup {[r EXCEPT !.status = s]}
    /\ UNCHANGED <<resets, exceeded, today, runs, pc, runVars, engineVars>>

Midnight ==
    /\ today < Days
    /\ today' = today + 1
    /\ UNCHANGED <<proposals, resets, exceeded, runs, pc, runVars, engineVars>>

EngineStep(e) ==
    \/ StartEngine(e) \/ CountForEngine(e)
    \/ \E k \in Kinds, C \in SUBSET Targets :
          (\A t \in C : KindOf[t] = k) /\ Propose(e, k, C)
    \/ \E t \in todo[e] : CheckTotal(e, t)
    \/ CheckKind(e) \/ Persist(e) \/ EndKind(e) \/ _emit_budget_signal(e)

JobStep(j) ==
    \/ \E C \in SUBSET Chunks : StartJob(j, C)
    \/ _existing_consolidate_targets(j) \/ CountForJob(j) \/ InsertBatch(j)

Next ==
    \/ \E e \in Engines : EngineStep(e)
    \/ \E j \in Jobs : JobStep(j)
    \/ \E w \in Writers : Abandon(w)
    \/ \E r \in proposals, s \in Statuses : Settle(r, s)
    \/ reset_decay \/ Midnight

Spec == Init /\ [][Next]_vars

-----------------------------------------------------------------------------
(* Properties.                                                             *)

Rows == [day : 1..Days, seq : 1..MaxSeq, target : Targets \cup Chunks, status : Statuses]

TypeOK ==
    /\ proposals \subseteq Rows
    /\ resets \in 0..MaxResets /\ runs \in 0..MaxRuns
    /\ exceeded \subseteq Engines
    /\ today \in 1..Days
    /\ pc \in [Writers -> Steps]
    /\ day \in [Writers -> 1..Days]
    /\ offset \in [Writers -> Nat]
    /\ written \in [Writers -> Nat]
    /\ existing \in [Writers -> SUBSET (Targets \cup Chunks)]
    /\ todo \in [Writers -> SUBSET (Targets \cup Chunks)]
    /\ \A e \in Engines : todo[e] \subseteq Targets
    /\ \A j \in Jobs : todo[j] \subseteq Chunks
    /\ kinds \in [Engines -> SUBSET Kinds]
    /\ cand \in [Engines -> Targets \cup {None}]
    /\ skipped \in [Engines -> BOOLEAN]
    /\ \A e \in Engines : pc[e] \in {"check_kind", "persist"} => cand[e] \in Targets

\* The numbers of a day have no gap and no double, whoever filed, collided or
\* was cut short: the next run's count is a number it can file under, and a day
\* never wedges (count_proposals_on_day, mint_proposal_id).
DayIdsDense ==
    \A d \in 1..Days :
        /\ {r.seq : r \in RowsOn(d)} = 1..Cardinality(RowsOn(d))
        /\ \A r, q \in RowsOn(d) : r.seq = q.seq => r = q

\* Engine runs that overlap do not file a target twice on a day: the second one
\* to insert finds its id taken (run_once, existing_targets).
EngineFilesOnce ==
    \A r, q \in proposals :
        r.target = q.target /\ r.target \in Targets /\ r.day = q.day => r = q

\* No day gets an engine proposal past the weekly total or its kind's cap,
\* though the counts are read before the insert (_check_budget, _persist).
EngineRows(d, k) == {r \in RowsOn(d) : r.target \in Targets /\ KindOf[r.target] = k}
EngineNumbers(d, k) == {r.seq : r \in EngineRows(d, k)}
EngineWithinBudget ==
    /\ \A r \in proposals : r.target \in Targets => r.seq <= WeeklyTotal
    /\ \A d \in 1..Days, k \in Kinds : Cardinality(EngineNumbers(d, k)) <= Cap[k]

\* A chunk has one live consolidation proposal at a time, where the scheduler's
\* job is the only one to consolidate (consolidation_run_once).
OneLivePromotion ==
    \A r, q \in proposals :
        r.target = q.target /\ r.target \in Chunks /\ {r.status, q.status} \subseteq Blocking
            => r = q

=============================================================================
