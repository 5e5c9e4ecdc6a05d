---------------------- MODULE EvolutionLifecycle_proofs ----------------------
(***************************************************************************)
(* What holds of the proposal lifecycle for every set of proposals and     *)
(* requests, and at the end what holds besides when no two requests about  *)
(* one proposal overlap.                                                   *)
(***************************************************************************)
EXTENDS EvolutionLifecycle, FiniteSetTheorems, TLAPS

(* Every column keeps its domain and every handler stays on its steps.     *)

LEMMA TypeStep ==
    ASSUME TypeOK, [Next]_vars
    PROVE  TypeOK'
<1> USE RequestsDisjoint, ProposalAssumption
    DEF TypeOK, Requests, GatewayRequests, Steps, Finished, Statuses, Verbs,
        dbVars, localVars, ghostVars, Goto, SetStatus
<1>1. ASSUME NEW p \in Proposals, insert(p) PROVE TypeOK'
  BY <1>1 DEF insert
<1>2. ASSUME NEW d \in Decisions, DecisionStep(d) PROVE TypeOK'
  <2>1. ASSUME NEW p \in Proposals, NEW v \in Verbs, BeginDecision(d, p, v)
        PROVE  TypeOK'
    BY <2>1 DEF BeginDecision
  <2>2. CASE AppendReason(d)
    <3>1. seenReason[d] \cup {d} \in SUBSET Decisions
      OBVIOUS
    <3>2. reasoning' \in [Proposals -> SUBSET Decisions]
      BY <2>2, <3>1 DEF AppendReason
    <3>3. pc' \in [Requests -> Steps]
      BY <2>2 DEF AppendReason
    <3>4. QED BY <2>2, <3>2, <3>3 DEF AppendReason
  <2>3. CASE set_decision(d)
    BY <2>3 DEF set_decision
  <2>4. CASE DecisionStorageError(d)
    BY <2>4 DEF DecisionStorageError
  <2>5. QED BY <1>2, <2>1, <2>2, <2>3, <2>4 DEF DecisionStep
<1>3. ASSUME NEW a \in Applies, ApplyStep(a) PROVE TypeOK'
  <2>1. ASSUME NEW p \in Proposals, BeginApply(a, p) PROVE TypeOK'
    BY <2>1 DEF BeginApply
  <2>2. CASE record_intent(a)
    BY <2>2 DEF record_intent
  <2>3. CASE ReadTarget(a)
    BY <2>3 DEF ReadTarget
  <2>4. CASE WriteTarget(a)
    <3>1. seenEffect[a] + 1 \in Int
      OBVIOUS
    <3>2. effect' \in [Proposals -> Int]
      BY <2>4, <3>1 DEF WriteTarget, WriteChunks, WriteSkill
    <3>3. pc' \in [Requests -> Steps] /\ wrote' \subseteq Applies
      BY <2>4 DEF WriteTarget, WriteChunks, WriteSkill
    <3>4. QED BY <2>4, <3>2, <3>3 DEF WriteTarget, WriteChunks, WriteSkill
  <2>5. CASE commit_evolution_tx(a)
    BY <2>5 DEF commit_evolution_tx
  <2>6. CASE mark_committed(a)
    BY <2>6 DEF mark_committed, StampIntent
  <2>7. CASE mark_failed(a)
    BY <2>7 DEF mark_failed, StampIntent
  <2>8. QED BY <1>3, <2>1, <2>2, <2>3, <2>4, <2>5, <2>6, <2>7 DEF ApplyStep
<1>4. ASSUME NEW s \in ShadowRuns, ShadowStep(s) PROVE TypeOK'
  <2>1. ASSUME NEW p \in Proposals, list_pending_for_shadow(s, p) PROVE TypeOK'
    BY <2>1 DEF list_pending_for_shadow
  <2>2. CASE claim_for_shadow(s)
    BY <2>2 DEF claim_for_shadow
  <2>3. CASE mark_shadow_done(s)
    BY <2>3 DEF mark_shadow_done
  <2>4. CASE ShadowRunError(s)
    BY <2>4 DEF ShadowRunError
  <2>5. QED BY <1>4, <2>1, <2>2, <2>3, <2>4 DEF ShadowStep
<1>5. ASSUME NEW r \in Reverts, RevertStep(r) PROVE TypeOK'
  <2>1. ASSUME NEW p \in Proposals, list_applied_in_grace_window(r, p)
        PROVE  TypeOK'
    BY <2>1 DEF list_applied_in_grace_window
  <2>2. CASE BeginRevert(r)
    BY <2>2 DEF BeginRevert, Audited
  <2>3. CASE revert_memory_op(r)
    <3>1. \A p \in Proposals : effect[p] - 1 \in Int
      OBVIOUS
    <3>2. effect' \in [Proposals -> Int]
      BY <2>3, <3>1 DEF revert_memory_op
    <3>3. pc' \in [Requests -> Steps]
      BY <2>3 DEF revert_memory_op
    <3>4. QED BY <2>3, <3>2, <3>3 DEF revert_memory_op
  <2>4. CASE mark_rolled_back(r)
    BY <2>4 DEF mark_rolled_back
  <2>5. CASE mark_auto_rolled_back(r)
    BY <2>5 DEF mark_auto_rolled_back
  <2>6. CASE RevertStorageError(r)
    BY <2>6 DEF RevertStorageError
  <2>7. QED BY <1>5, <2>1, <2>2, <2>3, <2>4, <2>5, <2>6 DEF RevertStep
<1>6. ASSUME NEW x \in Requests, Abandon(x) PROVE TypeOK'
  BY <1>6 DEF Abandon, InFlight
<1>7. CASE GatewayRestart \/ scan_half_committed
  BY <1>7 DEF GatewayRestart, scan_half_committed, InFlight
<1>8. CASE UNCHANGED vars
  BY <1>8 DEF vars
<1>9. QED BY <1>1, <1>2, <1>3, <1>4, <1>5, <1>6, <1>7, <1>8 DEF Next

\* Every column keeps its domain, every handler stays on its steps, and every
\* request under way is about a filed proposal.
THEOREM TypeCorrect == Spec => []TypeOK
<1>1. Init => TypeOK
  BY RequestsDisjoint, ProposalAssumption
     DEF Init, TypeOK, Requests, GatewayRequests, Steps, Finished, Statuses, Verbs
<1>2. TypeOK /\ [Next]_vars => TypeOK'
  BY TypeStep
<1>3. QED BY <1>1, <1>2, PTL DEF Spec

-----------------------------------------------------------------------------
(* The intent log.  What an apply has written is a function of where it    *)
(* is; a dropped one keeps whatever it had written.                        *)

Progress(a) ==
    /\ pc[a] \in {"idle", "gated", "rejected"} =>
          intent[a] = "none" /\ a \notin wrote /\ hist[a] = "none"
    /\ pc[a] \in {"opened", "read"} =>
          intent[a] = "open" /\ a \notin wrote /\ hist[a] = "none"
    /\ pc[a] = "mutated" =>
          intent[a] = "open" /\ a \in wrote /\ hist[a] = "none"
    /\ pc[a] = "failing" => intent[a] = "open" /\ hist[a] = "none"
    /\ pc[a] = "committed" =>
          intent[a] = "open" /\ a \in wrote /\ hist[a] # "none"
    /\ pc[a] = "gone" /\ hist[a] = "none" /\ a \in wrote => intent[a] = "open"
    /\ pc[a] \in {"idle", "gated", "rejected", "opened", "read", "mutated",
                  "failing", "committed", "done", "failed", "gone"}

WriteAheadInv == WriteAhead /\ \A a \in Applies : Progress(a)

LEMMA WriteAheadStep ==
    ASSUME TypeOK, WriteAheadInv, [Next]_vars
    PROVE  WriteAheadInv'
<1> USE RequestsDisjoint
    DEF TypeOK, WriteAheadInv, WriteAhead, Progress, Requests, GatewayRequests,
        dbVars, localVars, ghostVars, Goto, SetStatus
<1>1. ASSUME NEW p \in Proposals, insert(p) PROVE WriteAheadInv'
  BY <1>1 DEF insert
<1>2. ASSUME NEW d \in Decisions, DecisionStep(d) PROVE WriteAheadInv'
  BY <1>2 DEF DecisionStep, BeginDecision, AppendReason, set_decision,
              DecisionStorageError
<1>3. ASSUME NEW a \in Applies, ApplyStep(a) PROVE WriteAheadInv'
  <2>1. ASSUME NEW p \in Proposals, BeginApply(a, p) PROVE WriteAheadInv'
    BY <2>1 DEF BeginApply
  <2>2. CASE record_intent(a)
    BY <2>2 DEF record_intent
  <2>3. CASE ReadTarget(a)
    BY <2>3 DEF ReadTarget
  <2>4. CASE WriteTarget(a)
    BY <2>4 DEF WriteTarget, WriteChunks, WriteSkill
  <2>5. CASE commit_evolution_tx(a)
    BY <2>5 DEF commit_evolution_tx
  <2>6. CASE mark_committed(a)
    BY <2>6 DEF mark_committed, StampIntent
  <2>7. CASE mark_failed(a)
    BY <2>7 DEF mark_failed, StampIntent
  <2>8. QED BY <1>3, <2>1, <2>2, <2>3, <2>4, <2>5, <2>6, <2>7 DEF ApplyStep
<1>4. ASSUME NEW s \in ShadowRuns, ShadowStep(s) PROVE WriteAheadInv'
  BY <1>4 DEF ShadowStep, list_pending_for_shadow, claim_for_shadow,
              mark_shadow_done, ShadowRunError
<1>5. ASSUME NEW r \in Reverts, RevertStep(r) PROVE WriteAheadInv'
  BY <1>5 DEF RevertStep, list_applied_in_grace_window, BeginRevert,
              revert_memory_op, mark_rolled_back, mark_auto_rolled_back,
              RevertStorageError
<1>6. ASSUME NEW x \in Requests, Abandon(x) PROVE WriteAheadInv'
  BY <1>6 DEF Abandon, InFlight, Finished
<1>7. CASE GatewayRestart \/ scan_half_committed
  BY <1>7 DEF GatewayRestart, scan_half_committed, InFlight, Finished
<1>8. CASE UNCHANGED vars
  BY <1>8 DEF vars
<1>9. QED BY <1>1, <1>2, <1>3, <1>4, <1>5, <1>6, <1>7, <1>8 DEF Next

LEMMA WriteAheadInvariant == Spec => [](TypeOK /\ WriteAheadInv)
<1>1. Init => WriteAheadInv
  BY RequestsDisjoint DEF Init, WriteAheadInv, WriteAhead, Progress, Requests,
                          GatewayRequests
<1>2. TypeOK /\ WriteAheadInv /\ [Next]_vars => WriteAheadInv'
  BY WriteAheadStep
<1>3. QED BY <1>1, <1>2, TypeCorrect, PTL DEF Spec

\* Whatever an apply did to the data is in the history or under an intent that
\* is not stamped committed (EvolutionApplier::apply).
THEOREM IntentLogIsWriteAhead == Spec => []WriteAhead
<1>1. WriteAheadInv => WriteAhead
  BY DEF WriteAheadInv
<1>2. QED BY <1>1, WriteAheadInvariant, PTL

\* A scan reports every apply that was cut short between the data and the
\* audit (scan_half_committed).
THEOREM ScanIsComplete == Spec => ScanReportsInterrupted
<1>1. TypeOK /\ WriteAheadInv /\ [Next]_vars =>
        [scan_half_committed =>
            \A a \in wrote : pc[a] = "gone" /\ hist[a] = "none" => a \in surfaced']_vars
  BY DEF TypeOK, WriteAheadInv, WriteAhead, Progress, scan_half_committed
<1>2. QED BY <1>1, WriteAheadInvariant, PTL DEF Spec, ScanReportsInterrupted

-----------------------------------------------------------------------------
(* The claim.  A claimed proposal never becomes pending again, so a second *)
(* claim never succeeds.                                                   *)

ClaimInv ==
    /\ OneRunner
    /\ \A s \in claimed : /\ pc[s] \notin {"idle", "listed"}
                           /\ status[target[s]] \notin {"absent", "pending"}

LEMMA ClaimStep ==
    ASSUME TypeOK, ClaimInv, [Next]_vars
    PROVE  ClaimInv'
<1> USE RequestsDisjoint, ProposalAssumption
    DEF TypeOK, ClaimInv, OneRunner, Requests, GatewayRequests, Statuses,
        dbVars, localVars, ghostVars, Goto, SetStatus
<1>1. ASSUME NEW p \in Proposals, insert(p) PROVE ClaimInv'
  BY <1>1 DEF insert
<1>2. ASSUME NEW d \in Decisions, DecisionStep(d) PROVE ClaimInv'
  <2>1. ASSUME NEW p \in Proposals, NEW v \in Verbs, BeginDecision(d, p, v)
        PROVE  ClaimInv'
    BY <2>1 DEF BeginDecision
  <2>2. CASE AppendReason(d)
    BY <2>2 DEF AppendReason
  <2>3. CASE set_decision(d)
    BY <2>3 DEF set_decision
  <2>4. CASE DecisionStorageError(d)
    BY <2>4 DEF DecisionStorageError
  <2>5. QED BY <1>2, <2>1, <2>2, <2>3, <2>4 DEF DecisionStep
<1>3. ASSUME NEW a \in Applies, ApplyStep(a) PROVE ClaimInv'
  BY <1>3 DEF ApplyStep, BeginApply, record_intent, ReadTarget, WriteTarget, WriteChunks, WriteSkill,
              commit_evolution_tx, mark_committed, mark_failed, StampIntent
<1>4. ASSUME NEW s \in ShadowRuns, ShadowStep(s) PROVE ClaimInv'
  <2>1. ASSUME NEW p \in Proposals, list_pending_for_shadow(s, p)
        PROVE  ClaimInv'
    BY <2>1 DEF list_pending_for_shadow
  <2>2. CASE claim_for_shadow(s)
    BY <2>2 DEF claim_for_shadow
  <2>3. CASE mark_shadow_done(s)
    BY <2>3 DEF mark_shadow_done
  <2>4. CASE ShadowRunError(s)
    BY <2>4 DEF ShadowRunError
  <2>5. QED BY <1>4, <2>1, <2>2, <2>3, <2>4 DEF ShadowStep
<1>5. ASSUME NEW r \in Reverts, RevertStep(r) PROVE ClaimInv'
  BY <1>5 DEF RevertStep, list_applied_in_grace_window, BeginRevert,
              revert_memory_op, mark_rolled_back, mark_auto_rolled_back,
              RevertStorageError
<1>6. ASSUME NEW x \in Requests, Abandon(x) PROVE ClaimInv'
  BY <1>6 DEF Abandon
<1>7. CASE GatewayRestart \/ scan_half_committed
  BY <1>7 DEF GatewayRestart, scan_half_committed
<1>8. CASE UNCHANGED vars
  BY <1>8 DEF vars
<1>9. QED BY <1>1, <1>2, <1>3, <1>4, <1>5, <1>6, <1>7, <1>8 DEF Next

\* One proposal is shadow-tested by at most one runner, ever
\* (claim_for_shadow).
THEOREM AtMostOneRunner == Spec => []OneRunner
<1>1. Init => ClaimInv
  BY DEF Init, ClaimInv, OneRunner
<1>2. TypeOK /\ ClaimInv /\ [Next]_vars => ClaimInv'
  BY ClaimStep
<1>3. ClaimInv => OneRunner
  BY DEF ClaimInv
<1>4. QED BY <1>1, <1>2, <1>3, TypeCorrect, PTL DEF Spec

-----------------------------------------------------------------------------
(* The gate.  An approval that went through stays on record, and every     *)
(* apply past the gate is on a proposal that has one.                      *)

ApprovedOnce(p) ==
    \E d \in Decisions : target[d] = p /\ verb[d] = "approve" /\ pc[d] = "done"

GateInv ==
    /\ \A p \in Proposals : status[p] = "approved" => ApprovedOnce(p)
    /\ \A a \in Applies : pc[a] \notin {"idle", "rejected"} => ApprovedOnce(target[a])
    /\ \A a \in wrote : pc[a] # "idle" /\ ApprovedOnce(target[a])

LEMMA GateStep ==
    ASSUME TypeOK, GateInv, [Next]_vars
    PROVE  GateInv'
<1> USE RequestsDisjoint, ProposalAssumption
    DEF TypeOK, Requests, GatewayRequests, dbVars, localVars, ghostVars,
        Goto, SetStatus
<1>a. \A p : ApprovedOnce(p) => ApprovedOnce(p)'
  <2> SUFFICES ASSUME NEW d \in Decisions, pc[d] = "done"
               PROVE  pc'[d] = "done" /\ target'[d] = target[d] /\ verb'[d] = verb[d]
    BY DEF ApprovedOnce
  <2>1. ASSUME NEW e \in Decisions, DecisionStep(e)
        PROVE  pc'[d] = "done" /\ target'[d] = target[d] /\ verb'[d] = verb[d]
    BY <2>1 DEF DecisionStep, BeginDecision, AppendReason, set_decision,
                DecisionStorageError
  <2>2. ASSUME NEW a \in Applies, ApplyStep(a)
        PROVE  pc'[d] = "done" /\ target'[d] = target[d] /\ verb'[d] = verb[d]
    BY <2>2 DEF ApplyStep, BeginApply, record_intent, ReadTarget, WriteTarget, WriteChunks, WriteSkill,
                commit_evolution_tx, mark_committed, mark_failed, StampIntent
  <2>3. ASSUME NEW s \in ShadowRuns, ShadowStep(s)
        PROVE  pc'[d] = "done" /\ target'[d] = target[d] /\ verb'[d] = verb[d]
    BY <2>3 DEF ShadowStep, list_pending_for_shadow, claim_for_shadow,
                mark_shadow_done, ShadowRunError
  <2>4. ASSUME NEW r \in Reverts, RevertStep(r)
        PROVE  pc'[d] = "done" /\ target'[d] = target[d] /\ verb'[d] = verb[d]
    BY <2>4 DEF RevertStep, list_applied_in_grace_window, BeginRevert,
                revert_memory_op, mark_rolled_back, mark_auto_rolled_back,
                RevertStorageError
  <2>5. QED
    BY <2>1, <2>2, <2>3, <2>4 DEF Next, insert, Abandon, InFlight, Finished,
                                  GatewayRestart, scan_half_committed, vars
<1>1. ASSUME NEW p \in Proposals, insert(p) PROVE GateInv'
  BY <1>1, <1>a DEF insert, GateInv
<1>2. ASSUME NEW d \in Decisions, DecisionStep(d) PROVE GateInv'
  <2>1. ASSUME NEW p \in Proposals, NEW v \in Verbs, BeginDecision(d, p, v)
        PROVE  GateInv'
    BY <2>1, <1>a DEF BeginDecision, GateInv
  <2>2. CASE AppendReason(d)
    BY <2>2, <1>a DEF AppendReason, GateInv
  <2>3. CASE set_decision(d)
    <3>1. verb[d] = "approve" => ApprovedOnce(target[d])'
      BY <2>3 DEF set_decision, ApprovedOnce
    <3>2. QED BY <2>3, <3>1, <1>a DEF set_decision, GateInv
  <2>4. CASE DecisionStorageError(d)
    BY <2>4, <1>a DEF DecisionStorageError, GateInv
  <2>5. QED BY <1>2, <2>1, <2>2, <2>3, <2>4 DEF DecisionStep
<1>3. ASSUME NEW a \in Applies, ApplyStep(a) PROVE GateInv'
  <2>1. ASSUME NEW p \in Proposals, BeginApply(a, p) PROVE GateInv'
    BY <2>1, <1>a DEF BeginApply, GateInv
  <2>2. CASE record_intent(a)
    BY <2>2, <1>a DEF record_intent, GateInv
  <2>3. CASE ReadTarget(a)
    BY <2>3, <1>a DEF ReadTarget, GateInv
  <2>4. CASE WriteTarget(a)
    BY <2>4, <1>a DEF WriteTarget, WriteChunks, WriteSkill, GateInv
  <2>5. CASE commit_evolution_tx(a)
    BY <2>5, <1>a DEF commit_evolution_tx, GateInv
  <2>6. CASE mark_committed(a) \/ mark_failed(a)
    BY <2>6, <1>a DEF mark_committed, mark_failed, StampIntent, GateInv
  <2>7. QED BY <1>3, <2>1, <2>2, <2>3, <2>4, <2>5, <2>6 DEF ApplyStep
<1>4. ASSUME NEW s \in ShadowRuns, ShadowStep(s) PROVE GateInv'
  BY <1>4, <1>a DEF ShadowStep, list_pending_for_shadow, claim_for_shadow,
                    mark_shadow_done, ShadowRunError, GateInv
<1>5. ASSUME NEW r \in Reverts, RevertStep(r) PROVE GateInv'
  BY <1>5, <1>a DEF RevertStep, list_applied_in_grace_window, BeginRevert,
                    revert_memory_op, mark_rolled_back, mark_auto_rolled_back,
                    RevertStorageError, GateInv
<1>6. ASSUME NEW x \in Requests, Abandon(x) PROVE GateInv'
  BY <1>6, <1>a DEF Abandon, InFlight, Finished, GateInv
<1>7. CASE GatewayRestart \/ scan_half_committed
  BY <1>7, <1>a DEF GatewayRestart, scan_half_committed, InFlight, Finished, GateInv
<1>8. CASE UNCHANGED vars
  BY <1>8 DEF vars, GateInv, ApprovedOnce
<1>9. QED BY <1>1, <1>2, <1>3, <1>4, <1>5, <1>6, <1>7, <1>8 DEF Next

\* No data is mutated for a proposal that no approve request went through for
\* (EvolutionApplier::apply's gate, set_decision).
THEOREM OnlyApprovedIsApplied == Spec => []NothingUnapproved
<1>1. Init => GateInv
  BY RequestsDisjoint DEF Init, GateInv, Requests, GatewayRequests
<1>2. TypeOK /\ GateInv /\ [Next]_vars => GateInv'
  BY GateStep
<1>3. GateInv => NothingUnapproved
  BY DEF GateInv, NothingUnapproved, ApprovedOnce
<1>4. QED BY <1>1, <1>2, <1>3, TypeCorrect, PTL DEF Spec

-----------------------------------------------------------------------------
(* The history.  A history row is never deleted, and a row stamped rolled  *)
(* back stays so.                                                          *)

LEMMA HistoryStays ==
    ASSUME TypeOK, WriteAheadInv, [Next]_vars
    PROVE  \A a \in Applies : hist[a] # "none" =>
           /\ hist'[a] # "none" /\ target'[a] = target[a]
           /\ hist[a] = "rolled_back" => hist'[a] = "rolled_back"
<1> USE RequestsDisjoint, ProposalAssumption
    DEF TypeOK, Requests, GatewayRequests, Statuses, dbVars, localVars,
        ghostVars, Goto, SetStatus
<1> USE DEF WriteAheadInv, Progress
<1>1. ASSUME NEW b \in Applies, ApplyStep(b)
      PROVE  \A a \in Applies : hist[a] # "none" =>
                /\ hist'[a] # "none" /\ target'[a] = target[a]
                /\ hist[a] = "rolled_back" => hist'[a] = "rolled_back"
  BY <1>1 DEF ApplyStep, BeginApply, record_intent, ReadTarget, WriteTarget, WriteChunks, WriteSkill,
              commit_evolution_tx, mark_committed, mark_failed, StampIntent
<1>2. ASSUME NEW r \in Reverts, RevertStep(r)
      PROVE  \A a \in Applies : hist[a] # "none" =>
                /\ hist'[a] # "none" /\ target'[a] = target[a]
                /\ hist[a] = "rolled_back" => hist'[a] = "rolled_back"
  BY <1>2 DEF RevertStep, list_applied_in_grace_window, BeginRevert,
              revert_memory_op, mark_rolled_back, mark_auto_rolled_back,
              RevertStorageError
<1>3. ASSUME NEW d \in Decisions, DecisionStep(d)
      PROVE  hist' = hist /\ \A a \in Applies : target'[a] = target[a]
  BY <1>3 DEF DecisionStep, BeginDecision, AppendReason, set_decision,
              DecisionStorageError
<1>4. ASSUME NEW s \in ShadowRuns, ShadowStep(s)
      PROVE  hist' = hist /\ \A a \in Applies : target'[a] = target[a]
  BY <1>4 DEF ShadowStep, list_pending_for_shadow, claim_for_shadow,
              mark_shadow_done, ShadowRunError
<1>5. QED
  BY <1>1, <1>2, <1>3, <1>4 DEF Next, insert, Abandon, GatewayRestart,
                                scan_half_committed,
                                vars

RolledBackRow(p) == \E a \in Applies : target[a] = p /\ hist[a] = "rolled_back"

AuditInv ==
    /\ \A p \in Proposals : status[p] = "applied" => Audited(p)
    /\ \A p \in Proposals : status[p] = "rolled_back" => RolledBackRow(p)
    /\ \A r \in Reverts : pc[r] \in {"restoring", "restored"} => Audited(target[r])
    /\ \A r \in Reverts : pc[r] = "marked" => RolledBackRow(target[r])

LEMMA AuditStep ==
    ASSUME TypeOK, WriteAheadInv, AuditInv, [Next]_vars
    PROVE  AuditInv'
<1> USE RequestsDisjoint, ProposalAssumption
    DEF TypeOK, Requests, GatewayRequests, Statuses, dbVars, localVars,
        ghostVars, Goto, SetStatus
<1>a. \A p : (Audited(p) => Audited(p)') /\ (RolledBackRow(p) => RolledBackRow(p)')
  BY HistoryStays DEF Audited, RolledBackRow
<1>1. ASSUME NEW p \in Proposals, insert(p) PROVE AuditInv'
  BY <1>1, <1>a DEF insert, AuditInv
<1>2. ASSUME NEW d \in Decisions, DecisionStep(d) PROVE AuditInv'
  <2>1. CASE set_decision(d)
    BY <2>1, <1>a DEF set_decision, AuditInv
  <2>2. CASE ~ set_decision(d)
    BY <1>2, <2>2, <1>a DEF DecisionStep, BeginDecision, AppendReason,
                            DecisionStorageError, AuditInv
  <2>3. QED BY <2>1, <2>2
<1>3. ASSUME NEW a \in Applies, ApplyStep(a) PROVE AuditInv'
  <2>1. CASE commit_evolution_tx(a)
    <3>1. hist'[a] = "live" => Audited(target[a])'
      BY <2>1 DEF commit_evolution_tx, Audited
    <3>2. QED BY <2>1, <3>1, <1>a DEF commit_evolution_tx, AuditInv
  <2>2. CASE ~ commit_evolution_tx(a)
    BY <1>3, <2>2, <1>a DEF ApplyStep, BeginApply, record_intent, ReadTarget,
            WriteTarget, WriteChunks, WriteSkill, mark_committed, mark_failed, StampIntent, AuditInv
  <2>3. QED BY <2>1, <2>2
<1>4. ASSUME NEW s \in ShadowRuns, ShadowStep(s) PROVE AuditInv'
  BY <1>4, <1>a DEF ShadowStep, list_pending_for_shadow, claim_for_shadow,
                    mark_shadow_done, ShadowRunError, AuditInv
<1>5. ASSUME NEW r \in Reverts, RevertStep(r) PROVE AuditInv'
  <2>1. ASSUME NEW p \in Proposals, list_applied_in_grace_window(r, p)
        PROVE  AuditInv'
    BY <2>1, <1>a DEF list_applied_in_grace_window, AuditInv
  <2>2. CASE BeginRevert(r)
    BY <2>2, <1>a DEF BeginRevert, AuditInv
  <2>3. CASE revert_memory_op(r)
    BY <2>3, <1>a DEF revert_memory_op, AuditInv
  <2>4. CASE mark_rolled_back(r)
    <3>1. Audited(target[r])
      BY <2>4 DEF mark_rolled_back, AuditInv
    <3>2. RolledBackRow(target[r])'
      BY <2>4, <3>1 DEF mark_rolled_back, Audited, RolledBackRow
    <3>3. QED BY <2>4, <3>2, <1>a DEF mark_rolled_back, AuditInv
  <2>5. CASE mark_auto_rolled_back(r)
    BY <2>5, <1>a DEF mark_auto_rolled_back, AuditInv
  <2>6. CASE RevertStorageError(r)
    BY <2>6, <1>a DEF RevertStorageError, AuditInv
  <2>7. QED BY <1>5, <2>1, <2>2, <2>3, <2>4, <2>5, <2>6 DEF RevertStep
<1>6. ASSUME NEW x \in Requests, Abandon(x) PROVE AuditInv'
  BY <1>6, <1>a DEF Abandon, AuditInv
<1>7. CASE GatewayRestart \/ scan_half_committed
  BY <1>7, <1>a DEF GatewayRestart, scan_half_committed, AuditInv
<1>8. CASE UNCHANGED vars
  BY <1>8 DEF vars, AuditInv, Audited, RolledBackRow
<1>9. QED BY <1>1, <1>2, <1>3, <1>4, <1>5, <1>6, <1>7, <1>8 DEF Next

(* Every rollback that was reported has used up a commit, and an applied  *)
(* proposal has one to spare.                                              *)

Spare(p) == IF status[p] = "applied" THEN 1 ELSE 0

CountInv == \A p \in Proposals :
    Cardinality(RollbacksOf(p)) + Spare(p) <= Cardinality(CommitsOf(p))

\* Only a commit makes a proposal applied.
LEMMA CommitCases ==
    ASSUME TypeOK, [Next]_vars, NEW p \in Proposals,
           status'[p] = "applied", status[p] # "applied"
    PROVE  \E a \in Applies :
              commit_evolution_tx(a) /\ target[a] = p /\ hist'[a] = "live"
<1> USE RequestsDisjoint
    DEF TypeOK, Requests, GatewayRequests, dbVars, localVars, ghostVars, SetStatus
<1>1. ASSUME NEW a \in Applies, ApplyStep(a) PROVE commit_evolution_tx(a)
  BY <1>1 DEF ApplyStep, BeginApply, record_intent, ReadTarget, WriteTarget, WriteChunks, WriteSkill,
              mark_committed, mark_failed, StampIntent
<1>2. ASSUME NEW a \in Applies, commit_evolution_tx(a)
      PROVE  target[a] = p /\ hist'[a] = "live"
  BY <1>2 DEF commit_evolution_tx
<1>3. ASSUME NEW q \in Proposals, insert(q) PROVE FALSE
  BY <1>3 DEF insert
<1>4. ASSUME NEW d \in Decisions, DecisionStep(d) PROVE FALSE
  BY <1>4 DEF DecisionStep, BeginDecision, AppendReason, set_decision,
              DecisionStorageError
<1>5. ASSUME NEW s \in ShadowRuns, ShadowStep(s) PROVE FALSE
  BY <1>5 DEF ShadowStep, list_pending_for_shadow, claim_for_shadow,
              mark_shadow_done, ShadowRunError
<1>6. ASSUME NEW r \in Reverts, RevertStep(r) PROVE FALSE
  BY <1>6 DEF RevertStep, list_applied_in_grace_window, BeginRevert,
              revert_memory_op, mark_rolled_back, mark_auto_rolled_back,
              RevertStorageError
<1>7. QED
  BY <1>1, <1>2, <1>3, <1>4, <1>5, <1>6
     DEF Next, Abandon, GatewayRestart, scan_half_committed, vars

\* Only a rollback that finds its proposal applied is reported.
LEMMA RollbackCases ==
    ASSUME TypeOK, [Next]_vars, NEW p \in Proposals
    PROVE  \/ RollbacksOf(p)' = RollbacksOf(p)
           \/ \E r \in Reverts :
                /\ RollbacksOf(p)' = RollbacksOf(p) \cup {r}
                /\ status[p] = "applied" /\ status'[p] # "applied"
<1> USE RequestsDisjoint
    DEF TypeOK, Requests, GatewayRequests, dbVars, localVars, ghostVars, Goto, SetStatus
<1>1. ASSUME NEW r \in Reverts, mark_auto_rolled_back(r), status[target[r]] = "applied"
      PROVE  \/ RollbacksOf(p)' = RollbacksOf(p)
             \/ /\ RollbacksOf(p)' = RollbacksOf(p) \cup {r}
                /\ status[p] = "applied" /\ status'[p] # "applied"
  <2>1. pc' = [pc EXCEPT ![r] = "done"] /\ target' = target
    BY <1>1 DEF mark_auto_rolled_back
  <2>2. status' = [status EXCEPT ![target[r]] = "rolled_back"]
    BY <1>1 DEF mark_auto_rolled_back
  <2>3. CASE target[r] = p
    <3>1. RollbacksOf(p)' = RollbacksOf(p) \cup {r}
      BY <2>1, <2>3 DEF RollbacksOf
    <3>2. QED BY <3>1, <2>2, <2>3, <1>1
  <2>4. CASE target[r] # p
    BY <2>1, <2>4 DEF RollbacksOf
  <2>5. QED BY <2>3, <2>4
<1>2. CASE ~ \E r \in Reverts : mark_auto_rolled_back(r) /\ status[target[r]] = "applied"
  <2>1. \A r \in Reverts :
           /\ pc[r] = "done" <=> pc'[r] = "done"
           /\ pc[r] = "done" => target'[r] = target[r]
    <3>1. ASSUME NEW x \in Reverts, RevertStep(x)
          PROVE  \A r \in Reverts :
                    /\ pc[r] = "done" <=> pc'[r] = "done"
                    /\ pc[r] = "done" => target'[r] = target[r]
      BY <3>1, <1>2 DEF RevertStep, list_applied_in_grace_window, BeginRevert,
                  revert_memory_op, mark_rolled_back, mark_auto_rolled_back,
                  RevertStorageError
    <3>2. ASSUME NEW a \in Applies, ApplyStep(a)
          PROVE  \A r \in Reverts : pc'[r] = pc[r] /\ target'[r] = target[r]
      BY <3>2 DEF ApplyStep, BeginApply, record_intent, ReadTarget, WriteTarget, WriteChunks, WriteSkill,
                  commit_evolution_tx, mark_committed, mark_failed, StampIntent
    <3>3. ASSUME NEW d \in Decisions, DecisionStep(d)
          PROVE  \A r \in Reverts : pc'[r] = pc[r] /\ target'[r] = target[r]
      BY <3>3 DEF DecisionStep, BeginDecision, AppendReason, set_decision,
                  DecisionStorageError
    <3>4. ASSUME NEW s \in ShadowRuns, ShadowStep(s)
          PROVE  \A r \in Reverts : pc'[r] = pc[r] /\ target'[r] = target[r]
      BY <3>4 DEF ShadowStep, list_pending_for_shadow, claim_for_shadow,
                  mark_shadow_done, ShadowRunError
    <3>5. ASSUME NEW x \in Requests, Abandon(x)
          PROVE  \A r \in Reverts :
                    (pc[r] = "done" <=> pc'[r] = "done") /\ target'[r] = target[r]
      BY <3>5 DEF Abandon, InFlight, Finished
    <3>6. QED
      BY <3>1, <3>2, <3>3, <3>4, <3>5
         DEF Next, insert, GatewayRestart, scan_half_committed, vars, InFlight, Finished
  <2>2. QED BY <2>1 DEF RollbacksOf
<1>3. QED BY <1>1, <1>2

LEMMA CountStep ==
    ASSUME TypeOK, WriteAheadInv, CountInv, [Next]_vars
    PROVE  CountInv'
<1> SUFFICES ASSUME NEW p \in Proposals
             PROVE  (Cardinality(RollbacksOf(p)) + Spare(p) <= Cardinality(CommitsOf(p)))'
  BY DEF CountInv
<1>a. Cardinality(RollbacksOf(p)) + Spare(p) <= Cardinality(CommitsOf(p))
  BY DEF CountInv
<1>b. \A S : S \subseteq Applies \/ S \subseteq Reverts => IsFiniteSet(S) /\ Cardinality(S) \in Nat
  BY RequestsFinite, FS_Subset, FS_CardinalityType
<1>c. /\ CommitsOf(p) \subseteq Applies /\ CommitsOf(p)' \subseteq Applies
      /\ RollbacksOf(p) \subseteq Reverts /\ RollbacksOf(p)' \subseteq Reverts
  BY DEF CommitsOf, RollbacksOf
<1> HIDE DEF CommitsOf, RollbacksOf
<1>d. CommitsOf(p) \subseteq CommitsOf(p)'
  BY HistoryStays DEF CommitsOf
<1>e. Cardinality(CommitsOf(p)) <= Cardinality(CommitsOf(p)')
  BY <1>b, <1>c, <1>d, FS_Subset
<1>1. CASE RollbacksOf(p)' = RollbacksOf(p) /\ Spare(p)' <= Spare(p)
  BY <1>a, <1>b, <1>c, <1>e, <1>1 DEF Spare
<1>2. ASSUME NEW a \in Applies, commit_evolution_tx(a), target[a] = p, hist'[a] = "live",
             RollbacksOf(p)' = RollbacksOf(p)
      PROVE  (Cardinality(RollbacksOf(p)) + Spare(p) <= Cardinality(CommitsOf(p)))'
  <2>1. a \notin CommitsOf(p) /\ a \in CommitsOf(p)'
    BY <1>2 DEF commit_evolution_tx, WriteAheadInv, Progress, CommitsOf, localVars, TypeOK
  <2>2. Cardinality(CommitsOf(p) \cup {a}) = Cardinality(CommitsOf(p)) + 1
    BY <2>1, <1>b, <1>c, FS_AddElement
  <2>3. Cardinality(CommitsOf(p) \cup {a}) <= Cardinality(CommitsOf(p)')
    BY <2>1, <1>b, <1>c, <1>d, FS_Subset
  <2>4. Cardinality(CommitsOf(p) \cup {a}) \in Nat
    BY <2>2, <1>b, <1>c
  <2>5. QED BY <1>2, <1>a, <1>b, <1>c, <2>2, <2>3, <2>4 DEF Spare
<1>3. ASSUME NEW r \in Reverts, status[p] = "applied", status'[p] # "applied",
             RollbacksOf(p)' = RollbacksOf(p) \cup {r}
      PROVE  (Cardinality(RollbacksOf(p)) + Spare(p) <= Cardinality(CommitsOf(p)))'
  <2>1. Cardinality(RollbacksOf(p)') <= Cardinality(RollbacksOf(p)) + 1
    BY <1>3, <1>b, <1>c, FS_AddElement
  <2>2. QED BY <2>1, <1>3, <1>a, <1>b, <1>c, <1>e DEF Spare
<1>4. CASE status'[p] = "applied" /\ status[p] # "applied"
  <2>1. RollbacksOf(p)' = RollbacksOf(p)
    BY <1>4, RollbackCases
  <2>2. QED BY <1>4, <2>1, <1>2, CommitCases
<1>5. QED
  BY <1>1, <1>3, <1>4, RollbackCases DEF Spare

\* The history backs what the status says, and every rollback that was reported
\* has a commit of its own (commit_evolution_tx, revert, mark_auto_rolled_back).
THEOREM HistoryBacksStatus == Spec => []StatusIsAudited
<1>1. Init => AuditInv
  BY RequestsDisjoint DEF Init, AuditInv, Requests, GatewayRequests
<1>2. TypeOK /\ WriteAheadInv /\ AuditInv /\ [Next]_vars => AuditInv'
  BY AuditStep
<1>3. Init => CountInv
  <2>1. ASSUME Init, NEW p \in Proposals
        PROVE  RollbacksOf(p) = {} /\ CommitsOf(p) = {} /\ status[p] # "applied"
    BY <2>1 DEF Init, RollbacksOf, CommitsOf, Requests
  <2>2. QED BY <2>1, FS_EmptySet DEF CountInv, Spare
<1>4. TypeOK /\ WriteAheadInv /\ CountInv /\ [Next]_vars => CountInv'
  BY CountStep
<1>5. AuditInv /\ CountInv => StatusIsAudited
  <2>1. ASSUME CountInv, NEW p \in Proposals
        PROVE  Cardinality(RollbacksOf(p)) <= Cardinality(CommitsOf(p))
    <3>1. Cardinality(RollbacksOf(p)) \in Nat /\ Cardinality(CommitsOf(p)) \in Nat
      BY RequestsFinite, FS_Subset, FS_CardinalityType DEF RollbacksOf, CommitsOf
    <3>2. QED BY <2>1, <3>1 DEF CountInv, Spare
  <2>2. QED BY <2>1 DEF AuditInv, StatusIsAudited, RolledBackRow
<1>6. QED BY <1>1, <1>2, <1>3, <1>4, <1>5, WriteAheadInvariant, PTL DEF Spec

-----------------------------------------------------------------------------
(* The documented state machine holds of every status when requests about  *)
(* one proposal do not overlap.                                            *)

\* What a request under way read of the status is still so.
Fresh ==
    /\ \A d \in Decisions :
            pc[d] \in {"annotate", "decide"} => status[target[d]] \in can_decide
    /\ \A a \in Applies :
            pc[a] \in {"gated", "opened", "read", "mutated"} => status[target[a]] = "approved"
    /\ \A s \in ShadowRuns :
            pc[s] = "running" => status[target[s]] = "shadow_running"

SerialInv == TypeOK /\ OneAtATime /\ Fresh

Refined == Documented!Next \/ status' = status

LEMMA FreshStep ==
    ASSUME SerialInv, TypeOK', OneAtATimeNext
    PROVE  Fresh' /\ Refined
<1> USE RequestsDisjoint, ProposalAssumption
    DEF SerialInv, TypeOK, OneAtATime, OneAtATimeNext, Requests,
        GatewayRequests, dbVars, localVars, ghostVars, Goto, SetStatus,
        InFlight, Finished, can_decide, Refined, Documented!Next,
        Documented!Move
<1>1. ASSUME NEW p \in Proposals, insert(p) PROVE Fresh' /\ Refined
  BY <1>1 DEF insert, Fresh, Documented!File
<1>2. ASSUME NEW d \in Decisions, DecisionStep(d) PROVE Fresh' /\ Refined
  <2>1. ASSUME NEW p \in Proposals, NEW v \in Verbs, BeginDecision(d, p, v)
        PROVE  Fresh' /\ Refined
    BY <2>1 DEF BeginDecision, Fresh
  <2>2. CASE AppendReason(d) \/ DecisionStorageError(d)
    BY <2>2 DEF AppendReason, DecisionStorageError, Fresh
  <2>3. CASE set_decision(d)
    <3>1. Refined
      BY <2>3 DEF set_decision, Fresh, Documented!Approve, Documented!Deny
    <3>2. \A x \in Requests : x # d /\ InFlight(x) => target[x] # target[d]
      BY <2>3 DEF set_decision
    <3>3. Fresh'
      BY SMTT(40), <2>3, <3>2 DEF set_decision, Fresh
    <3>4. QED BY <3>1, <3>3
  <2>4. QED BY <1>2, <2>1, <2>2, <2>3 DEF DecisionStep
<1>3. ASSUME NEW a \in Applies, ApplyStep(a) PROVE Fresh' /\ Refined
  <2>1. ASSUME NEW p \in Proposals, BeginApply(a, p) PROVE Fresh' /\ Refined
    BY <2>1 DEF BeginApply, Fresh
  <2>2. CASE record_intent(a) \/ ReadTarget(a)
    BY <2>2 DEF record_intent, ReadTarget, Fresh
  <2>3. CASE WriteTarget(a)
    BY <2>3 DEF WriteTarget, WriteChunks, WriteSkill, Fresh
  <2>4. CASE commit_evolution_tx(a)
    <3>1. Refined
      BY <2>4 DEF commit_evolution_tx, Fresh, Documented!Apply
    <3>2. \A x \in Requests : x # a /\ InFlight(x) => target[x] # target[a]
      BY SMTT(40), <2>4 DEF commit_evolution_tx
    <3>3. Fresh'
      BY SMTT(40), <2>4, <3>2 DEF commit_evolution_tx, Fresh
    <3>4. QED BY <3>1, <3>3
  <2>5. CASE mark_committed(a) \/ mark_failed(a)
    BY <2>5 DEF mark_committed, mark_failed, StampIntent, Fresh
  <2>6. QED BY <1>3, <2>1, <2>2, <2>3, <2>4, <2>5 DEF ApplyStep
<1>4. ASSUME NEW s \in ShadowRuns, ShadowStep(s) PROVE Fresh' /\ Refined
  <2>1. ASSUME NEW p \in Proposals, list_pending_for_shadow(s, p)
        PROVE  Fresh' /\ Refined
    BY <2>1 DEF list_pending_for_shadow, Fresh
  <2>2. CASE claim_for_shadow(s)
    <3>1. Refined
      BY <2>2 DEF claim_for_shadow, Documented!Claim
    <3>2. \A x \in Requests : x # s /\ InFlight(x) => target[x] # target[s]
      BY <2>2 DEF claim_for_shadow
    <3>3. Fresh'
      BY SMTT(40), <2>2, <3>2 DEF claim_for_shadow, Fresh
    <3>4. QED BY <3>1, <3>3
  <2>3. CASE mark_shadow_done(s)
    <3>1. Refined
      BY <2>3 DEF mark_shadow_done, Fresh, Documented!Tested
    <3>2. \A x \in Requests : x # s /\ InFlight(x) => target[x] # target[s]
      BY <2>3 DEF mark_shadow_done
    <3>3. Fresh'
      BY <2>3, <3>2 DEF mark_shadow_done, Fresh
    <3>4. QED BY <3>1, <3>3
  <2>4. CASE ShadowRunError(s)
    BY <2>4 DEF ShadowRunError, Fresh
  <2>5. QED BY <1>4, <2>1, <2>2, <2>3, <2>4 DEF ShadowStep
<1>5. ASSUME NEW r \in Reverts, RevertStep(r) PROVE Fresh' /\ Refined
  <2>1. CASE mark_auto_rolled_back(r)
    <3>1. Refined
      BY <2>1 DEF mark_auto_rolled_back, Documented!RollBack
    <3>2. \A x \in Requests : x # r /\ InFlight(x) => target[x] # target[r]
      BY <2>1 DEF mark_auto_rolled_back
    <3>3. Fresh'
      <4>1. /\ pc' \in {[pc EXCEPT ![r] = "done"], [pc EXCEPT ![r] = "failed"]}
            /\ target' = target
            /\ status' \in {status, [status EXCEPT ![target[r]] = "rolled_back"]}
        BY <2>1 DEF mark_auto_rolled_back
      <4>2. ASSUME NEW x \in Requests \ Reverts, pc'[x] \notin Finished
            PROVE  pc[x] = pc'[x] /\ target'[x] = target[x]
                   /\ status'[target[x]] = status[target[x]]
        BY <2>1, <3>2, <4>1, <4>2
      <4>3. ASSUME NEW d \in Decisions, pc'[d] \in {"annotate", "decide"}
            PROVE  status'[target'[d]] \in can_decide
        BY <4>2, <4>3 DEF Fresh
      <4>4. ASSUME NEW a \in Applies,
                   pc'[a] \in {"gated", "opened", "read", "mutated"}
            PROVE  status'[target'[a]] = "approved"
        BY <4>2, <4>4 DEF Fresh
      <4>5. ASSUME NEW s \in ShadowRuns, pc'[s] = "running"
            PROVE  status'[target'[s]] = "shadow_running"
        BY <4>2, <4>5 DEF Fresh
      <4>6. QED BY <4>3, <4>4, <4>5 DEF Fresh
    <3>4. QED BY <3>1, <3>3
  <2>2. ASSUME NEW p \in Proposals, list_applied_in_grace_window(r, p)
        PROVE  Fresh' /\ Refined
    BY <2>2 DEF list_applied_in_grace_window, Fresh
  <2>3. CASE \/ BeginRevert(r) \/ revert_memory_op(r) \/ mark_rolled_back(r)
             \/ RevertStorageError(r)
    BY <2>3 DEF BeginRevert, revert_memory_op, mark_rolled_back,
                RevertStorageError, Fresh
  <2>4. QED BY <1>5, <2>1, <2>2, <2>3 DEF RevertStep
<1>6. ASSUME NEW x \in Requests, Abandon(x) PROVE Fresh' /\ Refined
  BY <1>6 DEF Abandon, Fresh
<1>7. CASE GatewayRestart \/ scan_half_committed
  BY <1>7 DEF GatewayRestart, scan_half_committed, Fresh
<1>8. QED BY <1>1, <1>2, <1>3, <1>4, <1>5, <1>6, <1>7 DEF Next

LEMMA SerialInit == Init => SerialInv
BY RequestsDisjoint, ProposalAssumption
   DEF Init, SerialInv, TypeOK, OneAtATime, InFlight, Finished, Fresh,
       Requests, GatewayRequests, Steps, Statuses, Verbs

LEMMA SerialStep ==
    ASSUME SerialInv, [OneAtATimeNext]_vars
    PROVE  SerialInv'
<1>1. CASE OneAtATimeNext
  BY <1>1, FreshStep, TypeStep DEF SerialInv, OneAtATimeNext
<1>2. CASE UNCHANGED vars
  BY <1>2, TypeStep DEF SerialInv, OneAtATime, Fresh, vars, dbVars,
                        localVars, InFlight
<1>3. QED BY <1>1, <1>2

\* One request about a proposal at a time: the status of every proposal takes
\* only the transitions the admin API documents.
THEOREM StateMachineHolds == OneAtATimeSpec => FollowsStateMachine
<1>1. Init => SerialInv
  BY SerialInit
<1>2. SerialInv /\ [OneAtATimeNext]_vars => SerialInv'
  BY SerialStep
<1>3. SerialInv /\ [OneAtATimeNext]_vars => [Documented!Next]_(Documented!vars)
  <2>1. CASE OneAtATimeNext
    BY <2>1, FreshStep, TypeStep DEF SerialInv, OneAtATimeNext, Refined,
                                     Documented!vars
  <2>2. CASE UNCHANGED vars
    BY <2>2 DEF vars, dbVars, Documented!vars
  <2>3. QED BY <2>1, <2>2
<1>4. Init => Documented!Init
  BY DEF Init, Documented!Init
<1>5. QED BY <1>1, <1>2, <1>3, <1>4, PTL
          DEF OneAtATimeSpec, FollowsStateMachine, Documented!Spec

-----------------------------------------------------------------------------
(* The change in the data, along the one request about a proposal that is  *)
(* under way, for as long as no request about it failed or was cut short.  *)

Clean(p) ==
    \A x \in Requests : target[x] = p => pc[x] \notin {"failing", "failed", "gone"}

Written(p) == \E a \in Applies : target[a] = p /\ pc[a] = "mutated"
Restored(p) == \E r \in Reverts : target[r] = p /\ pc[r] \in {"restored", "marked"}

EffectIsKnown(p) ==
    effect[p] = IF Written(p) THEN 1
                ELSE IF Restored(p) THEN 0
                ELSE IF status[p] = "applied" THEN 1 ELSE 0

DataInv ==
    /\ \A p \in Proposals : Clean(p) => EffectIsKnown(p)
    /\ \A a \in Applies : pc[a] = "read" => seenEffect[a] = effect[target[a]]
    /\ \A r \in Reverts :
            pc[r] \in {"restoring", "restored", "marked"} => status[target[r]] = "applied"

CommitInv ==
    /\ CommittedOnce
    /\ \A a \in Applies : hist[a] # "none" => status[target[a]] \in {"applied", "rolled_back"}

OnceInv == SerialInv /\ WriteAheadInv /\ DataInv /\ CommitInv

\* A step that leaves what is known of the effect on p alone.
Quiet(p) ==
    Clean(p)' => /\ Clean(p)
                 /\ Written(p)' <=> Written(p)
                 /\ Restored(p)' <=> Restored(p)
                 /\ effect'[p] = effect[p]
                 /\ status'[p] = "applied" <=> status[p] = "applied"

LEMMA QuietKeeps ==
    ASSUME NEW p \in Proposals, Quiet(p), Clean(p) => EffectIsKnown(p)
    PROVE  Clean(p)' => EffectIsKnown(p)'
BY DEF Quiet, EffectIsKnown

\* A request that begins is about no proposal yet that any other request is in
\* the middle of, and starts before any of the steps that count.
LEMMA BeginIsQuiet ==
    ASSUME TypeOK, NEW x \in Requests, NEW p \in Proposals, NEW step,
           pc[x] = "idle", target' = [target EXCEPT ![x] = p],
           pc' = [pc EXCEPT ![x] = step], step \notin {"mutated", "restored", "marked"},
           status' = status, effect' = effect
    PROVE  \A q \in Proposals : Quiet(q)
<1> SUFFICES ASSUME NEW q \in Proposals, Clean(q)'
             PROVE  /\ Clean(q)
                    /\ Written(q)' <=> Written(q)
                    /\ Restored(q)' <=> Restored(q)
  BY DEF Quiet
<1> USE RequestsDisjoint DEF TypeOK, Requests, GatewayRequests
<1>1. Clean(q)
  BY DEF Clean
<1>2. Written(q)' <=> Written(q)
  BY DEF Written
<1>3. Restored(q)' <=> Restored(q)
  BY DEF Restored
<1>4. QED BY <1>1, <1>2, <1>3

\* So is a request that goes on, for the proposals it is not about, and for its
\* own unless it moves past one of those steps.
LEMMA MoveIsQuiet ==
    ASSUME TypeOK, NEW x \in Requests, NEW step, target' = target,
           pc' = [pc EXCEPT ![x] = step], InFlight(x), NEW q \in Proposals,
           status'[q] = "applied" <=> status[q] = "applied",
           effect'[q] = effect[q],
           \/ target[x] # q
           \/ step \in {"failing", "failed", "gone"}
           \/ /\ pc[x] # "failing"
              /\ x \in Applies => (pc[x] = "mutated" <=> step = "mutated")
              /\ x \in Reverts => (pc[x] \in {"restored", "marked"}
                                        <=> step \in {"restored", "marked"})
    PROVE  Quiet(q)
<1> SUFFICES ASSUME Clean(q)'
             PROVE  /\ Clean(q)
                    /\ Written(q)' <=> Written(q)
                    /\ Restored(q)' <=> Restored(q)
  BY DEF Quiet
<1> USE RequestsDisjoint DEF TypeOK, Requests, GatewayRequests, InFlight, Finished
<1>1. target[x] = q => step \notin {"failing", "failed", "gone"}
  BY DEF Clean
<1>2. Clean(q)
  BY <1>1 DEF Clean
<1>3. Written(q)' <=> Written(q)
  BY <1>1 DEF Written
<1>4. Restored(q)' <=> Restored(q)
  BY <1>1 DEF Restored
<1>5. QED BY <1>2, <1>3, <1>4

\* Every step is quiet about every proposal but the one it writes the data of,
\* commits or rolls back.
LEMMA MostStepsAreQuiet ==
    ASSUME SerialInv, OneAtATimeNext, NEW q \in Proposals
    PROVE  \/ Quiet(q)
           \/ \E a \in Applies :
                 /\ target[a] = q
                 /\ \/ WriteTarget(a) /\ pc'[a] = "mutated"
                    \/ commit_evolution_tx(a) /\ pc'[a] = "committed"
           \/ \E r \in Reverts :
                 /\ target[r] = q
                 /\ \/ revert_memory_op(r)
                    \/ mark_auto_rolled_back(r) /\ pc'[r] = "done"
<1> USE RequestsDisjoint, ProposalAssumption
    DEF SerialInv, OneAtATimeNext, Requests, GatewayRequests, dbVars, localVars,
        ghostVars, Goto, SetStatus
<1>1. ASSUME NEW p \in Proposals, insert(p) PROVE Quiet(q)
  BY <1>1 DEF insert, Quiet, Clean, Written, Restored, TypeOK
<1>2. ASSUME NEW d \in Decisions, DecisionStep(d) PROVE Quiet(q)
  <2>1. ASSUME NEW p \in Proposals, NEW v \in Verbs, BeginDecision(d, p, v)
        PROVE  Quiet(q)
    BY <2>1, BeginIsQuiet DEF BeginDecision
  <2>2. CASE AppendReason(d)
    BY <2>2, MoveIsQuiet DEF AppendReason, InFlight, Finished
  <2>3. CASE DecisionStorageError(d)
    BY <2>3, MoveIsQuiet DEF DecisionStorageError, InFlight, Finished
  <2>4. CASE set_decision(d)
    <3>1. status'[q] = "applied" <=> status[q] = "applied"
      BY <2>4 DEF set_decision, Fresh, can_decide, TypeOK
    <3>2. QED BY <2>4, <3>1, MoveIsQuiet DEF set_decision, InFlight, Finished
  <2>5. QED BY <1>2, <2>1, <2>2, <2>3, <2>4 DEF DecisionStep
<1>3. ASSUME NEW a \in Applies, ApplyStep(a)
      PROVE  \/ Quiet(q)
             \/ /\ target[a] = q
                /\ \/ WriteTarget(a) /\ pc'[a] = "mutated"
                   \/ commit_evolution_tx(a) /\ pc'[a] = "committed"
  <2>1. ASSUME NEW p \in Proposals, BeginApply(a, p) PROVE Quiet(q)
    BY <2>1, BeginIsQuiet DEF BeginApply
  <2>2. CASE record_intent(a)
    BY <2>2, MoveIsQuiet DEF record_intent, InFlight, Finished
  <2>3. CASE ReadTarget(a)
    BY <2>3, MoveIsQuiet DEF ReadTarget, InFlight, Finished
  <2>4. CASE WriteTarget(a)
    <3>1. CASE target[a] = q /\ pc'[a] = "mutated"
      BY <2>4, <3>1
    <3>2. CASE target[a] # q
      <4>1. \E s \in {"mutated", "failing"} : pc' = [pc EXCEPT ![a] = s]
        BY <2>4 DEF WriteTarget, WriteChunks, WriteSkill
      <4>2. effect'[q] = effect[q] /\ status' = status /\ target' = target /\ InFlight(a)
        BY <2>4, <3>2 DEF WriteTarget, WriteChunks, WriteSkill, TypeOK, InFlight, Finished
      <4>3. QED BY <3>2, <4>1, <4>2, MoveIsQuiet
    <3>3. CASE pc'[a] # "mutated"
      BY <2>4, <3>3, MoveIsQuiet DEF WriteTarget, WriteChunks, WriteSkill, InFlight, Finished, TypeOK
    <3>4. QED BY <3>1, <3>2, <3>3
  <2>5. CASE commit_evolution_tx(a)
    <3>1. CASE target[a] = q /\ pc'[a] = "committed"
      BY <2>5, <3>1
    <3>2. CASE target[a] # q
      <4>1. \E s \in {"committed", "failing"} : pc' = [pc EXCEPT ![a] = s]
        BY <2>5 DEF commit_evolution_tx
      <4>2. effect' = effect /\ status'[q] = status[q] /\ target' = target /\ InFlight(a)
        BY <2>5, <3>2 DEF commit_evolution_tx, TypeOK, InFlight, Finished
      <4>3. QED BY <3>2, <4>1, <4>2, MoveIsQuiet
    <3>3. CASE pc'[a] # "committed"
      BY <2>5, <3>3, MoveIsQuiet DEF commit_evolution_tx, InFlight, Finished, TypeOK
    <3>4. QED BY <3>1, <3>2, <3>3
  <2>6. CASE mark_committed(a)
    BY <2>6, MoveIsQuiet DEF mark_committed, StampIntent, InFlight, Finished
  <2>7. CASE mark_failed(a)
    BY <2>7, MoveIsQuiet DEF mark_failed, StampIntent, InFlight, Finished
  <2>8. QED BY <1>3, <2>1, <2>2, <2>3, <2>4, <2>5, <2>6, <2>7 DEF ApplyStep
<1>4. ASSUME NEW s \in ShadowRuns, ShadowStep(s) PROVE Quiet(q)
  <2>1. ASSUME NEW p \in Proposals, list_pending_for_shadow(s, p)
        PROVE  Quiet(q)
    BY <2>1, BeginIsQuiet DEF list_pending_for_shadow
  <2>2. CASE claim_for_shadow(s)
    <3>1. status'[q] = "applied" <=> status[q] = "applied"
      BY <2>2 DEF claim_for_shadow, TypeOK
    <3>2. \E t \in {"running", "rejected"} : pc' = [pc EXCEPT ![s] = t]
      BY <2>2 DEF claim_for_shadow
    <3>3. QED BY <2>2, <3>1, <3>2, MoveIsQuiet DEF claim_for_shadow, InFlight, Finished
  <2>3. CASE mark_shadow_done(s)
    <3>1. status'[q] = "applied" <=> status[q] = "applied"
      BY <2>3 DEF mark_shadow_done, Fresh, TypeOK
    <3>2. QED BY <2>3, <3>1, MoveIsQuiet DEF mark_shadow_done, InFlight, Finished
  <2>4. CASE ShadowRunError(s)
    BY <2>4, MoveIsQuiet DEF ShadowRunError, InFlight, Finished
  <2>5. QED BY <1>4, <2>1, <2>2, <2>3, <2>4 DEF ShadowStep
<1>5. ASSUME NEW r \in Reverts, RevertStep(r)
      PROVE  \/ Quiet(q)
             \/ /\ target[r] = q
                /\ \/ revert_memory_op(r)
                   \/ mark_auto_rolled_back(r) /\ pc'[r] = "done"
  <2>1. ASSUME NEW p \in Proposals, list_applied_in_grace_window(r, p)
        PROVE  Quiet(q)
    BY <2>1, BeginIsQuiet DEF list_applied_in_grace_window
  <2>2. CASE BeginRevert(r)
    <3>1. \E t \in {"restoring", "rejected"} : pc' = [pc EXCEPT ![r] = t]
      BY <2>2 DEF BeginRevert
    <3>2. QED BY <2>2, <3>1, MoveIsQuiet DEF BeginRevert, InFlight, Finished
  <2>3. CASE revert_memory_op(r)
    <3>1. CASE target[r] = q
      BY <2>3, <3>1
    <3>2. CASE target[r] # q
      <4>1. effect'[q] = effect[q]
        BY <2>3, <3>2 DEF revert_memory_op, TypeOK
      <4>2. QED BY <2>3, <3>2, <4>1, MoveIsQuiet DEF revert_memory_op, InFlight, Finished
    <3>3. QED BY <3>1, <3>2
  <2>4. CASE mark_rolled_back(r)
    BY <2>4, MoveIsQuiet DEF mark_rolled_back, InFlight, Finished
  <2>5. CASE mark_auto_rolled_back(r)
    <3>1. CASE target[r] = q /\ pc'[r] = "done"
      BY <2>5, <3>1
    <3>2. CASE target[r] # q
      <4>1. \E t \in {"done", "failed"} : pc' = [pc EXCEPT ![r] = t]
        BY <2>5 DEF mark_auto_rolled_back
      <4>2. effect' = effect /\ status'[q] = status[q] /\ target' = target /\ InFlight(r)
        BY <2>5, <3>2 DEF mark_auto_rolled_back, TypeOK, InFlight, Finished
      <4>3. QED BY <3>2, <4>1, <4>2, MoveIsQuiet
    <3>3. CASE pc'[r] # "done"
      BY <2>5, <3>3, MoveIsQuiet DEF mark_auto_rolled_back, InFlight, Finished, TypeOK
    <3>4. QED BY <3>1, <3>2, <3>3
  <2>6. CASE RevertStorageError(r)
    BY <2>6, MoveIsQuiet DEF RevertStorageError, InFlight, Finished
  <2>7. QED BY <1>5, <2>1, <2>2, <2>3, <2>4, <2>5, <2>6 DEF RevertStep
<1>6. ASSUME NEW x \in Requests, Abandon(x) PROVE Quiet(q)
  BY <1>6, MoveIsQuiet DEF Abandon
<1>7. CASE GatewayRestart
  <2> SUFFICES ASSUME Clean(q)'
               PROVE  /\ Clean(q)
                      /\ Written(q)' <=> Written(q)
                      /\ Restored(q)' <=> Restored(q)
    BY <1>7 DEF GatewayRestart, Quiet
  <2>1. \A x \in Requests : target[x] = q => pc'[x] = pc[x]
    BY <1>7 DEF GatewayRestart, Clean
  <2>2. target' = target
    BY <1>7 DEF GatewayRestart
  <2>3. QED BY <2>1, <2>2 DEF Clean, Written, Restored
<1>8. CASE scan_half_committed
  BY <1>8 DEF scan_half_committed, Quiet, Clean, Written, Restored
<1>9. QED BY <1>1, <1>2, <1>3, <1>4, <1>5, <1>6, <1>7, <1>8 DEF Next

\* The write, the commit, the restore and the rollback keep what is known of the
\* effect on their proposal, because nobody else is at work on it.
LEMMA EffectStep ==
    ASSUME SerialInv, DataInv, OneAtATimeNext, NEW q \in Proposals
    PROVE  Clean(q)' => EffectIsKnown(q)'
<1> USE RequestsDisjoint, ProposalAssumption
    DEF Requests, GatewayRequests, Goto, SetStatus
<1>a. Clean(q) => EffectIsKnown(q)
  BY DEF DataInv
<1>b. ASSUME NEW x \in Requests, InFlight(x), target[x] = q,
             pc[x] \notin {"mutated", "restored", "marked"}
      PROVE  ~ Written(q) /\ ~ Restored(q)
  BY <1>b DEF SerialInv, OneAtATime, InFlight, Finished, Written, Restored
<1>c. ASSUME NEW x \in Requests, NEW step, InFlight(x), target[x] = q, pc[x] # "failing",
             target' = target, pc' = [pc EXCEPT ![x] = step], Clean(q)'
      PROVE  /\ Clean(q)
             /\ step \notin {"mutated", "restored", "marked"} => ~ Written(q)' /\ ~ Restored(q)'
             /\ step = "mutated" /\ x \in Applies => Written(q)'
             /\ step = "restored" /\ x \in Reverts => ~ Written(q)' /\ Restored(q)'
  <2>1. \A y \in Requests : target[y] = q /\ y # x => ~ InFlight(y) /\ pc'[y] = pc[y]
    BY <1>c DEF SerialInv, OneAtATime, TypeOK
  <2>2. pc'[x] = step
    BY <1>c DEF SerialInv, TypeOK
  <2>3. Clean(q)
    BY <2>1, <1>c DEF Clean, InFlight, Finished
  <2>4. \A y \in Requests : target[y] = q /\ y # x =>
            pc'[y] \notin {"mutated", "restored", "marked"}
    BY <2>1 DEF InFlight, Finished
  <2>5. QED BY <2>2, <2>3, <2>4, <1>c DEF Written, Restored
<1>1. CASE Quiet(q)
  BY <1>1, <1>a, QuietKeeps
<1>2. ASSUME NEW a \in Applies, target[a] = q, WriteTarget(a), pc'[a] = "mutated", Clean(q)'
      PROVE  EffectIsKnown(q)'
  <2>a. \E to \in {"mutated", "failing"} : pc' = [pc EXCEPT ![a] = to]
    BY <1>2 DEF WriteTarget, WriteChunks, WriteSkill
  <2>b. pc[a] = "read" /\ target' = target /\ InFlight(a)
    BY <1>2 DEF WriteTarget, WriteChunks, WriteSkill, InFlight, Finished, localVars
  <2>c. pc' = [pc EXCEPT ![a] = "mutated"]
    BY <1>2, <2>a DEF SerialInv, TypeOK
  <2>1. /\ pc[a] = "read" /\ target' = target /\ InFlight(a)
        /\ pc' = [pc EXCEPT ![a] = "mutated"]
    BY <2>b, <2>c
  <2>2. Clean(q) /\ Written(q)' /\ ~ Written(q) /\ ~ Restored(q)
    BY <1>2, <2>1, <1>b, <1>c
  <2>3. status[q] = "approved"
    BY <1>2, <2>1 DEF SerialInv, Fresh
  <2>4. effect[q] = 0 /\ seenEffect[a] = 0
    BY <2>1, <2>2, <2>3, <1>a, <1>2 DEF EffectIsKnown, DataInv
  <2>5. effect'[q] = 1
    BY <1>2, <2>1, <2>4 DEF WriteTarget, WriteChunks, WriteSkill, SerialInv, TypeOK
  <2>6. QED BY <2>2, <2>5 DEF EffectIsKnown
<1>3. ASSUME NEW a \in Applies, target[a] = q, commit_evolution_tx(a),
             pc'[a] = "committed", Clean(q)'
      PROVE  EffectIsKnown(q)'
  <2>1. /\ pc[a] = "mutated" /\ target' = target /\ InFlight(a) /\ effect' = effect
        /\ pc' = [pc EXCEPT ![a] = "committed"] /\ status'[q] = "applied"
    BY <1>3 DEF commit_evolution_tx, SerialInv, TypeOK, InFlight, Finished, dbVars, localVars
  <2>2. Clean(q) /\ ~ Written(q)' /\ ~ Restored(q)'
    BY <1>3, <2>1, <1>c
  <2>3. Written(q)
    BY <1>3, <2>1 DEF Written
  <2>4. effect[q] = 1
    BY <2>2, <2>3, <1>a DEF EffectIsKnown
  <2>5. QED BY <2>1, <2>2, <2>4 DEF EffectIsKnown
<1>4. ASSUME NEW r \in Reverts, target[r] = q, revert_memory_op(r), Clean(q)'
      PROVE  EffectIsKnown(q)'
  <2>1. /\ pc[r] = "restoring" /\ target' = target /\ InFlight(r)
        /\ pc' = [pc EXCEPT ![r] = "restored"]
    BY <1>4 DEF revert_memory_op, InFlight, Finished, localVars
  <2>2. Clean(q) /\ ~ Written(q)' /\ Restored(q)' /\ ~ Written(q) /\ ~ Restored(q)
    BY <1>4, <2>1, <1>b, <1>c
  <2>3. status[q] = "applied"
    BY <1>4, <2>1 DEF DataInv
  <2>4. effect[q] = 1
    BY <2>2, <2>3, <1>a DEF EffectIsKnown
  <2>5. effect'[q] = 0
    BY <1>4, <2>4 DEF revert_memory_op, SerialInv, TypeOK
  <2>6. QED BY <2>2, <2>5 DEF EffectIsKnown
<1>5. ASSUME NEW r \in Reverts, target[r] = q, mark_auto_rolled_back(r),
             pc'[r] = "done", Clean(q)'
      PROVE  EffectIsKnown(q)'
  <2>1. /\ pc[r] = "marked" /\ target' = target /\ InFlight(r) /\ effect' = effect
        /\ pc' = [pc EXCEPT ![r] = "done"] /\ status'[q] = "rolled_back"
    BY <1>5 DEF mark_auto_rolled_back, SerialInv, TypeOK, InFlight, Finished, dbVars, localVars
  <2>2. Clean(q) /\ ~ Written(q)' /\ ~ Restored(q)'
    BY <1>5, <2>1, <1>c
  <2>3. Restored(q) /\ ~ Written(q)
    BY <1>5, <2>1 DEF Restored, Written, SerialInv, OneAtATime, InFlight, Finished
  <2>4. effect[q] = 0
    BY <2>2, <2>3, <1>a DEF EffectIsKnown
  <2>5. QED BY <2>1, <2>2, <2>4 DEF EffectIsKnown
<1>6. QED BY <1>1, <1>2, <1>3, <1>4, <1>5, MostStepsAreQuiet

\* What an apply read and what a revert relies on stays so while they go on.
LEMMA ReadStaysTrue ==
    ASSUME SerialInv, DataInv, TypeOK', OneAtATimeNext
    PROVE  /\ \A a \in Applies : pc'[a] = "read" => seenEffect'[a] = effect'[target'[a]]
           /\ \A r \in Reverts :
                  pc'[r] \in {"restoring", "restored", "marked"}
                      => status'[target'[r]] = "applied"
<1> DEFINE Goal ==
        /\ \A a \in Applies : pc'[a] = "read" => seenEffect'[a] = effect'[target'[a]]
        /\ \A r \in Reverts :
               pc'[r] \in {"restoring", "restored", "marked"}
                   => status'[target'[r]] = "applied"
<1> USE RequestsDisjoint, ProposalAssumption
    DEF SerialInv, TypeOK, OneAtATime, OneAtATimeNext, Requests,
        GatewayRequests, dbVars, localVars, ghostVars, Goto, SetStatus,
        InFlight, Finished, DataInv
<1>1. ASSUME NEW p \in Proposals, insert(p) PROVE Goal
  BY <1>1 DEF insert
<1>2. ASSUME NEW d \in Decisions, DecisionStep(d) PROVE Goal
  <2>1. ASSUME NEW p \in Proposals, NEW v \in Verbs, BeginDecision(d, p, v) PROVE Goal
    BY <2>1 DEF BeginDecision
  <2>2. CASE AppendReason(d) \/ DecisionStorageError(d)
    BY <2>2 DEF AppendReason, DecisionStorageError
  <2>3. CASE set_decision(d)
    BY <2>3 DEF set_decision, Fresh, can_decide
  <2>4. QED BY <1>2, <2>1, <2>2, <2>3 DEF DecisionStep
<1>3. ASSUME NEW a \in Applies, ApplyStep(a) PROVE Goal
  <2>1. ASSUME NEW p \in Proposals, BeginApply(a, p) PROVE Goal
    BY <2>1 DEF BeginApply
  <2>2. CASE record_intent(a)
    BY <2>2 DEF record_intent
  <2>3. CASE ReadTarget(a)
    BY <2>3 DEF ReadTarget
  <2>4. CASE WriteTarget(a)
    <3>1. \A x \in Requests : x # a /\ InFlight(x) => target[x] # target[a]
      BY <2>4 DEF WriteTarget, WriteChunks, WriteSkill
    <3>2. /\ target' = target /\ status' = status /\ seenEffect' = seenEffect
          /\ \A q \in Proposals : q # target[a] => effect'[q] = effect[q]
          /\ \A x \in Requests : x # a => pc'[x] = pc[x]
          /\ pc'[a] # "read"
      BY <2>4 DEF WriteTarget, WriteChunks, WriteSkill
    <3>3. \A b \in Applies : pc'[b] = "read" =>
              /\ pc[b] = "read" /\ target[b] \in Proposals /\ target[b] # target[a]
              /\ seenEffect[b] = effect[target[b]]
      BY <3>1, <3>2
    <3>4. \A r \in Reverts : pc'[r] = pc[r]
      BY <3>2
    <3>5. QED BY <3>2, <3>3, <3>4
  <2>5. CASE commit_evolution_tx(a)
    BY <2>5 DEF commit_evolution_tx, Fresh
  <2>6. CASE mark_committed(a) \/ mark_failed(a)
    BY <2>6 DEF mark_committed, mark_failed, StampIntent
  <2>7. QED BY <1>3, <2>1, <2>2, <2>3, <2>4, <2>5, <2>6 DEF ApplyStep
<1>4. ASSUME NEW s \in ShadowRuns, ShadowStep(s) PROVE Goal
  BY SMTT(60), <1>4 DEF ShadowStep, list_pending_for_shadow, claim_for_shadow,
              mark_shadow_done, ShadowRunError, Fresh
<1>5. ASSUME NEW r \in Reverts, RevertStep(r) PROVE Goal
  <2>1. ASSUME NEW p \in Proposals, list_applied_in_grace_window(r, p) PROVE Goal
    BY <2>1 DEF list_applied_in_grace_window
  <2>2. CASE BeginRevert(r)
    BY <2>2 DEF BeginRevert
  <2>3. CASE revert_memory_op(r)
    <3>1. \A x \in Requests : x # r /\ InFlight(x) => target[x] # target[r]
      BY <2>3 DEF revert_memory_op
    <3>2. /\ target' = target /\ status' = status /\ seenEffect' = seenEffect
          /\ \A q \in Proposals : q # target[r] => effect'[q] = effect[q]
          /\ \A x \in Requests : x # r => pc'[x] = pc[x]
          /\ pc[r] = "restoring"
      BY <2>3 DEF revert_memory_op
    <3>3. QED BY SMTT(60), <3>1, <3>2
  <2>4. CASE mark_rolled_back(r) \/ RevertStorageError(r)
    BY <2>4 DEF mark_rolled_back, RevertStorageError
  <2>5. CASE mark_auto_rolled_back(r)
    <3>1. \A x \in Requests : x # r /\ InFlight(x) => target[x] # target[r]
      BY <2>5 DEF mark_auto_rolled_back
    <3>2. /\ target' = target /\ effect' = effect /\ seenEffect' = seenEffect
          /\ \A q \in Proposals : q # target[r] => status'[q] = status[q]
          /\ \A x \in Requests : x # r => pc'[x] = pc[x]
          /\ pc'[r] \in {"done", "failed"}
      BY <2>5 DEF mark_auto_rolled_back
    <3>3. QED BY SMTT(60), <3>1, <3>2
  <2>6. QED BY <1>5, <2>1, <2>2, <2>3, <2>4, <2>5 DEF RevertStep
<1>6. ASSUME NEW x \in Requests, Abandon(x) PROVE Goal
  BY <1>6 DEF Abandon
<1>7. CASE GatewayRestart \/ scan_half_committed
  BY <1>7 DEF GatewayRestart, scan_half_committed
<1>8. QED BY <1>1, <1>2, <1>3, <1>4, <1>5, <1>6, <1>7 DEF Next

\* Only a commit adds a history row, and its proposal was approved.
LEMMA HistoryGrows ==
    ASSUME SerialInv, WriteAheadInv, OneAtATimeNext
    PROVE  \A a \in Applies : hist'[a] # "none" =>
              /\ target'[a] = target[a]
              /\ \/ hist[a] # "none"
                 \/ status[target[a]] = "approved" /\ status'[target[a]] = "applied"
                    /\ hist' = [hist EXCEPT ![a] = "live"] /\ target' = target
<1> USE RequestsDisjoint, ProposalAssumption
    DEF SerialInv, TypeOK, OneAtATimeNext, Requests, GatewayRequests, dbVars,
        localVars, ghostVars, Goto, SetStatus, Finished
<1> DEFINE Grows(a) ==
        hist'[a] # "none" =>
              /\ target'[a] = target[a]
              /\ \/ hist[a] # "none"
                 \/ status[target[a]] = "approved" /\ status'[target[a]] = "applied"
                    /\ hist' = [hist EXCEPT ![a] = "live"] /\ target' = target
<1>a. \A a \in Applies : hist[a] # "none" => target'[a] = target[a]
  BY HistoryStays
<1>b. ASSUME \A a \in Applies : hist'[a] # "none" => hist[a] # "none"
      PROVE  \A a \in Applies : Grows(a)
  BY <1>a, <1>b
<1>1. ASSUME NEW x \in Applies, commit_evolution_tx(x) PROVE \A a \in Applies : Grows(a)
  <2>1. CASE hist' = hist
    BY <2>1, <1>b
  <2>2. CASE hist' # hist
    <3>1. /\ hist' = [hist EXCEPT ![x] = "live"] /\ target' = target
          /\ status' = [status EXCEPT ![target[x]] = "applied"]
      BY <1>1, <2>2 DEF commit_evolution_tx
    <3>2. status[target[x]] = "approved" /\ target[x] \in Proposals
      BY <1>1 DEF commit_evolution_tx, Fresh
    <3>3. QED BY <3>1, <3>2
  <2>3. QED BY <2>1, <2>2
<1>2. ASSUME NEW x \in Applies, ApplyStep(x), ~ commit_evolution_tx(x)
      PROVE  \A a \in Applies : Grows(a)
  <2>1. hist' = hist
    BY <1>2 DEF ApplyStep, BeginApply, record_intent, ReadTarget, WriteTarget, WriteChunks, WriteSkill,
                mark_committed, mark_failed, StampIntent
  <2>2. QED BY <2>1, <1>b
<1>3. ASSUME NEW r \in Reverts, RevertStep(r) PROVE \A a \in Applies : Grows(a)
  <2>1. \A a \in Applies : hist'[a] # "none" => hist[a] # "none"
    BY <1>3 DEF RevertStep, list_applied_in_grace_window, BeginRevert,
                revert_memory_op, mark_rolled_back, mark_auto_rolled_back,
                RevertStorageError
  <2>2. QED BY <2>1, <1>b
<1>4. ASSUME NEW d \in Decisions, DecisionStep(d) PROVE hist' = hist
  BY <1>4 DEF DecisionStep, BeginDecision, AppendReason, set_decision,
              DecisionStorageError
<1>5. ASSUME NEW s \in ShadowRuns, ShadowStep(s) PROVE hist' = hist
  BY <1>5 DEF ShadowStep, list_pending_for_shadow, claim_for_shadow,
              mark_shadow_done, ShadowRunError
<1>6. CASE hist' = hist
  BY <1>6, <1>b
<1>7. QED
  BY <1>1, <1>2, <1>3, <1>4, <1>5, <1>6
     DEF Next, insert, Abandon, GatewayRestart, scan_half_committed

\* What was once applied is never undecided or approved again.
LEMMA AppliedStays ==
    ASSUME SerialInv, TypeOK', OneAtATimeNext, NEW p \in Proposals,
           status[p] \in {"applied", "rolled_back"}
    PROVE  status'[p] \in {"applied", "rolled_back"}
<1>1. Refined
  BY FreshStep
<1>2. QED BY <1>1 DEF Refined, Documented!Next, Documented!Move, Documented!File,
                      Documented!Approve, Documented!Deny, Documented!Apply,
                      Documented!Claim, Documented!Tested, Documented!RollBack,
                      SerialInv, TypeOK

\* A commit finds its proposal approved, and no committed proposal is ever
\* approved again.
LEMMA CommitOnceStep ==
    ASSUME SerialInv, WriteAheadInv, CommitInv, TypeOK', OneAtATimeNext
    PROVE  CommitInv'
<1> DEFINE Over(p) == status[p] \in {"applied", "rolled_back"}
<1>a. \A a \in Applies : hist[a] # "none" => target[a] \in Proposals /\ Over(target[a])
  BY DEF SerialInv, TypeOK, WriteAheadInv, Progress, Requests, GatewayRequests, CommitInv
<1>1. \A a \in Applies : hist'[a] # "none" =>
            status'[target[a]] \in {"applied", "rolled_back"}
  BY HistoryGrows, AppliedStays, <1>a
<1>2. ASSUME NEW a \in Applies, NEW b \in Applies, hist'[a] # "none", hist'[b] # "none",
             target'[a] = target'[b]
      PROVE  a = b
  <2>0. target[a] = target[b]
    BY <1>2, HistoryGrows
  <2>1. CASE hist[a] # "none" /\ hist[b] # "none"
    BY <2>0, <2>1 DEF CommitInv, CommittedOnce
  <2>2. CASE hist[a] = "none" /\ hist[b] # "none"
    BY <2>0, <2>2, <1>2, <1>a, HistoryGrows
  <2>3. CASE hist[a] # "none" /\ hist[b] = "none"
    BY <2>0, <2>3, <1>2, <1>a, HistoryGrows
  <2>4. CASE hist[a] = "none" /\ hist[b] = "none"
    BY <2>4, <1>2, HistoryGrows DEF SerialInv, TypeOK
  <2>5. QED BY <2>1, <2>2, <2>3, <2>4
<1>3. \A a \in Applies : hist'[a] # "none" =>
            status'[target'[a]] \in {"applied", "rolled_back"}
  BY <1>1, HistoryGrows
<1>4. QED BY <1>2, <1>3 DEF CommitInv, CommittedOnce

LEMMA OnceInvariant == OneAtATimeSpec => []OnceInv
<1>1. Init => OnceInv
  <2> SUFFICES ASSUME Init PROVE OnceInv
    OBVIOUS
  <2>1. SerialInv
    BY SerialInit
  <2>2. WriteAheadInv /\ CommitInv
    BY RequestsDisjoint DEF Init, WriteAheadInv, WriteAhead, Progress, Requests,
        GatewayRequests, CommitInv, CommittedOnce
  <2>3. DataInv
    BY RequestsDisjoint DEF Init, DataInv, EffectIsKnown, Written, Restored,
        Requests, GatewayRequests
  <2>4. QED BY <2>1, <2>2, <2>3 DEF OnceInv
<1>2. OnceInv /\ [OneAtATimeNext]_vars => OnceInv'
  <2> SUFFICES ASSUME OnceInv, [OneAtATimeNext]_vars PROVE OnceInv'
    OBVIOUS
  <2>1. SerialInv' /\ WriteAheadInv'
    BY SerialStep, WriteAheadStep DEF OnceInv, OneAtATimeNext, SerialInv
  <2>2. CASE OneAtATimeNext
    BY <2>1, <2>2, EffectStep, ReadStaysTrue, CommitOnceStep
       DEF OnceInv, SerialInv, DataInv
  <2>3. CASE UNCHANGED vars
    BY <2>1, <2>3 DEF OnceInv, DataInv, Clean, EffectIsKnown, Written, Restored,
        CommitInv, CommittedOnce, vars, dbVars, localVars, ghostVars
  <2>4. QED BY <2>2, <2>3
<1>3. QED BY <1>1, <1>2, PTL DEF OneAtATimeSpec

\* One request about a proposal at a time: however many are repeated, dropped or
\* cut short by restarts, a proposal is committed at most once, and its change
\* is in the data exactly while it is applied unless one of them failed.
THEOREM ChangesOnce == OneAtATimeSpec => []ChangedOnce
<1>1. OnceInv => ChangedOnce
  <2> SUFFICES ASSUME OnceInv PROVE DataMatchesStatus
    BY DEF OnceInv, CommitInv, ChangedOnce
  <2> SUFFICES ASSUME NEW p \in Proposals, Undisturbed(p)
               PROVE  effect[p] = (IF status[p] = "applied" THEN 1 ELSE 0)
    BY DEF DataMatchesStatus
  <2>1. Clean(p) /\ ~ Written(p) /\ ~ Restored(p)
    BY DEF Undisturbed, InFlight, Finished, Clean, Written, Restored, Requests,
        GatewayRequests
  <2>2. QED BY <2>1 DEF OnceInv, DataInv, EffectIsKnown
<1>2. QED BY <1>1, OnceInvariant, PTL

=============================================================================
