------------------------- MODULE EvolutionLifecycle -------------------------
(***************************************************************************)
(* The life of an evolution proposal across the four programs that write   *)
(* its row: the evolution engine files it, the shadow runner tests it, the *)
(* gateway's admin handlers decide and apply it, and the auto-rollback     *)
(* monitor reverts it.                                                     *)
(*                                                                         *)
(* evolution.sqlite holds the proposal rows (status, reasoning), the       *)
(* history rows (one per committed apply) and the apply intent log;        *)
(* kb.sqlite and the skill files hold the data an apply mutates.  Every    *)
(* SQL statement, and the one two-statement transaction, is an atomic      *)
(* step; whatever a handler does between two of them can interleave with   *)
(* every other handler.                                                    *)
(*                                                                         *)
(* A member of Decisions, Applies, ShadowRuns or Reverts is one run of     *)
(* that handler against one proposal.  An intent row and a history row are *)
(* identified by the apply that inserts them: an apply inserts at most one *)
(* of each.                                                                *)
(***************************************************************************)
EXTENDS Integers, FiniteSets

CONSTANTS
    Proposals,      \* ids the engine can file
    Kind,           \* what each proposal mutates: a function into Kinds
    NeedsShadow,    \* proposals whose kind has a simulator and whose risk is gated
    Decisions,      \* POST .../approve and POST .../deny requests
    Applies,        \* POST .../apply requests
    ShadowRuns,     \* runs of the shadow tester
    Reverts,        \* runs of the auto-rollback monitor
    None

\* memory_op's three operations, and skill_update.
MemoryKinds == {"merge", "delete", "consolidate"}
Kinds == MemoryKinds \cup {"skill"}

GatewayRequests == Decisions \cup Applies
Requests == GatewayRequests \cup ShadowRuns \cup Reverts

ASSUME RequestsDisjoint ==
    /\ Decisions \cap Applies = {} /\ Decisions \cap ShadowRuns = {}
    /\ Decisions \cap Reverts = {} /\ Applies \cap ShadowRuns = {}
    /\ Applies \cap Reverts = {} /\ ShadowRuns \cap Reverts = {}

ASSUME RequestsFinite == IsFiniteSet(Applies) /\ IsFiniteSet(Reverts)

ASSUME ProposalAssumption ==
    /\ None \notin Proposals
    /\ Kind \in [Proposals -> Kinds]
    /\ NeedsShadow \subseteq Proposals

Statuses == {"absent", "pending", "shadow_running", "shadow_done",
             "approved", "denied", "applied", "rolled_back"}

\* Mutant: a running shadow test does not hold the decision back.
can_decide_early == {"pending", "shadow_running", "shadow_done"}

\* The statuses from which approve and deny are allowed.
can_decide == {"pending", "shadow_done"}

Verbs == {"approve", "deny", "deny_with_reason"}

Finished == {"idle", "rejected", "failed", "done", "gone"}
Steps == Finished \cup
    {"annotate", "decide",                             \* approve, deny
     "gated", "opened", "read", "mutated", "committed", "failing",  \* apply
     "listed", "running",                              \* shadow runner
     "restoring", "restored", "marked"}                \* revert

VARIABLES
    status,     \* evolution_proposals.status
    reasoning,  \* the deny requests whose reason is in evolution_proposals.reasoning
    effect,     \* net number of times the proposal's change is in the data:
                \* 0 as before it, 1 applied, -1 undone once too often
    intent,     \* apply_intent_log: the row of each apply
    hist,       \* evolution_history: the row of each apply
    pc,         \* where each request is
    target,     \* the proposal each request is about
    verb,       \* what each decision asks for
    seenReason, \* reasoning as each decision read it
    seenEffect, \* the data as each apply read it
    wrote,      \* the applies that have mutated the data
    claimed,    \* the shadow runs whose claim succeeded
    surfaced    \* intents the last startup scan reported

dbVars    == <<status, reasoning, effect, intent, hist>>
localVars == <<target, verb, seenReason, seenEffect>>
ghostVars == <<wrote, claimed, surfaced>>
vars == <<dbVars, pc, localVars, ghostVars>>

Init ==
    /\ status = [p \in Proposals |-> "absent"]
    /\ reasoning = [p \in Proposals |-> {}]
    /\ effect = [p \in Proposals |-> 0]
    /\ intent = [a \in Applies |-> "none"]
    /\ hist = [a \in Applies |-> "none"]
    /\ pc = [x \in Requests |-> "idle"]
    /\ target = [x \in Requests |-> None]
    /\ verb = [d \in Decisions |-> "approve"]
    /\ seenReason = [d \in Decisions |-> {}]
    /\ seenEffect = [a \in Applies |-> 0]
    /\ wrote = {}
    /\ claimed = {}
    /\ surfaced = {}

Goto(x, step) == pc' = [pc EXCEPT ![x] = step]
SetStatus(p, s) == status' = [status EXCEPT ![p] = s]

InFlight(x) == pc[x] \notin Finished

\* latest_for_proposal finds a row.
Audited(p) == \E a \in Applies : target[a] = p /\ hist[a] # "none"

-----------------------------------------------------------------------------
(* The engine files a proposal.                                            *)

insert(p) ==
    /\ status[p] = "absent"
    /\ SetStatus(p, "pending")
    /\ UNCHANGED <<reasoning, effect, intent, hist, pc, localVars, ghostVars>>

-----------------------------------------------------------------------------
(* POST /admin/evolution/:id/approve and .../deny: read the row, refuse    *)
(* with 409 unless it is undecided, then write without looking again.      *)

BeginDecision(d, p, v) ==
    /\ pc[d] = "idle"
    /\ status[p] # "absent"
    /\ target' = [target EXCEPT ![d] = p]
    /\ verb' = [verb EXCEPT ![d] = v]
    /\ seenReason' = [seenReason EXCEPT ![d] = reasoning[p]]
    /\ Goto(d, IF status[p] \notin can_decide THEN "rejected"
               ELSE IF v = "deny_with_reason" THEN "annotate" ELSE "decide")
    /\ UNCHANGED <<dbVars, seenEffect, ghostVars>>

\* deny: the reason is appended to the reasoning read at the start.
AppendReason(d) ==
    /\ pc[d] = "annotate"
    /\ reasoning' = [reasoning EXCEPT ![target[d]] = seenReason[d] \cup {d}]
    /\ Goto(d, "decide")
    /\ UNCHANGED <<status, effect, intent, hist, localVars, ghostVars>>

\* Mutant: the requested verb is written for the status.
set_decision_writes_verb(d) ==
    /\ pc[d] = "decide"
    /\ SetStatus(target[d], verb[d])
    /\ Goto(d, "done")
    /\ UNCHANGED <<reasoning, effect, intent, hist, localVars, ghostVars>>

set_decision(d) ==
    /\ pc[d] = "decide"
    /\ SetStatus(target[d], IF verb[d] = "approve" THEN "approved" ELSE "denied")
    /\ Goto(d, "done")
    /\ UNCHANGED <<reasoning, effect, intent, hist, localVars, ghostVars>>

DecisionStorageError(d) ==
    /\ pc[d] \in {"annotate", "decide"}
    /\ Goto(d, "failed")
    /\ UNCHANGED <<dbVars, localVars, ghostVars>>

-----------------------------------------------------------------------------
(* POST /admin/evolution/:id/apply: EvolutionApplier::apply.               *)

\* Mutant: apply gates like approve does.
BeginApply_gates_undecided(a, p) ==
    /\ pc[a] = "idle"
    /\ status[p] # "absent"
    /\ target' = [target EXCEPT ![a] = p]
    /\ Goto(a, IF status[p] \in can_decide \cup {"approved"} THEN "gated" ELSE "rejected")
    /\ UNCHANGED <<dbVars, verb, seenReason, seenEffect, ghostVars>>

\* Mutant: a repeated apply is let through.
BeginApply_repeats(a, p) ==
    /\ pc[a] = "idle"
    /\ status[p] # "absent"
    /\ target' = [target EXCEPT ![a] = p]
    /\ Goto(a, IF status[p] \in {"approved", "applied"} THEN "gated" ELSE "rejected")
    /\ UNCHANGED <<dbVars, verb, seenReason, seenEffect, ghostVars>>

BeginApply(a, p) ==
    /\ pc[a] = "idle"
    /\ status[p] # "absent"
    /\ target' = [target EXCEPT ![a] = p]
    /\ Goto(a, IF status[p] = "approved" THEN "gated" ELSE "rejected")
    /\ UNCHANGED <<dbVars, verb, seenReason, seenEffect, ghostVars>>

\* Mutant: an error is logged and the apply goes on.
record_intent_best_effort(a) ==
    /\ pc[a] = "gated"
    /\ intent' \in {[intent EXCEPT ![a] = "open"], intent}
    /\ Goto(a, "opened")
    /\ UNCHANGED <<status, reasoning, effect, hist, localVars, ghostVars>>

\* An error here returns before anything is mutated.
record_intent(a) ==
    /\ pc[a] = "gated"
    /\ \/ /\ intent' = [intent EXCEPT ![a] = "open"]
          /\ Goto(a, "opened")
       \/ /\ intent' = intent
          /\ Goto(a, "failed")
    /\ UNCHANGED <<status, reasoning, effect, hist, localVars, ghostVars>>

\* The rows the plan names are there and not yet changed.  A deleted chunk
\* never comes back under its id: AUTOINCREMENT does not reuse one, and the
\* restore of a deleted chunk binds none.
Applicable(p) ==
    CASE Kind[p] = "skill"  -> TRUE
      [] Kind[p] = "delete" -> ~ \E a \in wrote : target[a] = p
      [] OTHER              -> effect[p] = 0

\* execute / apply_skill_update up to the write: what it reads becomes the
\* inverse diff.
ReadTarget(a) ==
    /\ pc[a] = "opened"
    /\ seenEffect' = [seenEffect EXCEPT ![a] = effect[target[a]]]
    /\ \/ /\ Applicable(target[a])
          /\ Goto(a, "read")
       \/ Goto(a, "failing")        \* ChunkNotFound, or the kb failed
    /\ UNCHANGED <<dbVars, target, verb, seenReason, ghostVars>>

\* execute: DELETE FROM chunks finds the row or not; promote_to_consolidated does not
\* look at the namespace again.
WriteChunks(p) ==
    /\ Kind[p] # "skill"
    /\ Kind[p] \in {"merge", "delete"} => Applicable(p)
    /\ effect' = [effect EXCEPT ![p] = 1]

\* apply_skill_update: the file is replaced by what was read plus the appended lines.
WriteSkill(a) ==
    /\ Kind[target[a]] = "skill"
    /\ effect' = [effect EXCEPT ![target[a]] = seenEffect[a] + 1]

WriteTarget(a) ==
    /\ pc[a] = "read"
    /\ \/ /\ WriteChunks(target[a]) \/ WriteSkill(a)
          /\ wrote' = wrote \cup {a}
          /\ Goto(a, "mutated")
       \/ /\ Goto(a, "failing")
          /\ UNCHANGED <<effect, wrote>>
    /\ UNCHANGED <<status, reasoning, intent, hist, localVars, claimed, surfaced>>

\* One transaction: insert the history row and flip the status.  The baseline
\* capture before it, or the transaction, may fail with the data mutated.
commit_evolution_tx(a) ==
    /\ pc[a] = "mutated"
    /\ \/ /\ hist' = [hist EXCEPT ![a] = "live"]
          /\ SetStatus(target[a], "applied")
          /\ Goto(a, "committed")
       \/ /\ Goto(a, "failing")
          /\ UNCHANGED <<hist, status>>
    /\ UNCHANGED <<reasoning, effect, intent, localVars, ghostVars>>

\* A failure to stamp is logged and the row stays open.
StampIntent(a, from, stamp, to) ==
    /\ pc[a] = from
    /\ intent' \in {[intent EXCEPT ![a] = stamp], intent}
    /\ Goto(a, to)
    /\ UNCHANGED <<status, reasoning, effect, hist, localVars, ghostVars>>

mark_committed(a) == StampIntent(a, "committed", "committed", "done")
mark_failed(a) == StampIntent(a, "failing", "failed", "failed")

-----------------------------------------------------------------------------
(* The shadow runner: a process of its own.                                *)

list_pending_for_shadow(s, p) ==
    /\ pc[s] = "idle"
    /\ status[p] = "pending" /\ p \in NeedsShadow
    /\ target' = [target EXCEPT ![s] = p]
    /\ Goto(s, "listed")
    /\ UNCHANGED <<dbVars, verb, seenReason, seenEffect, ghostVars>>

\* Mutant: the UPDATE of the claim does not look at the status.
claim_unguarded(s) ==
    /\ pc[s] = "listed"
    /\ SetStatus(target[s], "shadow_running")
    /\ claimed' = claimed \cup {s}
    /\ Goto(s, "running")
    /\ UNCHANGED <<reasoning, effect, intent, hist, localVars, wrote, surfaced>>

claim_for_shadow(s) ==
    /\ pc[s] = "listed"
    /\ \/ /\ status[target[s]] = "pending"
          /\ SetStatus(target[s], "shadow_running")
          /\ claimed' = claimed \cup {s}
          /\ Goto(s, "running")
       \/ /\ status[target[s]] # "pending"
          /\ Goto(s, "rejected")
          /\ UNCHANGED <<status, claimed>>
    /\ UNCHANGED <<reasoning, effect, intent, hist, localVars, wrote, surfaced>>

mark_shadow_done(s) ==
    /\ pc[s] = "running"
    /\ SetStatus(target[s], "shadow_done")
    /\ Goto(s, "done")
    /\ UNCHANGED <<reasoning, effect, intent, hist, localVars, ghostVars>>

\* An unreadable eval set or a repo error: the row is left as it is.
ShadowRunError(s) ==
    /\ pc[s] = "running"
    /\ Goto(s, "failed")
    /\ UNCHANGED <<dbVars, localVars, ghostVars>>

-----------------------------------------------------------------------------
(* The auto-rollback monitor: a process of its own.  Whether the signals   *)
(* breach the threshold is the environment's choice.                       *)

list_applied_in_grace_window(r, p) ==
    /\ pc[r] = "idle"
    /\ status[p] = "applied"
    /\ Kind[p] \in MemoryKinds          \* watched_event_kinds
    /\ target' = [target EXCEPT ![r] = p]
    /\ Goto(r, "listed")
    /\ UNCHANGED <<dbVars, verb, seenReason, seenEffect, ghostVars>>

\* EvolutionApplier::revert gates on the status as it is now, and on there
\* being an inverse diff to replay.
BeginRevert(r) ==
    /\ pc[r] = "listed"
    /\ Goto(r, IF status[target[r]] = "applied" /\ Audited(target[r])
               THEN "restoring" ELSE "rejected")
    /\ UNCHANGED <<dbVars, localVars, ghostVars>>

\* Only the restore of a merge binds the chunk's id, which makes it idempotent;
\* demote writes the recorded state; a deleted chunk is inserted afresh.
revert_memory_op(r) ==
    LET p == target[r] IN
    /\ pc[r] = "restoring"
    /\ effect' = [effect EXCEPT ![p] = IF Kind[p] = "delete" THEN @ - 1 ELSE 0]
    /\ Goto(r, "restored")
    /\ UNCHANGED <<status, reasoning, intent, hist, localVars, ghostVars>>

\* HistoryRepo::mark_rolled_back stamps every history row of the proposal.
mark_rolled_back(r) ==
    /\ pc[r] = "restored"
    /\ hist' = [a \in Applies |->
                    IF hist[a] # "none" /\ target[a] = target[r]
                    THEN "rolled_back" ELSE hist[a]]
    /\ Goto(r, "marked")
    /\ UNCHANGED <<status, reasoning, effect, intent, localVars, ghostVars>>

\* Mutant: the UPDATE of the rollback does not look at the status.
mark_auto_rolled_back_unguarded(r) ==
    /\ pc[r] = "marked"
    /\ SetStatus(target[r], "rolled_back")
    /\ Goto(r, "done")
    /\ UNCHANGED <<reasoning, effect, intent, hist, localVars, ghostVars>>

mark_auto_rolled_back(r) ==
    /\ pc[r] = "marked"
    /\ \/ /\ status[target[r]] = "applied"
          /\ SetStatus(target[r], "rolled_back")
          /\ Goto(r, "done")
       \/ /\ status[target[r]] # "applied"
          /\ Goto(r, "failed")
          /\ UNCHANGED status
    /\ UNCHANGED <<reasoning, effect, intent, hist, localVars, ghostVars>>

RevertStorageError(r) ==
    /\ pc[r] \in {"restoring", "restored", "marked"}
    /\ Goto(r, "failed")
    /\ UNCHANGED <<dbVars, localVars, ghostVars>>

-----------------------------------------------------------------------------
(* A client that hangs up drops its handler at an await; a runner or a     *)
(* monitor is killed; the gateway goes down with every handler in it.      *)

Abandon(x) ==
    /\ InFlight(x)
    /\ Goto(x, "gone")
    /\ UNCHANGED <<dbVars, localVars, ghostVars>>

\* The applier is built anew and nothing else is done about earlier applies:
\* start-up reports no intent.
GatewayRestart ==
    /\ pc' = [x \in Requests |->
                 IF x \in GatewayRequests /\ InFlight(x) THEN "gone" ELSE pc[x]]
    /\ surfaced' = {}
    /\ UNCHANGED <<dbVars, localVars, wrote, claimed>>

\* Mutant: the query also asks for a history row.
scan_skips_unaudited ==
    /\ surfaced' = {a \in Applies : intent[a] = "open" /\ hist[a] # "none"}
    /\ UNCHANGED <<dbVars, pc, localVars, wrote, claimed>>

\* list_uncommitted, for whoever calls the scan.
scan_half_committed ==
    /\ surfaced' = {a \in Applies : intent[a] = "open"}
    /\ UNCHANGED <<dbVars, pc, localVars, wrote, claimed>>

-----------------------------------------------------------------------------

DecisionStep(d) ==
    \/ \E p \in Proposals, v \in Verbs : BeginDecision(d, p, v)
    \/ AppendReason(d) \/ set_decision(d) \/ DecisionStorageError(d)

ApplyStep(a) ==
    \/ \E p \in Proposals : BeginApply(a, p)
    \/ record_intent(a) \/ ReadTarget(a) \/ WriteTarget(a)
    \/ commit_evolution_tx(a) \/ mark_committed(a) \/ mark_failed(a)

ShadowStep(s) ==
    \/ \E p \in Proposals : list_pending_for_shadow(s, p)
    \/ claim_for_shadow(s) \/ mark_shadow_done(s) \/ ShadowRunError(s)

RevertStep(r) ==
    \/ \E p \in Proposals : list_applied_in_grace_window(r, p)
    \/ BeginRevert(r) \/ revert_memory_op(r) \/ mark_rolled_back(r)
    \/ mark_auto_rolled_back(r) \/ RevertStorageError(r)

Next ==
    \/ \E p \in Proposals : insert(p)
    \/ \E d \in Decisions : DecisionStep(d)
    \/ \E a \in Applies : ApplyStep(a)
    \/ \E s \in ShadowRuns : ShadowStep(s)
    \/ \E r \in Reverts : RevertStep(r)
    \/ \E x \in Requests : Abandon(x)
    \/ GatewayRestart \/ scan_half_committed

Spec == Init /\ [][Next]_vars

-----------------------------------------------------------------------------
(* Properties.                                                             *)

TypeOK ==
    /\ status \in [Proposals -> Statuses]
    /\ reasoning \in [Proposals -> SUBSET Decisions]
    /\ effect \in [Proposals -> Int]
    /\ intent \in [Applies -> {"none", "open", "committed", "failed"}]
    /\ hist \in [Applies -> {"none", "live", "rolled_back"}]
    /\ pc \in [Requests -> Steps]
    /\ target \in [Requests -> Proposals \cup {None}]
    /\ verb \in [Decisions -> Verbs]
    /\ seenReason \in [Decisions -> SUBSET Decisions]
    /\ seenEffect \in [Applies -> Int]
    /\ wrote \subseteq Applies
    /\ claimed \subseteq ShadowRuns
    /\ surfaced \subseteq Applies
    /\ \A x \in Requests : pc[x] # "idle" => target[x] \in Proposals

\* The intent log is a write-ahead log: whatever an apply did to the data is
\* either in the history or under an intent that is not stamped committed, and
\* there is no history row without its intent (EvolutionApplier::apply).
WriteAhead ==
    \A a \in Applies :
        /\ a \in wrote /\ hist[a] = "none" => intent[a] \in {"open", "failed"}
        /\ hist[a] # "none" => a \in wrote /\ intent[a] \in {"open", "committed"}
        /\ intent[a] = "committed" => hist[a] # "none"

\* However many runners are started, one proposal is shadow-tested by at most
\* one of them, ever (claim_for_shadow).
OneRunner == \A s, t \in claimed : target[s] = target[t] => s = t

\* No data is mutated for a proposal that no operator's approve went through
\* for, whatever races with the gate of apply.
NothingUnapproved ==
    \A a \in wrote : \E d \in Decisions :
        target[d] = target[a] /\ verb[d] = "approve" /\ pc[d] = "done"

CommitsOf(p) == {a \in Applies : target[a] = p /\ hist[a] # "none"}
RollbacksOf(p) == {r \in Reverts : target[r] = p /\ pc[r] = "done"}

\* An applied proposal has a history row to revert it from, and a rolled-back
\* one has a row stamped rolled back (commit_evolution_tx, revert); a revert that
\* reports success consumed a commit of its own, so concurrent monitors never
\* both report one apply rolled back (mark_auto_rolled_back).
StatusIsAudited ==
    \A p \in Proposals :
        /\ status[p] = "applied" => Audited(p)
        /\ status[p] = "rolled_back" =>
              \E a \in Applies : target[a] = p /\ hist[a] = "rolled_back"
        /\ Cardinality(RollbacksOf(p)) <= Cardinality(CommitsOf(p))

\* A scan reports every apply that was cut short between the data and the
\* audit, by a dropped handler or a restart (scan_half_committed).
ScanReportsInterrupted ==
    [][scan_half_committed =>
        \A a \in wrote : pc[a] = "gone" /\ hist[a] = "none" => a \in surfaced']_vars

-----------------------------------------------------------------------------
(* What the repository says of this code and the code does not do.         *)

\* A deleted chunk is restored once: the monitor does not fire the same revert
\* twice (EvolutionApplier::revert_memory_op).
RestoredOnce == \A p \in Proposals : effect[p] >= 0

-----------------------------------------------------------------------------
(* What holds besides when no two requests about one proposal overlap: a   *)
(* deployment where operators take turns and the shadow runner and the     *)
(* monitor are scheduled apart.  Requests still fail, are dropped, and are *)
(* cut short by restarts; requests about different proposals may overlap.  *)

OneAtATime ==
    \A x, y \in Requests :
        InFlight(x) /\ InFlight(y) /\ target[x] = target[y] => x = y

OneAtATimeNext == Next /\ OneAtATime'
OneAtATimeSpec == Init /\ [][OneAtATimeNext]_vars

\* The status of every proposal then follows the documented state machine: no
\* 409 is missed by a check that is stale when the write comes.
Documented == INSTANCE ProposalStateMachine WITH state <- status
FollowsStateMachine == Documented!Spec

\* And as long as nothing about a proposal failed or was cut short, its change
\* is in the data exactly while it is applied.
Undisturbed(p) ==
    \A x \in Requests : target[x] = p => ~ InFlight(x) /\ pc[x] \notin {"failed", "gone"}
DataMatchesStatus ==
    \A p \in Proposals :
        Undisturbed(p) => effect[p] = (IF status[p] = "applied" THEN 1 ELSE 0)

\* A proposal is committed at most once.
CommittedOnce ==
    \A a, b \in Applies :
        hist[a] # "none" /\ hist[b] # "none" /\ target[a] = target[b] => a = b

\* Both together: where requests about a proposal take turns, neither a repeated
\* request nor a failure, a dropped handler or a restart changes its data twice.
ChangedOnce == DataMatchesStatus /\ CommittedOnce
=============================================================================
