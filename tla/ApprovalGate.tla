---------------------------- MODULE ApprovalGate ----------------------------
(***************************************************************************)
(* The tool-approval gate (middleware/approval.rs).  A tool call whose     *)
(* rule says "prompt" writes a row to pending_approvals, parks on a        *)
(* oneshot, and is released by an operator's decision, by the prompt       *)
(* timeout, or by its cancellation.                                        *)
(*                                                                         *)
(* A member of Checks is one call of ApprovalGate::check, which gives its  *)
(* row a fresh id, so the check also names the row.  A member of Operators *)
(* is one POST /admin/approvals/:id/decide.  Each SQL statement is atomic; *)
(* the handlers run on a multi-threaded executor, so anything may happen   *)
(* between two statements and between a statement and what follows it.     *)
(* The broadcast to the SSE stream is left out: it mirrors the hook bus.   *)
(***************************************************************************)
EXTENDS Naturals, Sequences

CONSTANTS Checks, Operators, None

ASSUME ActorAssumption == Checks \cap Operators = {} /\ None \notin Checks

Actors == Checks \cup Operators

\* What match_rule_impl finds.  NoMatch, MatchedAuto and MatchedWhitelist all
\* let the call through.
RuleMatches == {"allow", "deny", "prompt"}

Verdicts == {"approved", "denied"}
Outcomes == Verdicts \cup {"timeout", "cancelled"}

\* A cancelled wait is recorded as a timeout.
db_label(o) == IF o = "cancelled" THEN "timeout" ELSE o
Labels == Verdicts \cup {"timeout"}
BusEvents == {"requested"} \cup Labels

Finished == {"idle", "returned", "not_found", "no_op", "error", "done", "gone"}
Steps == Finished \cup
    {"insert", "register", "waiting", "persist", "announce",    \* check
     "update", "wake", "emit"}                                  \* resolve

VARIABLES
    row,        \* pending_approvals: none, undecided, or the decision
    pending,    \* the ids in the gate's map of oneshot senders
    sent,       \* what is in each oneshot channel
    bus,        \* the hook events of each id, in order
    pc,
    rule,       \* what each check's call matched
    outcome,    \* the decision each check is about to return
    result,     \* what each check returned
    target,     \* the id each operator decides
    verdict     \* what each operator asks for

gateVars == <<row, pending, sent, bus>>
checkVars == <<rule, outcome, result>>
operatorVars == <<target, verdict>>
vars == <<gateVars, pc, checkVars, operatorVars>>

Init ==
    /\ row = [c \in Checks |-> "none"]
    /\ pending = {}
    /\ sent = [c \in Checks |-> "none"]
    /\ bus = [c \in Checks |-> <<>>]
    /\ pc = [x \in Actors |-> "idle"]
    /\ rule = [c \in Checks |-> "allow"]
    /\ outcome = [c \in Checks |-> "denied"]
    /\ result = [c \in Checks |-> "none"]
    /\ target = [o \in Operators |-> None]
    /\ verdict = [o \in Operators |-> "denied"]

Goto(x, step) == pc' = [pc EXCEPT ![x] = step]
Return(c, r) == Goto(c, "returned") /\ result' = [result EXCEPT ![c] = r]
Publish(c, events) == bus' = [bus EXCEPT ![c] = @ \o events]

\* Mutant: the UPDATE of a decision does not ask for an undecided row.
decide_approval_overwrites(c, label) ==
    row' \in {row, [row EXCEPT ![c] = IF @ # "none" THEN label ELSE @]}

\* UPDATE ... WHERE id = ? AND decided_at IS NULL.  persist_decision logs an
\* error and goes on.
decide_approval(c, label) ==
    row' \in {row, [row EXCEPT ![c] = IF @ = "undecided" THEN label ELSE @]}

-----------------------------------------------------------------------------
(* check and prompt_wait.                                                  *)

BeginCheck(c, m) ==
    /\ pc[c] = "idle"
    /\ rule' = [rule EXCEPT ![c] = m]
    /\ \/ m = "allow" /\ Return(c, "approved")
       \/ m # "allow" /\ Goto(c, "insert") /\ UNCHANGED result
    /\ UNCHANGED <<gateVars, outcome, operatorVars>>

\* A denied call is logged on best effort; a prompt that cannot be persisted
\* is an error.
insert_pending_approval(c) ==
    /\ pc[c] = "insert"
    /\ \/ /\ row' = [row EXCEPT ![c] = "undecided"]
          /\ Goto(c, IF rule[c] = "deny" THEN "persist" ELSE "register")
          /\ UNCHANGED result
       \/ /\ rule[c] = "deny"
          /\ Goto(c, "persist")
          /\ UNCHANGED <<row, result>>
       \/ /\ rule[c] # "deny"
          /\ Return(c, "error")
          /\ UNCHANGED row
    /\ UNCHANGED <<pending, sent, bus, rule, outcome, operatorVars>>

Register(c) ==
    /\ pc[c] = "register"
    /\ pending' = pending \cup {c}
    /\ Publish(c, <<"requested">>)
    /\ Goto(c, "waiting")
    /\ UNCHANGED <<row, sent, checkVars, operatorVars>>

\* Mutant: an arm of the select leaves the map entry behind.
WakeUp_leaks(c, o) ==
    /\ pc[c] = "waiting"
    /\ outcome' = [outcome EXCEPT ![c] = o]
    /\ Goto(c, "persist")
    /\ UNCHANGED <<gateVars, rule, result, operatorVars>>

\* An arm of the select fires.
WakeUp(c, o) ==
    /\ pc[c] = "waiting"
    /\ outcome' = [outcome EXCEPT ![c] = o]
    /\ pending' = pending \ {c}
    /\ Goto(c, "persist")
    /\ UNCHANGED <<row, sent, bus, rule, result, operatorVars>>

Receive(c) == sent[c] # "none" /\ WakeUp(c, sent[c])

\* Mutant: an expired prompt lets the call through.
Timeout_fails_open(c) == WakeUp(c, "approved")

Timeout(c) == WakeUp(c, "timeout")

Cancel(c) == WakeUp(c, "cancelled")

PersistDecision(c) ==
    /\ pc[c] = "persist"
    /\ decide_approval(c, db_label(outcome[c]))
    /\ Goto(c, "announce")
    /\ UNCHANGED <<pending, sent, bus, checkVars, operatorVars>>

\* The events this check owes the bus: an operator's decision is announced by
\* resolve.
FinalEvents(c) ==
    IF rule[c] = "deny" THEN <<"requested", "denied">>
    ELSE IF outcome[c] \in Verdicts THEN <<>> ELSE <<"timeout">>

Announce(c) ==
    /\ pc[c] = "announce"
    /\ Publish(c, FinalEvents(c))
    /\ Return(c, outcome[c])
    /\ UNCHANGED <<row, pending, sent, rule, outcome, operatorVars>>

-----------------------------------------------------------------------------
(* resolve.                                                                *)

get_pending_approval(o, c, v) ==
    /\ pc[o] = "idle"
    /\ target' = [target EXCEPT ![o] = c]
    /\ verdict' = [verdict EXCEPT ![o] = v]
    /\ \/ Goto(o, CASE row[c] = "none"      -> "not_found"
                    [] row[c] = "undecided" -> "update"
                    [] OTHER                -> "no_op")
       \/ Goto(o, "error")
    /\ UNCHANGED <<gateVars, checkVars>>

ResolveRow(o) ==
    /\ pc[o] = "update"
    /\ decide_approval(target[o], verdict[o])
    /\ Goto(o, "wake")
    /\ UNCHANGED <<pending, sent, bus, checkVars, operatorVars>>

\* The channel keeps the decision until the check looks; if the check has left
\* its select, nobody does.
Wake(o) ==
    /\ pc[o] = "wake"
    /\ \/ /\ target[o] \in pending
          /\ sent' = [sent EXCEPT ![target[o]] = verdict[o]]
       \/ target[o] \notin pending /\ UNCHANGED sent
    /\ pending' = pending \ {target[o]}
    /\ Goto(o, "emit")
    /\ UNCHANGED <<row, bus, checkVars, operatorVars>>

EmitDecided(o) ==
    /\ pc[o] = "emit"
    /\ Publish(target[o], <<verdict[o]>>)
    /\ Goto(o, "done")
    /\ UNCHANGED <<row, pending, sent, checkVars, operatorVars>>

-----------------------------------------------------------------------------

\* A handler is dropped at the await it is in, or just after what it awaited:
\* resolve awaits nothing after its UPDATE.  The map keeps the entry.
Abandon(x) ==
    /\ pc[x] \notin Finished \cup {"emit"}
    /\ Goto(x, "gone")
    /\ UNCHANGED <<gateVars, checkVars, operatorVars>>

GatewayRestart ==
    /\ pc' = [x \in Actors |-> IF pc[x] \in Finished THEN pc[x] ELSE "gone"]
    /\ pending' = {}
    /\ sent' = [c \in Checks |-> "none"]
    /\ UNCHANGED <<row, bus, checkVars, operatorVars>>

CheckStep(c) ==
    \/ \E m \in RuleMatches : BeginCheck(c, m)
    \/ insert_pending_approval(c) \/ Register(c)
    \/ Receive(c) \/ Timeout(c) \/ Cancel(c)
    \/ PersistDecision(c) \/ Announce(c)

ResolveStep(o) ==
    \/ \E c \in Checks, v \in Verdicts : get_pending_approval(o, c, v)
    \/ ResolveRow(o) \/ Wake(o) \/ EmitDecided(o)

Next ==
    \/ \E c \in Checks : CheckStep(c)
    \/ \E o \in Operators : ResolveStep(o)
    \/ \E x \in Actors : Abandon(x)
    \/ GatewayRestart

Spec == Init /\ [][Next]_vars

CheckGoesOn(c) ==
    insert_pending_approval(c) \/ Register(c) \/ Timeout(c) \/ PersistDecision(c) \/ Announce(c)

ResolveGoesOn(o) == ResolveRow(o) \/ Wake(o) \/ EmitDecided(o)

\* The executor polls every ready task and the timer of a prompt fires.  A
\* decision, a cancellation or a new call is never owed.
FairSpec ==
    /\ Spec
    /\ \A c \in Checks : WF_vars(CheckGoesOn(c))
    /\ \A o \in Operators : WF_vars(ResolveGoesOn(o))

-----------------------------------------------------------------------------
(* Properties.                                                             *)

TypeOK ==
    /\ row \in [Checks -> {"none", "undecided"} \cup Labels]
    /\ pending \subseteq Checks
    /\ sent \in [Checks -> {"none"} \cup Verdicts]
    /\ bus \in [Checks -> Seq(BusEvents)]
    /\ pc \in [Actors -> Steps]
    /\ rule \in [Checks -> RuleMatches]
    /\ outcome \in [Checks -> Outcomes]
    /\ result \in [Checks -> {"none", "error"} \cup Outcomes]
    /\ target \in [Operators -> Checks \cup {None}]
    /\ verdict \in [Operators -> Verdicts]

\* The operator found the row undecided and went on to decide it.
Decides(o, c) ==
    /\ target[o] = c
    /\ pc[o] \notin {"idle", "not_found", "no_op", "error", "update"}

\* A gated call runs only if its rule prompts and an operator approved this very
\* call: no timeout, cancellation, storage error, lost wake-up or other
\* operator's approval lets it through (prompt_wait, resolve).
RunsOnlyApproved ==
    \A c \in Checks : result[c] = "approved" =>
        \/ rule[c] = "allow"
        \/ /\ rule[c] = "prompt"
           /\ \E o \in Operators : Decides(o, c) /\ verdict[o] = "approved"

\* The first decision written stays: however the timeout and the operators
\* race, none overwrites what another recorded (decide_approval).
FirstDecisionStays ==
    [][\A c \in Checks : row[c] \in Labels => row'[c] = row[c]]_vars

\* The map holds no sender whose check has ended by itself; only a check that
\* was dropped leaves one behind (prompt_wait).
NoSenderLeaks ==
    \A c \in pending : pc[c] \in {"waiting", "gone"}

\* A prompt ends whatever the operators do, also when a decision came before
\* there was a sender to wake (prompt_wait's timeout).
PromptEnds ==
    \A c \in Checks : pc[c] = "waiting" ~> pc[c] \in Finished

=============================================================================
