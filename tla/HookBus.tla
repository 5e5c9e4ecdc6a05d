------------------------------ MODULE HookBus ------------------------------
(***************************************************************************)
(* The event bus (corlinman-hooks, bus.rs).  Every event is published to   *)
(* three broadcast channels, one per priority, from Critical down to Low.  *)
(* A channel keeps its last Capacity events; a subscriber that falls       *)
(* further behind is told how many it missed.                              *)
(*                                                                         *)
(* A member of Events is one emission, by emit or by emit_nonblocking,     *)
(* each in a task of its own.  A channel is its whole history, of which    *)
(* the last Capacity entries can still be read.  A cancellation between    *)
(* the check and the send of a tier cannot be told from one after the      *)
(* send, so the two are one step.  Spans and metrics are left out.         *)
(***************************************************************************)
EXTENDS Integers, Sequences, FiniteSets

CONSTANTS
    Events, Subs, None,
    MaxEmitting,    \* bound: emissions under way at once
    Priority,       \* the tier of each subscriber
    Capacity        \* what broadcast::channel makes of the capacity of HookBus::new

ASSUME CapacityAssumption == Capacity \in Nat \ {0} /\ None \notin Nat

ordered == <<"critical", "normal", "low">>

Tiers == {"critical", "normal", "low"}

ASSUME PriorityAssumption == Priority \in [Subs -> Tiers]

VARIABLES
    channel,        \* tier -> the events sent to it
    at,             \* where each emission is
    tier,           \* the tiers it has behind it
    waits,          \* whether it is emit, which asks for the cancel token at each tier
    cancelled,
    rx,             \* how much of its channel each subscriber has behind it, or None
    joined,         \* how much that was when it subscribed
    seen,           \* what it received
    lagged          \* how many it was told it missed

busVars == <<channel, at, tier, waits, cancelled>>
subVars == <<rx, joined, seen, lagged>>
hookVars == <<busVars, subVars>>

HookInit ==
    /\ channel = [p \in Tiers |-> <<>>]
    /\ at = [e \in Events |-> "idle"]
    /\ tier = [e \in Events |-> 0]
    /\ waits = [e \in Events |-> FALSE]
    /\ cancelled = FALSE
    /\ rx = [s \in Subs |-> None]
    /\ joined = [s \in Subs |-> 0]
    /\ seen = [s \in Subs |-> <<>>]
    /\ lagged = [s \in Subs |-> 0]

Emit(e, awaits) ==
    /\ at[e] = "idle"
    /\ Cardinality({f \in Events : at[f] = "emitting"}) < MaxEmitting
    /\ at' = [at EXCEPT ![e] = IF cancelled THEN "refused" ELSE "emitting"]
    /\ waits' = [waits EXCEPT ![e] = awaits]
    /\ UNCHANGED <<channel, tier, cancelled, subVars>>

PublishTier(e) ==
    /\ at[e] = "emitting"
    /\ waits[e] => ~ cancelled
    /\ tier' = [tier EXCEPT ![e] = @ + 1]
    /\ channel' = [channel EXCEPT ![ordered[tier'[e]]] = Append(@, e)]
    /\ at' = [at EXCEPT ![e] = IF tier'[e] = Len(ordered) THEN "sent" ELSE "emitting"]
    /\ UNCHANGED <<waits, cancelled, subVars>>

\* The token is set, or the caller is dropped at a yield between two tiers.
StopEmit(e) ==
    /\ at[e] = "emitting" /\ waits[e]
    /\ cancelled \/ tier[e] > 0
    /\ at' = [at EXCEPT ![e] = "cancelled"]
    /\ UNCHANGED <<channel, tier, waits, cancelled, subVars>>

Cancel ==
    /\ ~ cancelled /\ cancelled' = TRUE
    /\ UNCHANGED <<channel, at, tier, waits, subVars>>

Subscribe(s) ==
    /\ rx[s] = None
    /\ rx' = [rx EXCEPT ![s] = Len(channel[Priority[s]])]
    /\ joined' = [joined EXCEPT ![s] = Len(channel[Priority[s]])]
    /\ UNCHANGED <<busVars, seen, lagged>>

Backlog(s) == Len(channel[Priority[s]]) - rx[s]

\* The next event of the tier, if the channel still has it.
Receive(s) ==
    /\ rx[s] # None /\ Backlog(s) \in 1 .. Capacity
    /\ rx' = [rx EXCEPT ![s] = @ + 1]
    /\ seen' = [seen EXCEPT ![s] = Append(@, channel[Priority[s]][rx[s] + 1])]
    /\ UNCHANGED <<busVars, joined, lagged>>

\* Where a subscriber that fell behind goes on: at the oldest event kept.
Resume(s) == Len(channel[Priority[s]]) - Capacity

Lagged(s) ==
    /\ rx[s] # None /\ Backlog(s) > Capacity
    /\ lagged' = [lagged EXCEPT ![s] = @ + Backlog(s) - Capacity]
    /\ rx' = [rx EXCEPT ![s] = Resume(s)]
    /\ UNCHANGED <<busVars, joined, seen>>

EmitStep ==
    \/ Cancel
    \/ \E e \in Events :
        \/ \E awaits \in BOOLEAN : Emit(e, awaits)
        \/ PublishTier(e) \/ StopEmit(e)

HookNext == EmitStep \/ \E s \in Subs : Subscribe(s) \/ Receive(s) \/ Lagged(s)

HookSpec == HookInit /\ [][HookNext]_hookVars

-----------------------------------------------------------------------------
(* Properties.                                                             *)

HookTypeOK ==
    /\ channel \in [Tiers -> Seq(Events)]
    /\ at \in [Events -> {"idle", "emitting", "sent", "refused", "cancelled"}]
    /\ tier \in [Events -> 0 .. 3]
    /\ waits \in [Events -> BOOLEAN]
    /\ cancelled \in BOOLEAN
    /\ rx \in [Subs -> Nat \cup {None}]
    /\ joined \in [Subs -> Nat]
    /\ seen \in [Subs -> Seq(Events)]
    /\ lagged \in [Subs -> Nat]

Published(e, p) == \E i \in DOMAIN channel[p] : channel[p][i] = e

\* However emissions interleave and wherever they are cancelled, an event that
\* reached a tier had reached every tier above it before, and no tier twice.
HigherTiersFirst ==
    \A e \in Events :
        /\ Published(e, "low") => Published(e, "normal")
        /\ Published(e, "normal") => Published(e, "critical")
        /\ \A p \in Tiers : \A i, j \in DOMAIN channel[p] :
               channel[p][i] = e /\ channel[p][j] = e => i = j

\* What a subscriber saw and what it was told it missed is all that its tier was
\* sent while it listened, in the order of the tier.
LossIsReported ==
    \A s \in Subs : rx[s] # None =>
        LET fed == channel[Priority[s]] IN
        /\ joined[s] + Len(seen[s]) + lagged[s] = rx[s]
        /\ \A i, j \in DOMAIN seen[s] : i < j =>
               \E k, l \in DOMAIN fed : k < l /\ fed[k] = seen[s][i] /\ fed[l] = seen[s][j]

=============================================================================
