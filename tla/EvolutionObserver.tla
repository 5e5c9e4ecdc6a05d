------------------------- MODULE EvolutionObserver -------------------------
(***************************************************************************)
(* The evolution observer (corlinman-gateway, evolution_observer.rs): a    *)
(* subscriber of the bus's Low tier that turns some events into signals    *)
(* and puts them into a bounded queue, and a writer that takes them out    *)
(* and inserts them into evolution_signals.  On a full queue the           *)
(* subscriber throws out the oldest signal.                                *)
(*                                                                         *)
(* The receiving end of the queue is behind a tokio Mutex, which is        *)
(* granted in the order it was asked for.  The subscriber's task keeps the *)
(* bus alive, so its subscription never closes and neither task ends.      *)
(***************************************************************************)
EXTENDS HookBus

CONSTANTS
    Observer,       \* the subscriber
    Signals,        \* the events that adapt does not drop
    QueueCapacity

ASSUME ObserverAssumption == Observer \in Subs /\ Priority[Observer] = "low"
ASSUME QueueAssumption ==
    QueueCapacity \in Nat \ {0} /\ Signals \subseteq Events /\ None \notin Events

\* A small instance: no subscriber but the observer.
AllLow == [s \in Subs |-> "low"]

VARIABLES
    observer,       \* where the subscriber's task is
    payload,        \* the signal it is about to queue
    queue,
    rxLock,         \* who holds the receiver
    writer,         \* where the writer's task is
    hand,           \* the signal it took
    stored,         \* the rows of evolution_signals
    depth, dropped  \* EVOLUTION_SIGNALS_QUEUE_DEPTH and _DROPPED

queueVars == <<queue, rxLock>>
observerVars == <<observer, payload>>
writerVars == <<writer, hand, stored>>
vars == <<hookVars, queueVars, observerVars, writerVars, depth, dropped>>

Init ==
    /\ HookInit
    /\ observer = "spawned" /\ payload = None
    /\ queue = <<>> /\ rxLock = None
    /\ writer = "locking" /\ hand = None
    /\ stored = <<>>
    /\ depth = 0 /\ dropped = 0

-----------------------------------------------------------------------------
(* The subscriber.                                                         *)

Join ==
    /\ observer = "spawned" /\ observer' = "receiving"
    /\ Subscribe(Observer)
    /\ UNCHANGED <<payload, queueVars, writerVars, depth, dropped>>

\* adapt drops what is not a signal.
Observe ==
    /\ observer = "receiving"
    /\ Receive(Observer)
    /\ LET e == channel["low"][rx[Observer] + 1] IN
       IF e \in Signals THEN observer' = "sending" /\ payload' = e
                       ELSE UNCHANGED observerVars
    /\ UNCHANGED <<queueVars, writerVars, depth, dropped>>

FallBehind ==
    /\ observer = "receiving"
    /\ Lagged(Observer)
    /\ dropped' = dropped + lagged'[Observer] - lagged[Observer]
    /\ UNCHANGED <<queueVars, observerVars, writerVars, depth>>

TrySend ==
    /\ observer = "sending" /\ Len(queue) < QueueCapacity
    /\ queue' = Append(queue, payload)
    /\ observer' = "sent" /\ payload' = None
    /\ UNCHANGED <<hookVars, rxLock, writerVars, depth, dropped>>

CountSent ==
    /\ observer = "sent" /\ observer' = "receiving"
    /\ depth' = depth + 1
    /\ UNCHANGED <<hookVars, payload, queueVars, writerVars, dropped>>

\* Mutant: what does not fit is what goes.
QueueFull_rejects ==
    /\ observer = "sending" /\ Len(queue) = QueueCapacity
    /\ dropped' = dropped + 1
    /\ observer' = "receiving" /\ payload' = None
    /\ UNCHANGED <<hookVars, queueVars, writerVars, depth>>

QueueFull ==
    /\ observer = "sending" /\ Len(queue) = QueueCapacity
    /\ dropped' = dropped + 1
    /\ observer' = "full"
    /\ UNCHANGED <<hookVars, payload, queueVars, writerVars, depth>>

\* rx.lock: the writer may hold it, and then waits for a signal first.
AskForReceiver ==
    /\ observer = "full" /\ rxLock # None
    /\ observer' = "queued"
    /\ UNCHANGED <<hookVars, payload, queueVars, writerVars, depth, dropped>>

\* Mutant: a lost race with the writer is counted off all the same.
EvictOldest_counts ==
    /\ observer \in {"full", "queued"} /\ rxLock = None
    /\ queue' = IF queue = <<>> THEN queue ELSE Tail(queue)
    /\ depth' = depth - 1
    /\ observer' = "sending"
    /\ UNCHANGED <<hookVars, payload, rxLock, writerVars, dropped>>

\* try_recv under the lock; the writer may have been quicker.
EvictOldest ==
    /\ observer \in {"full", "queued"} /\ rxLock = None
    /\ queue' = IF queue = <<>> THEN queue ELSE Tail(queue)
    /\ depth' = IF queue = <<>> THEN depth ELSE depth - 1
    /\ observer' = "sending"
    /\ UNCHANGED <<hookVars, payload, rxLock, writerVars, dropped>>

-----------------------------------------------------------------------------
(* The writer.                                                             *)

\* A subscriber that already waits for the receiver comes first.
LockReceiver ==
    /\ writer = "locking" /\ rxLock = None /\ observer # "queued"
    /\ writer' = "receiving" /\ rxLock' = "writer"
    /\ UNCHANGED <<hookVars, observerVars, queue, hand, stored, depth, dropped>>

TakeOldest ==
    /\ writer = "receiving" /\ queue # <<>>
    /\ hand' = Head(queue) /\ queue' = Tail(queue)
    /\ writer' = "taken" /\ rxLock' = None
    /\ UNCHANGED <<hookVars, observerVars, stored, depth, dropped>>

CountTaken ==
    /\ writer = "taken" /\ writer' = "inserting"
    /\ depth' = depth - 1
    /\ UNCHANGED <<hookVars, observerVars, queueVars, hand, stored, dropped>>

InsertSignal ==
    /\ writer = "inserting" /\ writer' = "locking"
    /\ stored' = Append(stored, hand) /\ hand' = None
    /\ UNCHANGED <<hookVars, observerVars, queueVars, depth, dropped>>

InsertFails ==
    /\ writer = "inserting" /\ writer' = "locking"
    /\ dropped' = dropped + 1 /\ hand' = None
    /\ UNCHANGED <<hookVars, observerVars, queueVars, stored, depth>>

-----------------------------------------------------------------------------

ObserverStep == Join \/ Observe \/ FallBehind \/ TrySend \/ CountSent \/ QueueFull
                \/ AskForReceiver \/ EvictOldest
WriterStep == LockReceiver \/ TakeOldest \/ CountTaken \/ InsertSignal \/ InsertFails

\* Other subscribers read what they are sent and change nothing here.
BusStep ==
    /\ EmitStep
    /\ UNCHANGED <<queueVars, observerVars, writerVars, depth, dropped>>

Next == BusStep \/ ObserverStep \/ WriterStep

Spec == Init /\ [][Next]_vars

FairSpec == Spec /\ WF_vars(ObserverStep) /\ WF_vars(WriterStep)

-----------------------------------------------------------------------------
(* Properties.                                                             *)

TypeOK ==
    /\ HookTypeOK
    /\ observer \in {"spawned", "receiving", "sending", "sent", "full", "queued"}
    /\ payload \in Signals \cup {None}
    /\ queue \in Seq(Signals) /\ Len(queue) <= QueueCapacity
    /\ rxLock \in {None, "writer"}
    /\ writer \in {"locking", "receiving", "taken", "inserting"}
    /\ hand \in Signals \cup {None}
    /\ stored \in Seq(Signals)
    /\ depth \in Int /\ dropped \in Nat

ValuesOf(s) == {s[i] : i \in DOMAIN s}

Received == ValuesOf(seen[Observer]) \cap Signals
Kept == ({payload, hand} \ {None}) \cup ValuesOf(queue) \cup ValuesOf(stored)

\* No signal vanishes uncounted: what a lag, an eviction or a failed insert lost
\* is in EVOLUTION_SIGNALS_DROPPED, which may count an eviction too many but none
\* too few.
LossesAreCounted == dropped >= lagged[Observer] + Cardinality(Received \ Kept)

\* Whatever the subscriber and the writer take out in whichever order, the gauge
\* says how long the queue is as soon as neither is between its step and its count.
DepthIsTheQueue ==
    depth = Len(queue) - (IF observer = "sent" THEN 1 ELSE 0) + (IF writer = "taken" THEN 1 ELSE 0)

\* Signals are stored in the order of the bus, none twice.
StoredInOrder ==
    \A i, j \in DOMAIN stored : i < j =>
        \E k, l \in DOMAIN channel["low"] :
            k < l /\ channel["low"][k] = stored[i] /\ channel["low"][l] = stored[j]

\* What was emitted in tiers arrives in that order, and whatever lag, eviction or a
\* failed insert then lost, counter, gauge and table agree about it.
SignalsAreAccounted ==
    /\ HigherTiersFirst /\ LossIsReported
    /\ LossesAreCounted /\ DepthIsTheQueue /\ StoredInOrder

\* "New events evict the oldest": on a burst the newest signal is the one that
\* stays, and only a failed insert can still lose it (module comment).
NewestSurvives ==
    [][\A i \in DOMAIN seen[Observer] :
        LET e == seen[Observer][i] IN
        /\ e \in Kept /\ e \notin Kept' /\ e \in Signals
        /\ \A j \in DOMAIN seen[Observer] : j > i => seen[Observer][j] \notin Signals
        => writer = "inserting"]_vars

-----------------------------------------------------------------------------
(* What the repository says of this code and the code does not do.         *)

\* "The eviction path takes the receiver lock briefly so the writer task can't
\* race in between": a subscriber that waits for the receiver gets it.
EvictionEnds == observer = "queued" ~> observer = "sending"
=============================================================================
