----------------------------- MODULE TokenBucket -----------------------------
(***************************************************************************)
(* The rate limits of a chat group (corlinman-channels, rate_limit.rs and  *)
(* ChannelRouter::dispatch): one bucket for the group, one for each of its *)
(* senders, a token for each message that passes, and the sweeper that     *)
(* removes idle buckets.  Tokens are counted in parts of 1/Minute, so that *)
(* a bucket gets its per-minute number of parts at every tick; the floats  *)
(* of the code are exact here.                                             *)
(***************************************************************************)
EXTENDS Integers, Sequences, FiniteSetsExt

CONSTANTS
    Senders,
    Group,
    GroupPerMin, SenderPerMin,
    Minute,         \* ticks of a minute
    StaleAfter,     \* GC_STALE_AFTER, in ticks
    MaxTime         \* bound of the clock

Keys == Senders \cup {Group}
PerMin(k) == IF k = Group THEN GroupPerMin ELSE SenderPerMin
PerMinute(k) == PerMin(k) * Minute

VARIABLES
    time,
    state,      \* the map of buckets: parts and time of the last refill of each key in it
    unswept,    \* the map as it were without the sweeper (history)
    taken       \* when each key's tokens were taken (history)

bucketVars == <<time, state, unswept, taken>>

NoBuckets == [k \in {} |-> 0]

Init ==
    /\ time = 0
    /\ state = NoBuckets /\ unswept = NoBuckets
    /\ taken = [k \in Keys |-> <<>>]

\* What the bucket of k holds now; a key that is not in the map starts full.
Refilled(buckets, k) ==
    IF k \in DOMAIN buckets
    THEN Min({buckets[k].tokens + (time - buckets[k].last_refill) * PerMin(k), PerMinute(k)})
    ELSE PerMinute(k)

Allows(buckets, k) == Refilled(buckets, k) >= Minute

\* The map after check has looked at the keys of a set.
Checked(buckets, keys) ==
    [k \in DOMAIN buckets \cup keys |->
        IF k \notin keys THEN buckets[k]
        ELSE [tokens |-> Refilled(buckets, k) - (IF Allows(buckets, k) THEN Minute ELSE 0),
              last_refill |-> time]]

\* The group's limit comes first; a message it drops does not ask for the sender's.
Asked(buckets, s) == IF Allows(buckets, Group) THEN {Group, s} ELSE {Group}

Dispatch(s) ==
    /\ state' = Checked(state, Asked(state, s))
    /\ unswept' = Checked(unswept, Asked(unswept, s))
    /\ taken' = [k \in Keys |->
                    IF k \in Asked(state, s) /\ Allows(state, k) THEN Append(taken[k], time)
                    ELSE taken[k]]
    /\ UNCHANGED time

Stale(k) == state[k].last_refill < time - StaleAfter

SweepStale ==
    /\ \E k \in DOMAIN state : Stale(k)
    /\ state' = [k \in {j \in DOMAIN state : ~Stale(j)} |-> state[k]]
    /\ UNCHANGED <<time, unswept, taken>>

ClockTicks ==
    /\ time < MaxTime
    /\ time' = time + 1
    /\ UNCHANGED <<state, unswept, taken>>

Next == ClockTicks \/ SweepStale \/ \E s \in Senders : Dispatch(s)

Spec == Init /\ [][Next]_bucketVars

-----------------------------------------------------------------------------
TypeOK ==
    /\ time \in 0 .. MaxTime
    /\ DOMAIN state \subseteq Keys
    /\ \A k \in DOMAIN state : state[k].tokens \in 0 .. PerMinute(k) /\ state[k].last_refill \in 0 .. time

\* The sweeper changes no answer: a bucket it removes would be full again
\* (sweep_stale; the module's comment calls it "semantically fine").
SweepIsInvisible == \A k \in Keys : Refilled(state, k) = Refilled(unswept, k)

\* In no stretch of time are there more admissions than the burst and the refill
\* of that time allow, for the group and for each sender (check).
WindowBudget ==
    \A k \in Keys : \A i, j \in DOMAIN taken[k] :
        i <= j => (j - i + 1) * Minute <= PerMinute(k) + (taken[k][j] - taken[k][i]) * PerMin(k)
=============================================================================
