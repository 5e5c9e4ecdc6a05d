------------------------ MODULE BackgroundTasks_proofs ------------------------
(***************************************************************************)
(* What holds of the event bus and the evolution observer, of the Telegram *)
(* channel, canvas streams and rate limits, for any number of emissions,   *)
(* updates, streams and senders.  Each has an inductive invariant of its   *)
(* own.  StorageTasks_proofs has those of what is stored, and              *)
(* MCPlatform_proofs puts them together.                                   *)
(***************************************************************************)
EXTENDS BackgroundTasks, FiniteSetTheorems, TLAPS

(* Sequences, seen as what they have and in which order.                   *)

Has(s, x) == \E i \in DOMAIN s : s[i] = x
NoRepeats(s) == \A i, j \in DOMAIN s : s[i] = s[j] => i = j

\* a is in the sequence somewhere before b.
Before(s, a, b) == \E k, l \in DOMAIN s : k < l /\ s[k] = a /\ s[l] = b

LEMMA Appended ==
    ASSUME NEW S, NEW s \in Seq(S), NEW e \in S
    PROVE  /\ Append(s, e) \in Seq(S) /\ Len(Append(s, e)) = Len(s) + 1 /\ Len(s) \in Nat
           /\ DOMAIN s = 1 .. Len(s) /\ DOMAIN Append(s, e) = 1 .. Len(s) + 1
           /\ Append(s, e)[Len(s) + 1] = e
           /\ \A i \in DOMAIN s : i \in DOMAIN Append(s, e) /\ Append(s, e)[i] = s[i]
           /\ \A x : Has(Append(s, e), x) <=> Has(s, x) \/ x = e
           /\ NoRepeats(s) /\ ~Has(s, e) => NoRepeats(Append(s, e))
           /\ \A a, b : Before(s, a, b) => Before(Append(s, e), a, b)
           /\ \A a : Has(s, a) => Before(Append(s, e), a, e)
<1> DEFINE t == Append(s, e)
<1>1. /\ t \in Seq(S) /\ Len(t) = Len(s) + 1 /\ Len(s) \in Nat
      /\ DOMAIN s = 1 .. Len(s) /\ DOMAIN t = 1 .. Len(s) + 1
      /\ t[Len(s) + 1] = e /\ \A i \in DOMAIN s : i \in DOMAIN t /\ t[i] = s[i]
  OBVIOUS
<1>2. DOMAIN t = DOMAIN s \cup {Len(s) + 1} /\ Len(s) + 1 \notin DOMAIN s
  BY <1>1
<1>3. \A i \in DOMAIN s : i < Len(s) + 1
  BY <1>1
<1> HIDE DEF t
<1>4. \A x : Has(t, x) <=> Has(s, x) \/ x = e
  BY <1>1, <1>2 DEF Has
<1>5. NoRepeats(s) /\ ~Has(s, e) => NoRepeats(t)
  BY <1>1, <1>2 DEF NoRepeats, Has
<1>6. \A a, b : Before(s, a, b) => Before(t, a, b)
  BY <1>1 DEF Before
<1>7. \A a : Has(s, a) => Before(t, a, e)
  BY <1>1, <1>2, <1>3 DEF Before, Has
<1>8. QED BY <1>1, <1>4, <1>5, <1>6, <1>7 DEF t

LEMMA Taken ==
    ASSUME NEW S, NEW s \in Seq(S), s # <<>>
    PROVE  /\ Tail(s) \in Seq(S) /\ Head(s) \in S /\ Len(Tail(s)) = Len(s) - 1 /\ Len(s) \in Nat
           /\ Len(s) # 0 /\ Head(s) = s[1] /\ 1 \in DOMAIN s
           /\ \A i \in DOMAIN Tail(s) : i + 1 \in DOMAIN s /\ 1 < i + 1 /\ Tail(s)[i] = s[i + 1]
           /\ \A x : Has(s, x) <=> x = Head(s) \/ Has(Tail(s), x)
<1> DEFINE t == Tail(s)
<1>1. /\ t \in Seq(S) /\ Head(s) = s[1] /\ s[1] \in S /\ Len(t) = Len(s) - 1 /\ Len(s) \in Nat
      /\ DOMAIN s = 1 .. Len(s) /\ DOMAIN t = 1 .. Len(s) - 1 /\ Len(s) # 0
      /\ \A i \in DOMAIN t : t[i] = s[i + 1]
  OBVIOUS
<1>2. \A i \in DOMAIN t : i + 1 \in DOMAIN s /\ 1 < i + 1
  BY <1>1
<1>3. \A i \in DOMAIN s : i # 1 => i - 1 \in DOMAIN t /\ t[i - 1] = s[i]
  BY <1>1
<1>4. 1 \in DOMAIN s
  BY <1>1
<1> HIDE DEF t
<1>5. ASSUME NEW x PROVE Has(s, x) <=> x = Head(s) \/ Has(t, x)
  <2>1. Has(s, x) => x = Head(s) \/ Has(t, x)
    BY <1>1, <1>3 DEF Has
  <2>2. Has(t, x) => Has(s, x)
    BY <1>1, <1>2 DEF Has
  <2>3. Has(s, Head(s))
    BY <1>1, <1>4 DEF Has
  <2>4. QED BY <2>1, <2>2, <2>3
<1>6. QED BY <1>1, <1>2, <1>4, <1>5 DEF t

-----------------------------------------------------------------------------
(* The bus.  The tiers behind an emission are the channels it is in, and a *)
(* subscriber has behind it what it saw and what it was told it missed.    *)

Tier(k) == channel[ordered[k]]

TiersInv ==
    /\ \A e \in Events :
         /\ \A k \in 1 .. 3 : Has(Tier(k), e) <=> tier[e] >= k
         /\ at[e] = "emitting" => tier[e] < 3
         /\ at[e] = "idle" => tier[e] = 0
    /\ \A p \in Tiers : NoRepeats(channel[p])

Fed(s) == channel[Priority[s]]

SubInv ==
    \A s \in Subs :
        /\ rx[s] = None => seen[s] = <<>> /\ lagged[s] = 0
        /\ rx[s] # None =>
             /\ rx[s] <= Len(Fed(s))
             /\ joined[s] + Len(seen[s]) + lagged[s] = rx[s]
             /\ \A i \in DOMAIN seen[s] : \E k \in 1 .. rx[s] : Fed(s)[k] = seen[s][i]
             /\ \A i, j \in DOMAIN seen[s] : i < j => Before(Fed(s), seen[s][i], seen[s][j])

BusInv == HookTypeOK /\ TiersInv /\ SubInv

LEMMA TierNames ==
    /\ ordered[1] = "critical" /\ ordered[2] = "normal" /\ ordered[3] = "low" /\ Len(ordered) = 3
    /\ Tiers = {ordered[k] : k \in 1 .. 3}
    /\ \A k, l \in 1 .. 3 : ordered[k] = ordered[l] => k = l
<1>1. 1 .. 3 = {1, 2, 3}
  OBVIOUS
<1>2. QED BY <1>1 DEF ordered, Tiers

LEMMA BusInit == HookInit => BusInv
<1> SUFFICES ASSUME HookInit PROVE BusInv
  OBVIOUS
<1>1. \A p \in Tiers : channel[p] = <<>>
  BY DEF HookInit
<1>2. \A k \in 1 .. 3 : Tier(k) = <<>>
  BY <1>1, TierNames DEF Tier
<1>3. HookTypeOK
  <2>1. channel \in [Tiers -> Seq(Events)] /\ seen \in [Subs -> Seq(Events)]
    BY DEF HookInit
  <2>2. /\ at \in [Events -> {"idle", "emitting", "sent", "refused", "cancelled"}]
        /\ tier \in [Events -> 0 .. 3] /\ waits \in [Events -> BOOLEAN]
        /\ rx \in [Subs -> Nat \cup {None}] /\ joined \in [Subs -> Nat] /\ lagged \in [Subs -> Nat]
    BY DEF HookInit
  <2>3. cancelled \in BOOLEAN
    BY DEF HookInit
  <2>4. QED BY <2>1, <2>2, <2>3 DEF HookTypeOK
<1>4. (\A x : ~Has(<<>>, x)) /\ NoRepeats(<<>>)
  BY DEF Has, NoRepeats
<1>5. TiersInv
  BY <1>1, <1>2, <1>4 DEF TiersInv, HookInit
<1>6. SubInv
  BY DEF SubInv, HookInit
<1>7. QED BY <1>3, <1>5, <1>6 DEF BusInv

\* What changes no channel, no tier and no subscriber, and begins nothing.
LEMMA BusQuiet ==
    ASSUME BusInv, HookTypeOK', UNCHANGED <<channel, tier, subVars>>,
           \A e \in Events : at'[e] = "emitting" => at[e] \in {"idle", "emitting"},
           \A e \in Events : at'[e] = "idle" => at[e] = "idle"
    PROVE  BusInv'
<1>1. TiersInv'
  <2>1. \A e \in Events : at[e] \in {"idle", "emitting"} => tier[e] < 3
    BY DEF BusInv, TiersInv
  <2>2. QED BY <2>1 DEF BusInv, TiersInv, Tier, subVars
<1>2. SubInv'
  BY DEF BusInv, SubInv, subVars, Fed
<1>3. QED BY <1>1, <1>2 DEF BusInv

LEMMA PublishKeeps ==
    ASSUME BusInv, NEW e \in Events, PublishTier(e)
    PROVE  BusInv'
<1>0. /\ channel \in [Tiers -> Seq(Events)] /\ tier \in [Events -> 0 .. 3]
      /\ at \in [Events -> {"idle", "emitting", "sent", "refused", "cancelled"}]
      /\ seen \in [Subs -> Seq(Events)] /\ rx \in [Subs -> Nat \cup {None}]
  BY DEF BusInv, HookTypeOK
<1>1. PICK k \in 1 .. 3 : k = tier[e] + 1
  <2>1. tier[e] \in {0, 1, 2}
    BY <1>0 DEF PublishTier, BusInv, TiersInv
  <2>2. QED BY <2>1
<1>2. /\ tier' = [tier EXCEPT ![e] = k]
      /\ channel' = [channel EXCEPT ![ordered[k]] = Append(@, e)]
      /\ at' = [at EXCEPT ![e] = IF k = 3 THEN "sent" ELSE "emitting"]
      /\ UNCHANGED <<waits, cancelled, rx, joined, seen, lagged>>
  BY <1>0, <1>1, TierNames DEF PublishTier, subVars
<1>3. ordered[k] \in Tiers /\ \A l \in 1 .. 3 : ordered[l] \in Tiers /\ (ordered[l] = ordered[k] => l = k)
  BY TierNames
<1>4. PICK s \in Seq(Events) : s = channel[ordered[k]]
  BY <1>0, <1>3
<1>5. channel'[ordered[k]] = Append(s, e) /\ \A p \in Tiers \ {ordered[k]} : channel'[p] = channel[p]
  BY <1>0, <1>2, <1>3, <1>4
<1>6. ~Has(s, e) /\ NoRepeats(s)
  <2>1. Has(Tier(k), e) <=> tier[e] >= k
    BY DEF BusInv, TiersInv
  <2>2. ~(tier[e] >= k)
    <3>1. tier[e] \in 0 .. 3
      BY <1>0
    <3>2. QED BY <1>1, <3>1
  <2>3. QED BY <1>3, <1>4, <2>1, <2>2 DEF Tier, BusInv, TiersInv
<1>7. /\ Append(s, e) \in Seq(Events) /\ NoRepeats(Append(s, e))
      /\ \A x : Has(Append(s, e), x) <=> Has(s, x) \/ x = e
      /\ \A i \in DOMAIN s : i \in DOMAIN Append(s, e) /\ Append(s, e)[i] = s[i]
      /\ \A a, b : Before(s, a, b) => Before(Append(s, e), a, b)
      /\ Len(Append(s, e)) = Len(s) + 1 /\ Len(s) \in Nat /\ DOMAIN s = 1 .. Len(s)
  BY <1>6, Appended
<1>8. HookTypeOK'
  <2>1. channel' \in [Tiers -> Seq(Events)]
    BY <1>0, <1>2, <1>3, <1>5, <1>7
  <2>2. tier' \in [Events -> 0 .. 3]
    BY <1>0, <1>1, <1>2
  <2>3. at' \in [Events -> {"idle", "emitting", "sent", "refused", "cancelled"}]
    BY <1>0, <1>2
  <2>4. QED BY <1>2, <2>1, <2>2, <2>3 DEF BusInv, HookTypeOK
<1>9. TiersInv'
  <2>1. ASSUME NEW f \in Events, NEW l \in 1 .. 3 PROVE Has(Tier(l), f)' <=> tier'[f] >= l
    <3>0. Has(Tier(l), f) <=> tier[f] >= l
      BY DEF BusInv, TiersInv
    <3>1. CASE l # k
      <4>1. Has(Tier(l), f)' <=> Has(Tier(l), f)
        BY <1>3, <1>5, <3>1 DEF Tier, Has
      <4>2. f = e => (tier[f] >= l <=> k >= l)
        <5>1. PICK n \in 0 .. 3 : n = tier[e]
          BY <1>0
        <5>2. n >= l <=> k >= l
          BY <1>1, <3>1, <5>1
        <5>3. QED BY <5>1, <5>2
      <4>3. f # e => tier'[f] = tier[f]
        BY <1>0, <1>2
      <4>4. f = e => tier'[f] = k
        BY <1>0, <1>2
      <4>5. QED BY <3>0, <4>1, <4>2, <4>3, <4>4
    <3>2. CASE l = k
      <4>1. Has(Tier(l), f)' <=> Has(s, f) \/ f = e
        BY SMTT(30), <1>5, <1>7, <3>2 DEF Tier, Has
      <4>2. Has(s, f) <=> tier[f] >= k
        BY <1>4, <3>0, <3>2 DEF Tier
      <4>3. f # e => tier'[f] = tier[f]
        BY <1>0, <1>2
      <4>4. f = e => tier'[f] = k
        BY <1>0, <1>2
      <4>5. QED BY <3>2, <4>1, <4>2, <4>3, <4>4
    <3>3. QED BY <3>1, <3>2
  <2>2. ASSUME NEW f \in Events
        PROVE  /\ at'[f] = "emitting" => tier'[f] < 3
               /\ at'[f] = "idle" => tier'[f] = 0
    <3>1. CASE f = e
      BY <1>0, <1>1, <1>2, <3>1
    <3>2. CASE f # e
      BY <1>0, <1>2, <3>2 DEF BusInv, TiersInv
    <3>3. QED BY <3>1, <3>2
  <2>3. \A p \in Tiers : NoRepeats(channel'[p])
    BY <1>5, <1>7 DEF BusInv, TiersInv
  <2>4. QED BY <2>1, <2>2, <2>3 DEF TiersInv
<1>10. SubInv'
  <2>1. ASSUME NEW p \in Tiers
        PROVE  /\ Len(channel[p]) <= Len(channel'[p]) /\ Len(channel[p]) \in Nat /\ Len(channel'[p]) \in Nat
               /\ \A i \in 1 .. Len(channel[p]) : channel'[p][i] = channel[p][i]
               /\ \A a, b : Before(channel[p], a, b) => Before(channel'[p], a, b)
    <3>1. CASE p = ordered[k]
      <4>1. channel[p] = s /\ channel'[p] = Append(s, e)
        BY <1>4, <1>5, <3>1
      <4>2. Len(s) + 1 \in Nat /\ Len(s) <= Len(s) + 1
        BY <1>7
      <4>3. QED BY <1>7, <4>1, <4>2
    <3>2. CASE p # ordered[k]
      BY <1>0, <1>5, <3>2
    <3>3. QED BY <3>1, <3>2
  <2>2. ASSUME NEW t \in Subs, rx[t] # None
        PROVE  /\ rx[t] \in Nat /\ rx[t] <= Len(Fed(t)') /\ \A i \in 1 .. rx[t] : Fed(t)'[i] = Fed(t)[i]
               /\ \A a, b : Before(Fed(t), a, b) => Before(Fed(t)', a, b)
    <3>1. Priority[t] \in Tiers
      BY PriorityAssumption
    <3>2. rx[t] \in Nat /\ rx[t] <= Len(Fed(t))
      BY <1>0, <2>2 DEF BusInv, SubInv
    <3>3. PICK p \in Tiers : p = Priority[t]
      BY <3>1
    <3>4. Fed(t) = channel[p] /\ Fed(t)' = channel'[p]
      BY <3>3 DEF Fed
    <3>5. rx[t] <= Len(channel'[p]) /\ \A i \in 1 .. rx[t] : channel'[p][i] = channel[p][i]
      <4>1. /\ Len(channel[p]) \in Nat /\ Len(channel'[p]) \in Nat /\ rx[t] \in Nat
            /\ rx[t] <= Len(channel[p]) /\ Len(channel[p]) <= Len(channel'[p])
        BY <2>1, <3>2, <3>4
      <4>2. \A i \in 1 .. rx[t] : i \in 1 .. Len(channel[p])
        BY <4>1
      <4>3. QED BY <2>1, <4>1, <4>2
    <3>6. \A a, b : Before(channel[p], a, b) => Before(channel'[p], a, b)
      BY <2>1
    <3>7. QED BY <3>2, <3>4, <3>5, <3>6
  <2>3. QED BY <1>2, <2>2 DEF BusInv, SubInv
<1>11. QED BY <1>8, <1>9, <1>10 DEF BusInv

LEMMA EmittersKeep ==
    ASSUME BusInv, EmitStep
    PROVE  BusInv'
<1>0. /\ at \in [Events -> {"idle", "emitting", "sent", "refused", "cancelled"}]
      /\ waits \in [Events -> BOOLEAN]
  BY DEF BusInv, HookTypeOK
<1>1. CASE Cancel
  <2>1. HookTypeOK'
    BY <1>1 DEF BusInv, HookTypeOK, Cancel, subVars
  <2>2. QED BY <1>1, <2>1, BusQuiet DEF Cancel
<1>2. ASSUME NEW e \in Events, NEW awaits \in BOOLEAN, Emit(e, awaits) PROVE BusInv'
  <2>1. /\ at' \in [Events -> {"idle", "emitting", "sent", "refused", "cancelled"}]
        /\ waits' \in [Events -> BOOLEAN]
    BY <1>0, <1>2 DEF Emit
  <2>2. HookTypeOK'
    BY <1>2, <2>1 DEF BusInv, HookTypeOK, Emit, subVars
  <2>3. \A f \in Events : /\ at'[f] = "emitting" => at[f] \in {"idle", "emitting"}
                          /\ at'[f] = "idle" => at[f] = "idle"
    BY <1>0, <1>2 DEF Emit
  <2>4. QED BY <1>2, <2>2, <2>3, BusQuiet DEF Emit
<1>3. ASSUME NEW e \in Events, StopEmit(e) PROVE BusInv'
  <2>1. at' \in [Events -> {"idle", "emitting", "sent", "refused", "cancelled"}]
    BY <1>0, <1>3 DEF StopEmit
  <2>2. HookTypeOK'
    BY <1>3, <2>1 DEF BusInv, HookTypeOK, StopEmit, subVars
  <2>3. \A f \in Events : /\ at'[f] = "emitting" => at[f] \in {"idle", "emitting"}
                          /\ at'[f] = "idle" => at[f] = "idle"
    BY <1>0, <1>3 DEF StopEmit
  <2>4. QED BY <1>3, <2>2, <2>3, BusQuiet DEF StopEmit
<1>4. QED BY <1>1, <1>2, <1>3, PublishKeeps DEF EmitStep

\* What one subscriber does leaves the channels and the other subscribers alone.
LEMMA OneSubscriber ==
    ASSUME BusInv, UNCHANGED busVars, NEW s \in Subs, NEW r \in Nat, NEW j \in Nat,
           NEW n \in Seq(Events), NEW l \in Nat,
           rx' = [rx EXCEPT ![s] = r], joined' = [joined EXCEPT ![s] = j],
           seen' = [seen EXCEPT ![s] = n], lagged' = [lagged EXCEPT ![s] = l],
           r <= Len(Fed(s)), j + Len(n) + l = r,
           \A i \in DOMAIN n : \E k \in 1 .. r : Fed(s)[k] = n[i],
           \A i, m \in DOMAIN n : i < m => Before(Fed(s), n[i], n[m])
    PROVE  BusInv'
<1>0. /\ rx \in [Subs -> Nat \cup {None}] /\ joined \in [Subs -> Nat]
      /\ seen \in [Subs -> Seq(Events)] /\ lagged \in [Subs -> Nat]
  BY DEF BusInv, HookTypeOK
<1>1. /\ rx' \in [Subs -> Nat \cup {None}] /\ joined' \in [Subs -> Nat]
      /\ seen' \in [Subs -> Seq(Events)] /\ lagged' \in [Subs -> Nat]
  BY <1>0
<1>2. HookTypeOK'
  BY <1>1 DEF BusInv, HookTypeOK, busVars
<1>3. TiersInv'
  BY DEF BusInv, TiersInv, Tier, busVars
<1>4. \A t \in Subs : Fed(t)' = Fed(t)
  BY DEF Fed, busVars
<1>5. /\ rx'[s] = r /\ joined'[s] = j /\ seen'[s] = n /\ lagged'[s] = l
      /\ \A t \in Subs \ {s} : /\ rx'[t] = rx[t] /\ joined'[t] = joined[t]
                               /\ seen'[t] = seen[t] /\ lagged'[t] = lagged[t]
  BY <1>0
<1>6. r # None
  BY CapacityAssumption
<1>7. ASSUME NEW t \in Subs
      PROVE  /\ rx'[t] = None => seen'[t] = <<>> /\ lagged'[t] = 0
             /\ rx'[t] # None =>
                  /\ rx'[t] <= Len(Fed(t)) /\ joined'[t] + Len(seen'[t]) + lagged'[t] = rx'[t]
                  /\ \A i \in DOMAIN seen'[t] : \E k \in 1 .. rx'[t] : Fed(t)[k] = seen'[t][i]
                  /\ \A i, m \in DOMAIN seen'[t] : i < m => Before(Fed(t), seen'[t][i], seen'[t][m])
  <2>1. CASE t = s
    <3>1. rx'[t] = r /\ joined'[t] = j /\ seen'[t] = n /\ lagged'[t] = l /\ Fed(t) = Fed(s)
      BY <1>5, <2>1
    <3>2. joined'[t] + Len(seen'[t]) + lagged'[t] = rx'[t]
      BY <3>1
    <3>3. \A i \in DOMAIN seen'[t] : \E k \in 1 .. rx'[t] : Fed(t)[k] = seen'[t][i]
      BY <3>1
    <3>4. \A i, m \in DOMAIN seen'[t] : i < m => Before(Fed(t), seen'[t][i], seen'[t][m])
      BY <3>1
    <3>5. QED BY <1>6, <3>1, <3>2, <3>3, <3>4
  <2>2. CASE t # s
    BY <1>5, <2>2 DEF BusInv, SubInv
  <2>3. QED BY <2>1, <2>2
<1>8. SubInv'
  BY <1>4, <1>7 DEF SubInv
<1>9. QED BY <1>2, <1>3, <1>8 DEF BusInv

LEMMA SubscriberTypes ==
    ASSUME BusInv, NEW s \in Subs
    PROVE  /\ Fed(s) \in Seq(Events) /\ Len(Fed(s)) \in Nat /\ DOMAIN Fed(s) = 1 .. Len(Fed(s))
           /\ joined[s] \in Nat /\ lagged[s] \in Nat /\ seen[s] \in Seq(Events)
           /\ Len(seen[s]) \in Nat
           /\ rx[s] # None => rx[s] \in Nat
<1>1. Priority[s] \in Tiers
  BY PriorityAssumption
<1>2. QED BY <1>1 DEF BusInv, HookTypeOK, Fed

LEMMA SubscribersKeep ==
    ASSUME BusInv, NEW s \in Subs, Subscribe(s) \/ Receive(s) \/ Lagged(s)
    PROVE  BusInv'
<1>0. /\ Fed(s) \in Seq(Events) /\ Len(Fed(s)) \in Nat /\ DOMAIN Fed(s) = 1 .. Len(Fed(s))
      /\ joined[s] \in Nat /\ lagged[s] \in Nat /\ seen[s] \in Seq(Events) /\ Len(seen[s]) \in Nat
      /\ rx[s] # None => rx[s] \in Nat
  BY SubscriberTypes
<1>a. /\ rx \in [Subs -> Nat \cup {None}] /\ joined \in [Subs -> Nat]
      /\ seen \in [Subs -> Seq(Events)] /\ lagged \in [Subs -> Nat]
  BY DEF BusInv, HookTypeOK
<1>b. /\ joined = [joined EXCEPT ![s] = joined[s]] /\ seen = [seen EXCEPT ![s] = seen[s]]
      /\ lagged = [lagged EXCEPT ![s] = lagged[s]]
  BY <1>a
<1>c. rx[s] # None =>
        /\ rx[s] <= Len(Fed(s)) /\ joined[s] + Len(seen[s]) + lagged[s] = rx[s]
        /\ \A i \in DOMAIN seen[s] : \E k \in 1 .. rx[s] : Fed(s)[k] = seen[s][i]
        /\ \A i, m \in DOMAIN seen[s] : i < m => Before(Fed(s), seen[s][i], seen[s][m])
  BY DEF BusInv, SubInv
<1>1. CASE Subscribe(s)
  <2>1. /\ rx[s] = None /\ rx' = [rx EXCEPT ![s] = Len(Fed(s))]
        /\ joined' = [joined EXCEPT ![s] = Len(Fed(s))] /\ UNCHANGED <<seen, lagged>>
        /\ UNCHANGED busVars
    BY <1>1 DEF Subscribe, Fed
  <2>2. seen[s] = <<>> /\ lagged[s] = 0
    BY <2>1 DEF BusInv, SubInv
  <2>3. <<>> \in Seq(Events) /\ DOMAIN <<>> = {} /\ Len(Fed(s)) + Len(<<>>) + 0 = Len(Fed(s))
        /\ Len(Fed(s)) <= Len(Fed(s)) /\ 0 \in Nat
    BY <1>0
  <2>4. QED BY <1>0, <1>b, <2>1, <2>2, <2>3, OneSubscriber
<1>2. CASE Receive(s)
  <2>1. /\ rx[s] \in Nat /\ Len(Fed(s)) - rx[s] >= 1 /\ UNCHANGED busVars
        /\ rx' = [rx EXCEPT ![s] = rx[s] + 1]
        /\ seen' = [seen EXCEPT ![s] = Append(seen[s], Fed(s)[rx[s] + 1])]
        /\ UNCHANGED <<joined, lagged>>
    BY <1>0, <1>2, CapacityAssumption DEF Receive, Backlog, Fed
  <2>2. PICK e : e = Fed(s)[rx[s] + 1]
    OBVIOUS
  <2>3. PICK r \in Nat : r = rx[s] + 1
    BY <2>1
  <2>4. r <= Len(Fed(s)) /\ r \in DOMAIN Fed(s) /\ e \in Events /\ rx[s] < r /\ e = Fed(s)[r]
    <3>1. r <= Len(Fed(s)) /\ r \in 1 .. Len(Fed(s)) /\ rx[s] < r
      BY <1>0, <2>1, <2>3
    <3>2. QED BY <1>0, <2>2, <2>3, <3>1
  <2>5. PICK old \in Seq(Events) : old = seen[s]
    BY <1>0
  <2>6. PICK n \in Seq(Events) : n = Append(old, e)
    BY <2>4, Appended
  <2>7. /\ Len(n) = Len(old) + 1 /\ Len(old) \in Nat /\ DOMAIN old = 1 .. Len(old) /\ DOMAIN n = 1 .. Len(old) + 1
        /\ n[Len(old) + 1] = e /\ \A i \in DOMAIN old : i \in DOMAIN n /\ n[i] = old[i]
    BY <2>4, <2>5, <2>6, Appended
  <2>8. joined[s] + Len(n) + lagged[s] = r
    <3>1. rx[s] # None
      BY <2>1, CapacityAssumption
    <3>2. joined[s] + Len(old) + lagged[s] = rx[s]
      BY <1>c, <2>5, <3>1
    <3>3. /\ joined[s] \in Nat /\ lagged[s] \in Nat /\ Len(old) \in Nat
          /\ Len(n) = Len(old) + 1 /\ r = rx[s] + 1
      BY <1>0, <2>3, <2>7
    <3>4. ASSUME NEW a \in Nat, NEW b \in Nat, NEW c \in Nat
          PROVE  a + (b + 1) + c = (a + b + c) + 1
      OBVIOUS
    <3>5. joined[s] + (Len(old) + 1) + lagged[s] = (joined[s] + Len(old) + lagged[s]) + 1
      BY SMTT(30), <3>3, <3>4
    <3>6. QED BY <3>2, <3>3, <3>5
  <2>9. \A i \in DOMAIN old : \E k \in 1 .. rx[s] : Fed(s)[k] = old[i] /\ k < r /\ k \in DOMAIN Fed(s) /\ k \in 1 .. r
    <3>1. \A k \in 1 .. rx[s] : k < r /\ k \in DOMAIN Fed(s) /\ k \in 1 .. r
      BY <1>0, <2>1, <2>3, <2>4
    <3>2. QED BY <1>c, <2>1, <2>5, <3>1, CapacityAssumption
  <2>10. \A i \in DOMAIN n : i \in DOMAIN old \/ i = Len(old) + 1
    BY <2>7
  <2>11. \A i \in DOMAIN n : \E k \in 1 .. r : Fed(s)[k] = n[i]
    <3>1. r \in 1 .. r
      BY <2>1, <2>3
    <3>2. QED BY <2>4, <2>7, <2>9, <2>10, <3>1
  <2>12. ASSUME NEW i \in DOMAIN n, NEW m \in DOMAIN n, i < m PROVE Before(Fed(s), n[i], n[m])
    <3>1. i \in DOMAIN old
      BY <2>7, <2>12
    <3>2. CASE m \in DOMAIN old
      BY <1>c, <2>1, <2>5, <2>7, <2>12, <3>1, <3>2, CapacityAssumption
    <3>3. CASE m = Len(old) + 1
      BY <2>4, <2>7, <2>9, <3>1, <3>3 DEF Before
    <3>4. QED BY <2>10, <3>2, <3>3
  <2>13. /\ rx' = [rx EXCEPT ![s] = r] /\ seen' = [seen EXCEPT ![s] = n]
         /\ joined' = [joined EXCEPT ![s] = joined[s]] /\ lagged' = [lagged EXCEPT ![s] = lagged[s]]
    BY <1>b, <2>1, <2>2, <2>3, <2>5, <2>6
  <2>14. UNCHANGED busVars /\ joined[s] \in Nat /\ lagged[s] \in Nat /\ r <= Len(Fed(s))
    BY <1>0, <2>1, <2>4
  <2>15. QED BY <2>8, <2>11, <2>12, <2>13, <2>14, OneSubscriber
<1>3. CASE Lagged(s)
  <2>1. /\ rx[s] # None /\ rx[s] \in Nat /\ Len(Fed(s)) - rx[s] > Capacity /\ UNCHANGED busVars
        /\ rx' = [rx EXCEPT ![s] = Len(Fed(s)) - Capacity]
        /\ lagged' = [lagged EXCEPT ![s] = lagged[s] + (Len(Fed(s)) - rx[s]) - Capacity]
        /\ UNCHANGED <<joined, seen>>
    BY <1>0, <1>3 DEF Lagged, Resume, Backlog, Fed
  <2>2. PICK r \in Nat : r = Len(Fed(s)) - Capacity
    <3>1. PICK n \in Nat : n = Len(Fed(s))
      BY <1>0
    <3>2. PICK c \in Nat : c = Capacity
      BY CapacityAssumption
    <3>3. rx[s] \in Nat /\ n - rx[s] > c
      BY <2>1, <3>1, <3>2
    <3>4. n - c \in Nat
      BY <3>1, <3>2, <3>3
    <3>5. QED BY <3>1, <3>2, <3>4
  <2>3. PICK l \in Nat : l = lagged[s] + (Len(Fed(s)) - rx[s]) - Capacity
    <3>1. PICK b \in Nat : b = Len(Fed(s)) - rx[s]
      BY <1>0, <2>1, CapacityAssumption
    <3>2. Capacity \in Nat /\ b > Capacity /\ lagged[s] \in Nat
      BY <1>0, <2>1, <3>1, CapacityAssumption
    <3>3. lagged[s] + b - Capacity \in Nat
      BY <3>1, <3>2
    <3>4. QED BY <3>1, <3>3
  <2>4. r <= Len(Fed(s)) /\ joined[s] + Len(seen[s]) + l = r /\ rx[s] <= r
    <3>1. joined[s] + Len(seen[s]) + lagged[s] = rx[s]
      BY <1>c, <2>1
    <3>2. Capacity \in Nat
      BY CapacityAssumption
    <3>3. r <= Len(Fed(s)) /\ rx[s] <= r
      BY <1>0, <2>1, <2>2, <3>2
    <3>4. joined[s] + Len(seen[s]) + l = r
      <4>1. /\ joined[s] \in Nat /\ lagged[s] \in Nat /\ Len(seen[s]) \in Nat /\ rx[s] \in Nat
            /\ Len(Fed(s)) \in Nat
        BY <1>0, <2>1
      <4>2. joined[s] + Len(seen[s]) + (lagged[s] + (Len(Fed(s)) - rx[s]) - Capacity)
            = (joined[s] + Len(seen[s]) + lagged[s]) + (Len(Fed(s)) - rx[s]) - Capacity
        BY SMTT(30), <3>2, <4>1
      <4>3. rx[s] + (Len(Fed(s)) - rx[s]) - Capacity = Len(Fed(s)) - Capacity
        BY <3>2, <4>1
      <4>4. QED BY <2>2, <2>3, <3>1, <4>2, <4>3
    <3>5. QED BY <3>3, <3>4
  <2>5. \A k \in 1 .. rx[s] : k \in 1 .. r
    BY <2>1, <2>4
  <2>6. \A i \in DOMAIN seen[s] : \E k \in 1 .. r : Fed(s)[k] = seen[s][i]
    BY <1>c, <2>1, <2>5
  <2>7. \A i, m \in DOMAIN seen[s] : i < m => Before(Fed(s), seen[s][i], seen[s][m])
    BY <1>c, <2>1
  <2>8. /\ rx' = [rx EXCEPT ![s] = r] /\ lagged' = [lagged EXCEPT ![s] = l]
        /\ joined' = [joined EXCEPT ![s] = joined[s]] /\ seen' = [seen EXCEPT ![s] = seen[s]]
    BY <1>b, <2>1, <2>2, <2>3
  <2>9. UNCHANGED busVars /\ joined[s] \in Nat /\ seen[s] \in Seq(Events)
    BY <1>0, <2>1
  <2>10. QED BY <2>4, <2>6, <2>7, <2>8, <2>9, OneSubscriber
<1>4. QED BY <1>1, <1>2, <1>3

LEMMA TiersAndLoss ==
    ASSUME BusInv
    PROVE  HigherTiersFirst /\ LossIsReported
<1>1. HigherTiersFirst
  <2>1. \A p \in Tiers : \A e : Published(e, p) <=> Has(channel[p], e)
    BY DEF Published, Has
  <2>2. ASSUME NEW e \in Events
        PROVE  /\ Has(channel["critical"], e) <=> tier[e] >= 1
               /\ Has(channel["normal"], e) <=> tier[e] >= 2
               /\ Has(channel["low"], e) <=> tier[e] >= 3
    BY TierNames DEF BusInv, TiersInv, Tier
  <2>3. \A e \in Events : tier[e] \in 0 .. 3
    BY DEF BusInv, HookTypeOK
  <2>4. \A e \in Events : /\ tier[e] >= 3 => tier[e] >= 2
                          /\ tier[e] >= 2 => tier[e] >= 1
    BY <2>3
  <2>5. \A p \in Tiers : \A i, j \in DOMAIN channel[p] : channel[p][i] = channel[p][j] => i = j
    BY DEF BusInv, TiersInv, NoRepeats
  <2>6. "critical" \in Tiers /\ "normal" \in Tiers /\ "low" \in Tiers
    BY DEF Tiers
  <2>7. QED BY <2>1, <2>2, <2>4, <2>5, <2>6 DEF HigherTiersFirst
<1>2. LossIsReported
  BY DEF BusInv, SubInv, LossIsReported, Fed, Before
<1>3. QED BY <1>1, <1>2

-----------------------------------------------------------------------------
(* The observer.  What it holds stands in the order in which it came: the  *)
(* rows, the signal in the writer's hand, the queue, the signal to queue.  *)

Sn == seen[Observer]

Waits(x) == x = payload /\ x # None
InHand(x) == x = hand /\ x # None
Held(x) == Has(stored, x) \/ InHand(x) \/ Has(queue, x) \/ Waits(x)

InOrder(w, s) == \A i, j \in DOMAIN s : i < j => Before(w, s[i], s[j])

OrderInv ==
    /\ InOrder(Sn, stored) /\ InOrder(Sn, queue)
    /\ \A x \in Signals : Held(x) => Has(Sn, x)
    /\ \A x, y \in Signals :
         \/ Has(stored, x) /\ (InHand(y) \/ Has(queue, y) \/ Waits(y))
         \/ InHand(x) /\ (Has(queue, y) \/ Waits(y))
         \/ Has(queue, x) /\ Waits(y)
         => Before(Sn, x, y)

StageInv ==
    /\ payload # None <=> observer \in {"sending", "full", "queued"}
    /\ hand # None <=> writer \in {"taken", "inserting"}

Lost == Received \ Kept
Owed == IF observer \in {"full", "queued"} THEN 1 ELSE 0

\* An eviction is counted before it is made.
LossInv == IsFiniteSet(Lost) /\ dropped >= lagged[Observer] + Cardinality(Lost) + Owed

PipeTypeOK ==
    /\ observer \in {"spawned", "receiving", "sending", "sent", "full", "queued"}
    /\ writer \in {"locking", "receiving", "taken", "inserting"}
    /\ rxLock \in {None, "writer"}
    /\ payload \in Signals \cup {None} /\ hand \in Signals \cup {None}
    /\ queue \in Seq(Signals) /\ Len(queue) <= QueueCapacity /\ stored \in Seq(Signals)
    /\ depth \in Int /\ dropped \in Nat

PipeInv == PipeTypeOK /\ StageInv /\ OrderInv /\ LossInv /\ DepthIsTheQueue

LEMMA NoneIsNoSignal == None \notin Signals
BY QueueAssumption

LEMMA StillInOrder ==
    ASSUME NEW w, NEW v, NEW s, InOrder(w, s), \A a, b : Before(w, a, b) => Before(v, a, b)
    PROVE  InOrder(v, s)
BY DEF InOrder

LEMMA AppendedInOrder ==
    ASSUME NEW S, NEW s \in Seq(S), NEW e \in S, NEW w, InOrder(w, s),
           \A x \in S : Has(s, x) => Before(w, x, e)
    PROVE  InOrder(w, Append(s, e))
<1> DEFINE t == Append(s, e)
<1>1. /\ Len(s) \in Nat /\ DOMAIN s = 1 .. Len(s) /\ DOMAIN t = 1 .. Len(s) + 1
      /\ t[Len(s) + 1] = e /\ \A i \in DOMAIN s : t[i] = s[i] /\ s[i] \in S
  BY Appended
<1> HIDE DEF t
<1>2. ASSUME NEW i \in DOMAIN t, NEW j \in DOMAIN t, i < j PROVE Before(w, t[i], t[j])
  <2>1. i \in DOMAIN s /\ (j \in DOMAIN s \/ j = Len(s) + 1)
    BY <1>1, <1>2
  <2>2. Has(s, s[i]) /\ s[i] \in S /\ t[i] = s[i]
    BY <1>1, <2>1 DEF Has
  <2>3. CASE j \in DOMAIN s
    BY <1>1, <1>2, <2>1, <2>3 DEF InOrder
  <2>4. CASE j = Len(s) + 1
    BY <1>1, <2>2, <2>4
  <2>5. QED BY <2>1, <2>3, <2>4
<1>3. QED BY <1>2 DEF InOrder, t

LEMMA TakenInOrder ==
    ASSUME NEW S, NEW s \in Seq(S), s # <<>>, NEW w, InOrder(w, s)
    PROVE  InOrder(w, Tail(s)) /\ \A x \in S : Has(Tail(s), x) => Before(w, Head(s), x)
<1> DEFINE t == Tail(s)
<1>1. /\ \A i \in DOMAIN t : i + 1 \in DOMAIN s /\ 1 < i + 1 /\ t[i] = s[i + 1]
      /\ Head(s) = s[1] /\ 1 \in DOMAIN s /\ DOMAIN t = 1 .. Len(s) - 1 /\ Len(s) \in Nat
  BY Taken
<1> HIDE DEF t
<1>2. \A i, j \in DOMAIN t : i < j => i + 1 < j + 1
  BY <1>1
<1>3. InOrder(w, t)
  BY <1>1, <1>2 DEF InOrder
<1>4. \A x \in S : Has(t, x) => Before(w, Head(s), x)
  BY <1>1 DEF InOrder, Has
<1>5. QED BY <1>3, <1>4 DEF t

LEMMA HeldIsKept ==
    /\ \A x : x \in Kept <=> Held(x)
    /\ \A x : x \in Received <=> x \in Signals /\ Has(Sn, x)
BY DEF Kept, Received, ValuesOf, Held, Has, InHand, Waits, Sn

LEMMA HeldIsKeptAfter ==
    /\ \A x : x \in Kept' <=> Held(x)'
    /\ \A x : x \in Received' <=> x \in Signals /\ Has(Sn', x)
BY DEF Kept, Received, ValuesOf, Held, Has, InHand, Waits, Sn

\* What is lost by a step that lets go of one signal, or of none.
LEMMA LossOfOne ==
    ASSUME NEW A, NEW B, NEW x, IsFiniteSet(A), B \subseteq A \cup {x}
    PROVE  /\ IsFiniteSet(B) /\ Cardinality(B) \in Nat /\ Cardinality(A) \in Nat
           /\ Cardinality(B) <= Cardinality(A) + 1
           /\ B \subseteq A => Cardinality(B) <= Cardinality(A)
<1>1. /\ IsFiniteSet(A \cup {x}) /\ Cardinality(A) \in Nat
      /\ Cardinality(A \cup {x}) = Cardinality(A) \/ Cardinality(A \cup {x}) = Cardinality(A) + 1
  BY FS_AddElement, FS_CardinalityType
<1>2. IsFiniteSet(B) /\ Cardinality(B) <= Cardinality(A \cup {x})
  BY <1>1, FS_Subset
<1>3. B \subseteq A => Cardinality(B) <= Cardinality(A)
  BY FS_Subset
<1>4. Cardinality(B) \in Nat
  BY <1>2, FS_CardinalityType
<1>5. QED BY <1>1, <1>2, <1>3, <1>4

LEMMA NothingLost ==
    ASSUME PipeTypeOK, PipeTypeOK', LossInv, BusInv, Received' \subseteq Received \cup Kept',
           \A y \in Signals : Held(y) => Held(y)',
           NEW g \in Nat, lagged'[Observer] = lagged[Observer] + g,
           dropped' + Owed = dropped + Owed' + g
    PROVE  LossInv'
<1>1. Lost' \subseteq Lost
  BY HeldIsKept, HeldIsKeptAfter DEF Lost, Received
<1>2. /\ IsFiniteSet(Lost') /\ Cardinality(Lost') \in Nat /\ Cardinality(Lost) \in Nat
      /\ Cardinality(Lost') <= Cardinality(Lost)
  <2>1. PICK B : B = Lost'
    OBVIOUS
  <2>2. QED BY <1>1, <2>1, LossOfOne DEF LossInv
<1>3. Owed \in 0 .. 1 /\ Owed' \in 0 .. 1 /\ dropped \in Nat /\ dropped' \in Nat /\ lagged[Observer] \in Nat
  BY SubscriberTypes, ObserverAssumption DEF Owed, PipeTypeOK
<1>4. dropped >= lagged[Observer] + Cardinality(Lost) + Owed
  BY DEF LossInv
<1>5. dropped' >= lagged'[Observer] + Cardinality(Lost') + Owed'
  BY <1>2, <1>3, <1>4
<1>6. QED BY <1>2, <1>5 DEF LossInv

LEMMA OneLost ==
    ASSUME PipeTypeOK, PipeTypeOK', LossInv, BusInv, UNCHANGED <<seen, lagged>>, NEW x,
           \A y \in Signals : Held(y) => Held(y)' \/ y = x,
           dropped' + Owed = dropped + Owed' + 1
    PROVE  LossInv'
<1>1. Lost' \subseteq Lost \cup {x}
  BY HeldIsKept, HeldIsKeptAfter DEF Lost, Received
<1>2. /\ IsFiniteSet(Lost') /\ Cardinality(Lost') \in Nat /\ Cardinality(Lost) \in Nat
      /\ Cardinality(Lost') <= Cardinality(Lost) + 1
  <2>1. PICK B : B = Lost'
    OBVIOUS
  <2>2. QED BY <1>1, <2>1, LossOfOne DEF LossInv
<1>3. Owed \in 0 .. 1 /\ Owed' \in 0 .. 1 /\ dropped \in Nat /\ dropped' \in Nat /\ lagged[Observer] \in Nat
  BY SubscriberTypes, ObserverAssumption DEF Owed, PipeTypeOK
<1>4. dropped >= lagged[Observer] + Cardinality(Lost) + Owed
  BY DEF LossInv
<1>5. dropped' >= lagged'[Observer] + Cardinality(Lost') + Owed'
  BY <1>2, <1>3, <1>4
<1>6. QED BY <1>2, <1>5 DEF LossInv

\* A step that moves no signal.
LEMMA SameSignals ==
    ASSUME BusInv, PipeInv, PipeTypeOK', StageInv', DepthIsTheQueue',
           UNCHANGED <<seen, payload, hand, queue, stored>>,
           NEW g \in Nat, lagged'[Observer] = lagged[Observer] + g,
           dropped' + Owed = dropped + Owed' + g
    PROVE  PipeInv'
<1>1. Received' = Received /\ \A y : Held(y)' <=> Held(y)
  BY DEF Received, Held, InHand, Waits
<1>2. LossInv'
  BY <1>1, NothingLost DEF PipeInv
<1>3. OrderInv'
  BY <1>1 DEF PipeInv, OrderInv, Sn, InHand, Waits
<1>4. QED BY <1>2, <1>3 DEF PipeInv

LEMMA BusStepKeeps ==
    ASSUME BusInv, PipeInv, BusStep
    PROVE  BusInv' /\ PipeInv'
<1>1. UNCHANGED subVars /\ EmitStep /\ UNCHANGED <<queueVars, observerVars, writerVars, depth, dropped>>
  BY DEF BusStep, EmitStep, Cancel, Emit, PublishTier, StopEmit
<1>2. PipeTypeOK' /\ StageInv' /\ DepthIsTheQueue'
  BY <1>1 DEF PipeInv, PipeTypeOK, StageInv, DepthIsTheQueue, queueVars, observerVars, writerVars
<1>3. lagged[Observer] \in Nat /\ dropped \in Nat /\ Owed' = Owed /\ Owed \in 0 .. 1
  BY <1>1, SubscriberTypes, ObserverAssumption DEF PipeInv, PipeTypeOK, Owed, observerVars
<1>4. lagged'[Observer] = lagged[Observer] + 0 /\ dropped' + Owed = dropped + Owed' + 0
  BY <1>1, <1>3 DEF subVars
<1>5. PipeInv'
  BY <1>1, <1>2, <1>4, SameSignals DEF queueVars, observerVars, writerVars, subVars
<1>6. QED BY <1>1, <1>5, EmittersKeep

\* The steps of the two tasks that move no signal.
LEMMA QuietStepsKeep ==
    ASSUME BusInv, PipeInv,
           Join \/ FallBehind \/ CountSent \/ QueueFull \/ AskForReceiver \/ LockReceiver \/ CountTaken
    PROVE  BusInv' /\ PipeInv'
<1>0. /\ PipeTypeOK /\ StageInv /\ DepthIsTheQueue
      /\ lagged[Observer] \in Nat /\ dropped \in Nat /\ depth \in Int /\ Len(queue) \in Nat
      /\ Observer \in Subs /\ Owed \in 0 .. 1
  BY SubscriberTypes, ObserverAssumption DEF PipeInv, PipeTypeOK, Owed
<1>1. CASE Join
  <2>1. BusInv'
    BY <1>0, <1>1, SubscribersKeep DEF Join
  <2>2. /\ observer = "spawned" /\ observer' = "receiving"
        /\ UNCHANGED <<seen, lagged, payload, queueVars, writerVars, depth, dropped>>
    BY <1>1 DEF Join, Subscribe
  <2>3. PipeTypeOK' /\ StageInv' /\ DepthIsTheQueue'
    BY <1>0, <2>2 DEF PipeTypeOK, StageInv, DepthIsTheQueue, queueVars, writerVars
  <2>4. lagged'[Observer] = lagged[Observer] + 0 /\ dropped' + Owed = dropped + Owed' + 0
    BY <1>0, <2>2 DEF Owed
  <2>5. PipeInv'
    BY <2>2, <2>3, <2>4, SameSignals DEF queueVars, writerVars
  <2>6. QED BY <2>1, <2>5
<1>2. CASE FallBehind
  <2>1. BusInv'
    BY <1>0, <1>2, SubscribersKeep DEF FallBehind
  <2>2. /\ UNCHANGED <<seen, queueVars, observerVars, writerVars, depth>>
        /\ dropped' = dropped + lagged'[Observer] - lagged[Observer]
    BY <1>2 DEF FallBehind, Lagged
  <2>3. PICK g \in Nat : lagged'[Observer] = lagged[Observer] + g
    <3>1. Priority[Observer] \in Tiers /\ channel \in [Tiers -> Seq(Events)] /\ lagged \in [Subs -> Nat]
      BY <1>0, PriorityAssumption DEF BusInv, HookTypeOK
    <3>2. rx[Observer] # None /\ rx[Observer] \in Nat /\ Len(Fed(Observer)) \in Nat
      BY <1>0, <1>2, SubscriberTypes DEF FallBehind, Lagged
    <3>3. PICK b \in Int : b = Backlog(Observer)
      BY <3>2 DEF Backlog, Fed
    <3>4. Backlog(Observer) > Capacity /\ lagged'[Observer] = lagged[Observer] + Backlog(Observer) - Capacity
      BY <1>0, <1>2, <3>1 DEF FallBehind, Lagged
    <3>5. Capacity \in Nat
      BY CapacityAssumption
    <3>6. b - Capacity \in Nat /\ lagged'[Observer] = lagged[Observer] + (b - Capacity)
      BY <1>0, <3>3, <3>4, <3>5
    <3>7. QED BY <3>6
  <2>4. dropped' = dropped + g
    BY <1>0, <2>2, <2>3
  <2>5. dropped' \in Nat /\ Owed' = Owed
    BY <1>0, <2>2, <2>4 DEF Owed, observerVars
  <2>6. PipeTypeOK' /\ StageInv' /\ DepthIsTheQueue'
    BY <1>0, <2>2, <2>5 DEF PipeTypeOK, StageInv, DepthIsTheQueue, queueVars, observerVars, writerVars
  <2>7. dropped' + Owed = dropped + Owed' + g
    BY <1>0, <2>4, <2>5
  <2>8. PipeInv'
    BY <2>2, <2>3, <2>6, <2>7, SameSignals DEF queueVars, observerVars, writerVars
  <2>9. QED BY <2>1, <2>8
<1>3. ASSUME UNCHANGED hookVars, UNCHANGED <<payload, hand, queue, stored>>,
             PipeTypeOK', StageInv', DepthIsTheQueue', dropped' + Owed = dropped + Owed'
      PROVE  BusInv' /\ PipeInv'
  <2>1. BusInv'
    BY <1>3 DEF hookVars, busVars, subVars, BusInv, HookTypeOK, TiersInv, Tier, SubInv, Fed
  <2>2. Owed' \in 0 .. 1 /\ UNCHANGED <<seen, lagged>>
    BY <1>3 DEF Owed, hookVars, subVars
  <2>3. lagged'[Observer] = lagged[Observer] + 0 /\ dropped' + Owed = dropped + Owed' + 0
    BY <1>0, <1>3, <2>2
  <2>4. PipeInv'
    BY <1>3, <2>2, <2>3, SameSignals
  <2>5. QED BY <2>1, <2>4
<1>4. CASE CountSent
  <2>1. /\ observer = "sent" /\ observer' = "receiving" /\ depth' = depth + 1
        /\ UNCHANGED <<hookVars, payload, queueVars, writerVars, dropped>>
    BY <1>4 DEF CountSent
  <2>2. PipeTypeOK' /\ StageInv' /\ dropped' + Owed = dropped + Owed'
    BY <1>0, <2>1 DEF PipeTypeOK, StageInv, queueVars, writerVars, Owed
  <2>3. DepthIsTheQueue'
    BY <1>0, <2>1 DEF DepthIsTheQueue, queueVars, writerVars
  <2>4. QED BY <1>3, <2>1, <2>2, <2>3 DEF queueVars, writerVars
<1>5. CASE QueueFull
  <2>1. /\ observer = "sending" /\ observer' = "full" /\ dropped' = dropped + 1
        /\ UNCHANGED <<hookVars, payload, queueVars, writerVars, depth>>
    BY <1>5 DEF QueueFull
  <2>2. PipeTypeOK' /\ StageInv' /\ dropped' + Owed = dropped + Owed'
    BY <1>0, <2>1 DEF PipeTypeOK, StageInv, queueVars, writerVars, Owed
  <2>3. DepthIsTheQueue'
    BY <1>0, <2>1 DEF DepthIsTheQueue, queueVars, writerVars
  <2>4. QED BY <1>3, <2>1, <2>2, <2>3 DEF queueVars, writerVars
<1>6. CASE AskForReceiver
  <2>1. /\ observer = "full" /\ observer' = "queued"
        /\ UNCHANGED <<hookVars, payload, queueVars, writerVars, depth, dropped>>
    BY <1>6 DEF AskForReceiver
  <2>2. PipeTypeOK' /\ StageInv' /\ dropped' + Owed = dropped + Owed'
    BY <1>0, <2>1 DEF PipeTypeOK, StageInv, queueVars, writerVars, Owed
  <2>3. DepthIsTheQueue'
    BY <1>0, <2>1 DEF DepthIsTheQueue, queueVars, writerVars
  <2>4. QED BY <1>3, <2>1, <2>2, <2>3 DEF queueVars, writerVars
<1>7. CASE LockReceiver
  <2>1. /\ writer = "locking" /\ writer' = "receiving" /\ rxLock' = "writer"
        /\ UNCHANGED <<hookVars, observerVars, queue, hand, stored, depth, dropped>>
    BY <1>7 DEF LockReceiver
  <2>2. PipeTypeOK' /\ StageInv' /\ dropped' + Owed = dropped + Owed'
    BY <1>0, <2>1 DEF PipeTypeOK, StageInv, observerVars, Owed
  <2>3. DepthIsTheQueue'
    BY <1>0, <2>1 DEF DepthIsTheQueue, observerVars
  <2>4. QED BY <1>3, <2>1, <2>2, <2>3 DEF observerVars
<1>8. CASE CountTaken
  <2>1. /\ writer = "taken" /\ writer' = "inserting" /\ depth' = depth - 1
        /\ UNCHANGED <<hookVars, observerVars, queueVars, hand, stored, dropped>>
    BY <1>8 DEF CountTaken
  <2>2. PipeTypeOK' /\ StageInv' /\ dropped' + Owed = dropped + Owed'
    BY <1>0, <2>1 DEF PipeTypeOK, StageInv, queueVars, observerVars, Owed
  <2>3. DepthIsTheQueue'
    BY <1>0, <2>1 DEF DepthIsTheQueue, queueVars, observerVars
  <2>4. QED BY <1>3, <2>1, <2>2, <2>3 DEF queueVars, observerVars
<1>9. QED BY <1>1, <1>2, <1>4, <1>5, <1>6, <1>7, <1>8

\* What leaves the bus as it is.
LEMMA BusStays ==
    ASSUME BusInv, UNCHANGED hookVars
    PROVE  /\ BusInv' /\ UNCHANGED <<seen, lagged>> /\ Received' = Received
           /\ lagged[Observer] \in Nat /\ lagged'[Observer] = lagged[Observer] + 0
<1>1. BusInv' /\ UNCHANGED <<seen, lagged>> /\ Received' = Received
  BY DEF hookVars, busVars, subVars, BusInv, HookTypeOK, TiersInv, Tier, SubInv, Fed, Received
<1>2. lagged[Observer] \in Nat
  BY SubscriberTypes, ObserverAssumption
<1>3. QED BY <1>1, <1>2

LEMMA ObserveKeeps ==
    ASSUME BusInv, PipeInv, Observe
    PROVE  BusInv' /\ PipeInv'
<1>0. /\ PipeTypeOK /\ StageInv /\ OrderInv /\ LossInv /\ DepthIsTheQueue /\ None \notin Signals
      /\ Observer \in Subs /\ Priority[Observer] = "low" /\ Sn \in Seq(Events)
      /\ lagged[Observer] \in Nat /\ dropped \in Nat /\ seen \in [Subs -> Seq(Events)]
  BY SubscriberTypes, ObserverAssumption, NoneIsNoSignal DEF PipeInv, PipeTypeOK, Sn, BusInv, HookTypeOK
<1>1. BusInv'
  BY <1>0, SubscribersKeep DEF Observe
<1>2. PICK e : e = channel["low"][rx[Observer] + 1]
  OBVIOUS
<1>3. /\ observer = "receiving" /\ seen' = [seen EXCEPT ![Observer] = Append(seen[Observer], e)]
      /\ UNCHANGED <<lagged, queueVars, writerVars, depth, dropped>>
      /\ IF e \in Signals THEN observer' = "sending" /\ payload' = e ELSE UNCHANGED observerVars
  BY <1>0, <1>2 DEF Observe, Receive
<1>4. Sn' = Append(Sn, e)
  BY <1>0, <1>3 DEF Sn
<1>5. e \in Events
  <2>1. Fed(Observer) \in Seq(Events) /\ rx[Observer] \in Nat /\ Len(Fed(Observer)) - rx[Observer] >= 1
        /\ Len(Fed(Observer)) \in Nat /\ DOMAIN Fed(Observer) = 1 .. Len(Fed(Observer))
    BY <1>0, SubscriberTypes, CapacityAssumption DEF Observe, Receive, Backlog, Fed
  <2>2. rx[Observer] + 1 \in DOMAIN Fed(Observer)
    BY <2>1
  <2>3. QED BY <1>0, <1>2, <2>1, <2>2 DEF Fed
<1>6. PICK w \in Seq(Events) : w = Sn
  BY <1>0
<1>7. PICK v : v = Sn'
  OBVIOUS
<1>8. /\ \A x : Has(v, x) <=> Has(w, x) \/ x = e
      /\ \A a, b : Before(w, a, b) => Before(v, a, b)
      /\ \A a : Has(w, a) => Before(v, a, e)
  <2>1. v = Append(w, e)
    BY <1>4, <1>6, <1>7
  <2>2. QED BY <1>5, <2>1, Appended
<1>9. payload = None
  BY <1>0, <1>3 DEF StageInv
<1>10. \A x : /\ Has(stored, x)' <=> Has(stored, x)
              /\ Has(queue, x)' <=> Has(queue, x)
              /\ InHand(x)' <=> InHand(x)
              /\ ~Waits(x)
  BY <1>3, <1>9 DEF queueVars, writerVars, InHand, Waits
<1>11. \A x : Waits(x)' <=> x = e /\ e \in Signals
  BY <1>0, <1>3, <1>9 DEF Waits, observerVars
<1>12. \A x : Held(x)' <=> Held(x) \/ (x = e /\ e \in Signals)
  BY <1>10, <1>11 DEF Held
<1>13. PipeTypeOK' /\ StageInv' /\ DepthIsTheQueue'
  <2>1. CASE e \in Signals
    BY <1>0, <1>3, <2>1 DEF PipeTypeOK, StageInv, DepthIsTheQueue, queueVars, writerVars
  <2>2. CASE e \notin Signals
    BY <1>0, <1>3, <2>2 DEF PipeTypeOK, StageInv, DepthIsTheQueue, queueVars, writerVars, observerVars
  <2>3. QED BY <2>1, <2>2
<1>14. OrderInv'
  <2>1. InOrder(v, stored) /\ InOrder(v, queue)
    BY <1>0, <1>6, <1>8, StillInOrder DEF OrderInv
  <2>2. \A x \in Signals : Held(x) => Has(w, x)
    BY <1>0, <1>6 DEF OrderInv
  <2>3. \A x \in Signals : Held(x)' => Has(v, x)
    BY <1>8, <1>12, <2>2
  <2>4. ASSUME NEW x \in Signals, NEW y \in Signals,
               \/ Has(stored, x)' /\ (InHand(y)' \/ Has(queue, y)' \/ Waits(y)')
               \/ InHand(x)' /\ (Has(queue, y)' \/ Waits(y)')
               \/ Has(queue, x)' /\ Waits(y)'
        PROVE  Before(v, x, y)
    <3>1. CASE y = e /\ Waits(y)'
      <4>1. Held(x)
        BY <1>10, <2>4 DEF Held
      <4>2. QED BY <1>8, <2>2, <3>1, <4>1
    <3>2. CASE ~Waits(y)'
      BY <1>0, <1>6, <1>8, <1>10, <2>4, <3>2 DEF OrderInv
    <3>3. QED BY <1>11, <3>1, <3>2
  <2>5. InOrder(v, stored') /\ InOrder(v, queue')
    BY <1>3, <2>1 DEF queueVars, writerVars
  <2>6. \A x, y \in Signals :
             \/ Has(stored, x)' /\ (InHand(y)' \/ Has(queue, y)' \/ Waits(y)')
             \/ InHand(x)' /\ (Has(queue, y)' \/ Waits(y)')
             \/ Has(queue, x)' /\ Waits(y)'
             => Before(v, x, y)
    BY <2>4
  <2>7. QED BY <1>7, <2>3, <2>5, <2>6 DEF OrderInv
<1>15. LossInv'
  <2>1. Received' \subseteq Received \cup Kept'
    BY <1>6, <1>7, <1>8, <1>12, HeldIsKept, HeldIsKeptAfter
  <2>2. Owed' = Owed /\ Owed \in 0 .. 1
    BY <1>3 DEF Owed, observerVars
  <2>3. lagged'[Observer] = lagged[Observer] + 0 /\ dropped' + Owed = dropped + Owed' + 0
    BY <1>0, <1>3, <2>2
  <2>4. QED BY <1>0, <1>12, <1>13, <2>1, <2>3, NothingLost
<1>16. QED BY <1>1, <1>13, <1>14, <1>15 DEF PipeInv

LEMMA TrySendKeeps ==
    ASSUME BusInv, PipeInv, TrySend
    PROVE  BusInv' /\ PipeInv'
<1>0. /\ PipeTypeOK /\ StageInv /\ OrderInv /\ LossInv /\ DepthIsTheQueue /\ None \notin Signals
      /\ dropped \in Nat /\ depth \in Int /\ QueueCapacity \in Nat
  BY NoneIsNoSignal, QueueAssumption DEF PipeInv, PipeTypeOK
<1>1. /\ observer = "sending" /\ observer' = "sent" /\ payload' = None
      /\ Len(queue) < QueueCapacity /\ queue' = Append(queue, payload)
      /\ UNCHANGED <<hookVars, rxLock, writerVars, depth, dropped>>
  BY DEF TrySend
<1>2. /\ BusInv' /\ UNCHANGED <<seen, lagged>> /\ Received' = Received
      /\ lagged'[Observer] = lagged[Observer] + 0
  BY <1>1, BusStays
<1>3. payload \in Signals /\ queue \in Seq(Signals)
  BY <1>0, <1>1 DEF StageInv, PipeTypeOK
<1>4. /\ queue' \in Seq(Signals) /\ Len(queue') = Len(queue) + 1 /\ Len(queue) \in Nat
      /\ \A x : Has(queue', x) <=> Has(queue, x) \/ x = payload
  BY <1>1, <1>3, Appended
<1>5. PipeTypeOK' /\ StageInv'
  <2>1. Len(queue') <= QueueCapacity
    BY <1>0, <1>1, <1>4
  <2>2. QED BY <1>0, <1>1, <1>4, <2>1 DEF PipeTypeOK, StageInv, writerVars
<1>6. DepthIsTheQueue'
  BY <1>0, <1>1, <1>4 DEF DepthIsTheQueue, writerVars
<1>7. \A x : /\ Has(stored, x)' <=> Has(stored, x)
             /\ InHand(x)' <=> InHand(x)
             /\ Has(queue, x)' <=> Has(queue, x) \/ Waits(x)
             /\ ~Waits(x)'
  BY <1>0, <1>1, <1>3, <1>4 DEF InHand, Waits, writerVars
<1>8. \A x : Held(x)' <=> Held(x)
  BY <1>7 DEF Held
<1>9. OrderInv'
  <2>1. InOrder(Sn, queue')
    <3>1. \A x \in Signals : Has(queue, x) => Before(Sn, x, payload)
      BY <1>0, <1>3 DEF OrderInv, Waits
    <3>2. QED BY <1>0, <1>1, <1>3, <3>1, AppendedInOrder DEF OrderInv
  <2>2. Sn' = Sn /\ stored' = stored
    BY <1>1, <1>2 DEF Sn, writerVars
  <2>3. QED BY <1>0, <1>7, <1>8, <2>1, <2>2 DEF OrderInv
<1>10. LossInv'
  <2>1. Owed' = 0 /\ Owed = 0
    BY <1>1 DEF Owed
  <2>2. dropped' + Owed = dropped + Owed' + 0
    BY <1>0, <1>1, <2>1
  <2>3. QED BY <1>0, <1>2, <1>5, <1>8, <2>2, NothingLost
<1>11. QED BY <1>2, <1>5, <1>6, <1>9, <1>10 DEF PipeInv

LEMMA TakeOldestKeeps ==
    ASSUME BusInv, PipeInv, TakeOldest
    PROVE  BusInv' /\ PipeInv'
<1>0. /\ PipeTypeOK /\ StageInv /\ OrderInv /\ LossInv /\ DepthIsTheQueue /\ None \notin Signals
      /\ dropped \in Nat /\ depth \in Int /\ QueueCapacity \in Nat /\ queue \in Seq(Signals)
  BY NoneIsNoSignal, QueueAssumption DEF PipeInv, PipeTypeOK
<1>1. /\ writer = "receiving" /\ writer' = "taken" /\ rxLock' = None
      /\ queue # <<>> /\ hand' = Head(queue) /\ queue' = Tail(queue)
      /\ UNCHANGED <<hookVars, observerVars, stored, depth, dropped>>
  BY DEF TakeOldest
<1>2. /\ BusInv' /\ UNCHANGED <<seen, lagged>> /\ Received' = Received
      /\ lagged'[Observer] = lagged[Observer] + 0
  BY <1>1, BusStays
<1>3. /\ queue' \in Seq(Signals) /\ hand' \in Signals /\ Len(queue') = Len(queue) - 1 /\ Len(queue) \in Nat
      /\ \A x : Has(queue, x) <=> x = hand' \/ Has(queue', x)
  BY <1>0, <1>1, Taken
<1>4. PipeTypeOK' /\ StageInv'
  <2>1. Len(queue') <= QueueCapacity
    BY <1>0, <1>3 DEF PipeTypeOK
  <2>2. QED BY <1>0, <1>1, <1>3, <2>1 DEF PipeTypeOK, StageInv, observerVars
<1>5. DepthIsTheQueue'
  <2>1. PICK a \in 0 .. 1 : a = IF observer = "sent" THEN 1 ELSE 0
    OBVIOUS
  <2>2. depth = Len(queue) - a
    <3>1. depth = Len(queue) - a + 0
      BY <1>0, <1>1, <2>1 DEF DepthIsTheQueue
    <3>2. QED BY <1>3, <3>1
  <2>3. depth' = Len(queue') - a + 1
    BY <1>1, <1>3, <2>2
  <2>4. QED BY <1>1, <2>1, <2>3 DEF DepthIsTheQueue, observerVars
<1>6. \A x : /\ Has(stored, x)' <=> Has(stored, x)
             /\ Waits(x)' <=> Waits(x)
             /\ ~InHand(x) /\ (InHand(x)' => x = hand')
             /\ Has(queue, x) <=> InHand(x)' \/ Has(queue, x)'
  BY <1>0, <1>1, <1>3 DEF InHand, Waits, StageInv, observerVars
<1>7. \A x : Held(x)' <=> Held(x)
  BY <1>6 DEF Held
<1>8. OrderInv'
  <2>1. InOrder(Sn, queue') /\ \A x \in Signals : Has(queue', x) => Before(Sn, hand', x)
    BY <1>0, <1>1, TakenInOrder DEF OrderInv
  <2>2. Sn' = Sn /\ stored' = stored
    BY <1>1, <1>2 DEF Sn
  <2>3. ASSUME NEW x \in Signals, NEW y \in Signals,
               \/ Has(stored, x)' /\ (InHand(y)' \/ Has(queue, y)' \/ Waits(y)')
               \/ InHand(x)' /\ (Has(queue, y)' \/ Waits(y)')
               \/ Has(queue, x)' /\ Waits(y)'
        PROVE  Before(Sn, x, y)
    <3>1. CASE InHand(x)' /\ Has(queue, y)'
      BY <1>6, <2>1, <3>1
    <3>2. CASE ~(InHand(x)' /\ Has(queue, y)')
      BY <1>0, <1>6, <2>3, <3>2 DEF OrderInv
    <3>3. QED BY <3>1, <3>2
  <2>4. \A x, y \in Signals :
             \/ Has(stored, x)' /\ (InHand(y)' \/ Has(queue, y)' \/ Waits(y)')
             \/ InHand(x)' /\ (Has(queue, y)' \/ Waits(y)')
             \/ Has(queue, x)' /\ Waits(y)'
             => Before(Sn, x, y)
    BY <2>3
  <2>5. QED BY <1>0, <1>7, <2>1, <2>2, <2>4 DEF OrderInv
<1>9. LossInv'
  <2>1. Owed' = Owed /\ Owed \in 0 .. 1
    BY <1>1 DEF Owed, observerVars
  <2>2. dropped' + Owed = dropped + Owed' + 0
    BY <1>0, <1>1, <2>1
  <2>3. QED BY <1>0, <1>2, <1>4, <1>7, <2>2, NothingLost
<1>10. QED BY <1>2, <1>4, <1>5, <1>8, <1>9 DEF PipeInv

LEMMA InsertsKeep ==
    ASSUME BusInv, PipeInv, InsertSignal \/ InsertFails
    PROVE  BusInv' /\ PipeInv'
<1>0. /\ PipeTypeOK /\ StageInv /\ OrderInv /\ LossInv /\ DepthIsTheQueue /\ None \notin Signals
      /\ dropped \in Nat /\ depth \in Int /\ stored \in Seq(Signals) /\ Len(queue) \in Nat
  BY NoneIsNoSignal DEF PipeInv, PipeTypeOK
<1>1. /\ writer = "inserting" /\ writer' = "locking" /\ hand' = None
      /\ UNCHANGED <<hookVars, observerVars, queueVars, depth>>
  BY DEF InsertSignal, InsertFails
<1>2. /\ BusInv' /\ UNCHANGED <<seen, lagged>> /\ Received' = Received
      /\ lagged'[Observer] = lagged[Observer] + 0
  BY <1>1, BusStays
<1>3. hand \in Signals
  BY <1>0, <1>1 DEF StageInv, PipeTypeOK
<1>4. StageInv' /\ DepthIsTheQueue' /\ Sn' = Sn /\ Owed' = Owed /\ Owed \in 0 .. 1
  BY <1>0, <1>1, <1>2 DEF StageInv, DepthIsTheQueue, Sn, Owed, observerVars, queueVars
<1>5. \A x : /\ Has(queue, x)' <=> Has(queue, x)
             /\ Waits(x)' <=> Waits(x)
             /\ ~InHand(x)'
             /\ InHand(x) <=> x = hand
  BY <1>0, <1>1, <1>3 DEF InHand, Waits, observerVars, queueVars
<1>6. CASE InsertSignal
  <2>1. stored' = Append(stored, hand) /\ dropped' = dropped
    BY <1>6 DEF InsertSignal
  <2>2. stored' \in Seq(Signals) /\ \A x : Has(stored', x) <=> Has(stored, x) \/ x = hand
    BY <1>0, <1>3, <2>1, Appended
  <2>3. PipeTypeOK'
    BY <1>0, <1>1, <2>1, <2>2 DEF PipeTypeOK, observerVars, queueVars
  <2>4. \A x : Has(stored, x)' <=> Has(stored, x) \/ InHand(x)
    BY <1>5, <2>2 DEF Has
  <2>5. \A x : Held(x)' <=> Held(x)
    BY <1>5, <2>4 DEF Held
  <2>6. OrderInv'
    <3>1. \A x \in Signals : Has(stored, x) => Before(Sn, x, hand)
      BY <1>0, <1>3, <1>5 DEF OrderInv
    <3>2. InOrder(Sn, stored')
      BY <1>0, <1>3, <2>1, <3>1, AppendedInOrder DEF OrderInv
    <3>3. queue' = queue
      BY <1>1 DEF queueVars
    <3>4. QED BY <1>0, <1>4, <1>5, <2>4, <2>5, <3>2, <3>3 DEF OrderInv
  <2>7. LossInv'
    <3>1. dropped' + Owed = dropped + Owed' + 0
      BY <1>0, <1>4, <2>1
    <3>2. QED BY <1>0, <1>2, <2>3, <2>5, <3>1, NothingLost
  <2>8. QED BY <1>2, <1>4, <2>3, <2>6, <2>7 DEF PipeInv
<1>7. CASE InsertFails
  <2>1. stored' = stored /\ dropped' = dropped + 1
    BY <1>7 DEF InsertFails
  <2>2. PipeTypeOK'
    BY <1>0, <1>1, <2>1 DEF PipeTypeOK, observerVars, queueVars
  <2>3. \A x : (Held(x)' => Held(x)) /\ (Held(x) => Held(x)' \/ x = hand)
    BY <1>5, <2>1 DEF Held
  <2>4. OrderInv'
    <3>1. queue' = queue
      BY <1>1 DEF queueVars
    <3>2. QED BY <1>0, <1>4, <1>5, <2>1, <2>3, <3>1 DEF OrderInv
  <2>5. LossInv'
    <3>1. dropped' + Owed = dropped + Owed' + 1
      BY <1>0, <1>4, <2>1
    <3>2. QED BY <1>0, <1>2, <2>2, <2>3, <3>1, OneLost
  <2>6. QED BY <1>2, <1>4, <2>2, <2>4, <2>5 DEF PipeInv
<1>8. QED BY <1>6, <1>7

LEMMA EvictOldestKeeps ==
    ASSUME BusInv, PipeInv, EvictOldest
    PROVE  BusInv' /\ PipeInv'
<1>0. /\ PipeTypeOK /\ StageInv /\ OrderInv /\ LossInv /\ DepthIsTheQueue
      /\ dropped \in Nat /\ depth \in Int /\ QueueCapacity \in Nat /\ queue \in Seq(Signals)
  BY QueueAssumption DEF PipeInv, PipeTypeOK
<1>1. /\ observer \in {"full", "queued"} /\ observer' = "sending"
      /\ queue' = IF queue = <<>> THEN queue ELSE Tail(queue)
      /\ depth' = IF queue = <<>> THEN depth ELSE depth - 1
      /\ UNCHANGED <<hookVars, payload, rxLock, writerVars, dropped>>
  BY DEF EvictOldest
<1>2. /\ BusInv' /\ UNCHANGED <<seen, lagged>> /\ Received' = Received
      /\ lagged'[Observer] = lagged[Observer] + 0
  BY <1>1, BusStays
<1>3. PICK h : /\ \A x : Has(queue', x) => Has(queue, x)
               /\ \A x : Has(queue, x) => Has(queue', x) \/ x = h
               /\ queue' \in Seq(Signals) /\ InOrder(Sn, queue')
               /\ Len(queue') - Len(queue) = depth' - depth /\ Len(queue') <= QueueCapacity
               /\ Len(queue) \in Nat /\ Len(queue') \in Nat /\ depth' \in Int
  <2>1. CASE queue = <<>>
    BY <1>0, <1>1, <2>1 DEF OrderInv, PipeTypeOK
  <2>2. CASE queue # <<>>
    <3>1. /\ queue' \in Seq(Signals) /\ Len(queue') = Len(queue) - 1 /\ Len(queue) \in Nat
          /\ \A x : Has(queue, x) <=> x = Head(queue) \/ Has(queue', x)
      BY <1>0, <1>1, <2>2, Taken
    <3>2. InOrder(Sn, queue')
      BY <1>0, <1>1, <2>2, TakenInOrder DEF OrderInv
    <3>3. Len(queue') - Len(queue) = depth' - depth /\ Len(queue') <= QueueCapacity /\ depth' \in Int
      BY <1>0, <1>1, <2>2, <3>1 DEF PipeTypeOK
    <3>4. Len(queue') \in Nat
      BY <3>1
    <3>5. QED BY <3>1, <3>2, <3>3, <3>4
  <2>3. QED BY <2>1, <2>2
<1>4. PipeTypeOK' /\ StageInv'
  BY <1>0, <1>1, <1>3 DEF PipeTypeOK, StageInv, writerVars
<1>5. DepthIsTheQueue'
  <2>1. PICK w \in 0 .. 1 : w = IF writer = "taken" THEN 1 ELSE 0
    OBVIOUS
  <2>2. depth = Len(queue) + w
    <3>1. depth = Len(queue) - 0 + w
      BY <1>0, <1>1, <2>1 DEF DepthIsTheQueue
    <3>2. QED BY <1>3, <3>1
  <2>3. depth' = Len(queue') + w
    BY <1>0, <1>3, <2>2
  <2>4. observer' = "sending" /\ writer' = writer
    BY <1>1 DEF writerVars
  <2>5. QED BY <1>3, <2>1, <2>3, <2>4 DEF DepthIsTheQueue
<1>6. \A x : /\ Has(stored, x)' <=> Has(stored, x)
             /\ InHand(x)' <=> InHand(x)
             /\ Waits(x)' <=> Waits(x)
             /\ Has(queue, x)' => Has(queue, x)
             /\ Has(queue, x) => Has(queue, x)' \/ x = h
  BY <1>1, <1>3 DEF InHand, Waits, writerVars, Has
<1>7. \A x : (Held(x)' => Held(x)) /\ (Held(x) => Held(x)' \/ x = h)
  BY <1>6 DEF Held
<1>8. OrderInv'
  <2>1. Sn' = Sn /\ stored' = stored
    BY <1>1, <1>2 DEF Sn, writerVars
  <2>2. QED BY <1>0, <1>3, <1>6, <1>7, <2>1 DEF OrderInv
<1>9. LossInv'
  <2>1. Owed = 1 /\ Owed' = 0
    BY <1>1 DEF Owed
  <2>2. dropped' + Owed = dropped + Owed' + 1
    BY <1>0, <1>1, <2>1
  <2>3. QED BY <1>0, <1>2, <1>4, <1>7, <2>2, OneLost
<1>10. QED BY <1>2, <1>4, <1>5, <1>8, <1>9 DEF PipeInv

-----------------------------------------------------------------------------
(* Theorems.                                                               *)

Inv == BusInv /\ PipeInv

LEMMA InitHolds == Init => Inv
<1> SUFFICES ASSUME Init PROVE Inv
  OBVIOUS
<1>1. BusInv
  BY BusInit DEF Init
<1>2. /\ observer = "spawned" /\ payload = None /\ queue = <<>> /\ rxLock = None
      /\ writer = "locking" /\ hand = None /\ stored = <<>> /\ depth = 0 /\ dropped = 0
      /\ Sn = <<>> /\ lagged[Observer] = 0
  BY ObserverAssumption DEF Init, HookInit, Sn
<1>3. PipeTypeOK /\ StageInv /\ DepthIsTheQueue
  <2>1. QueueCapacity \in Nat /\ Len(<<>>) = 0 /\ <<>> \in Seq(Signals)
    BY QueueAssumption
  <2>2. QED BY <1>2, <2>1 DEF PipeTypeOK, StageInv, DepthIsTheQueue
<1>4. \A x : ~Has(<<>>, x) /\ ~Held(x)
  BY <1>2 DEF Has, Held, InHand, Waits
<1>5. OrderInv
  BY <1>2, <1>4 DEF OrderInv, InOrder, InHand, Waits
<1>6. LossInv
  <2>1. Lost = {}
    BY <1>2, <1>4, HeldIsKept DEF Lost, Received
  <2>2. IsFiniteSet(Lost) /\ Cardinality(Lost) = 0
    BY <2>1, FS_EmptySet
  <2>3. QED BY <1>2, <2>2 DEF LossInv, Owed
<1>7. QED BY <1>1, <1>3, <1>5, <1>6 DEF Inv, PipeInv

LEMMA StepHolds == Inv /\ [Next]_vars => Inv'
<1> SUFFICES ASSUME Inv, [Next]_vars PROVE Inv'
  OBVIOUS
<1>0. BusInv /\ PipeInv
  BY DEF Inv
<1>1. CASE BusStep
  BY <1>0, <1>1, BusStepKeeps DEF Inv
<1>2. CASE ObserverStep
  BY <1>0, <1>2, QuietStepsKeep, ObserveKeeps, TrySendKeeps, EvictOldestKeeps DEF ObserverStep, Inv
<1>3. CASE WriterStep
  BY <1>0, <1>3, QuietStepsKeep, TakeOldestKeeps, InsertsKeep DEF WriterStep, Inv
<1>4. CASE UNCHANGED vars
  <2>1. UNCHANGED <<hookVars, observer, payload, queue, rxLock, writer, hand, stored, depth, dropped>>
    BY <1>4 DEF vars, queueVars, observerVars, writerVars
  <2>2. BusInv' /\ Received' = Received /\ UNCHANGED <<seen, lagged>>
    BY <1>0, <2>1, BusStays
  <2>3. PipeInv'
    BY <1>0, <2>1, <2>2 DEF PipeInv, PipeTypeOK, StageInv, DepthIsTheQueue, OrderInv, LossInv,
       Sn, Held, InHand, Waits, Lost, Kept, Owed
  <2>4. QED BY <2>2, <2>3 DEF Inv
<1>5. QED BY <1>1, <1>2, <1>3, <1>4 DEF Next

THEOREM Invariance == Spec => []Inv
<1>1. QED BY InitHolds, StepHolds, PTL DEF Spec

\* Every variable of the bus and of the observer has its type.
THEOREM TypeCorrect == Spec => []TypeOK
<1>1. Inv => TypeOK
  BY DEF Inv, BusInv, PipeInv, PipeTypeOK, TypeOK
<1>2. QED BY <1>1, Invariance, PTL

LEMMA NoneSeenTwice == BusInv => NoRepeats(Sn)
<1> SUFFICES ASSUME BusInv PROVE NoRepeats(Sn)
  OBVIOUS
<1>1. Observer \in Subs /\ Priority[Observer] = "low" /\ "low" \in Tiers
  BY ObserverAssumption DEF Tiers
<1>2. Fed(Observer) \in Seq(Events) /\ Sn \in Seq(Events) /\ NoRepeats(Fed(Observer))
      /\ DOMAIN Fed(Observer) = 1 .. Len(Fed(Observer)) /\ DOMAIN Sn = 1 .. Len(Sn)
      /\ Len(Fed(Observer)) \in Nat /\ Len(Sn) \in Nat
  BY <1>1, SubscriberTypes DEF Fed, Sn, BusInv, TiersInv
<1>3. \A a : ~Before(Fed(Observer), a, a)
  BY <1>2 DEF Before, NoRepeats
<1>4. \A i, j \in DOMAIN Sn : i < j => Before(Fed(Observer), Sn[i], Sn[j])
  BY <1>1, <1>2 DEF BusInv, SubInv, Sn
<1>5. \A i, j \in DOMAIN Sn : i = j \/ i < j \/ j < i
  BY <1>2
<1>6. QED BY <1>3, <1>4, <1>5 DEF NoRepeats

\* Whatever emissions, lags, evictions and failed inserts there were: tiers are in
\* order, what a subscriber missed was told to it, the counter of lost signals
\* misses none, the gauge is the length of the queue, and the rows are in order.
THEOREM SignalsStayAccounted == Spec => []SignalsAreAccounted
<1>1. ASSUME Inv PROVE SignalsAreAccounted
  <2>1. HigherTiersFirst /\ LossIsReported /\ DepthIsTheQueue
    BY <1>1, TiersAndLoss DEF Inv, PipeInv
  <2>2. LossesAreCounted
    <3>1. IsFiniteSet(Lost) /\ dropped >= lagged[Observer] + Cardinality(Lost) + Owed
      BY <1>1 DEF Inv, PipeInv, LossInv
    <3>2. Cardinality(Lost) \in Nat /\ Owed \in 0 .. 1 /\ dropped \in Nat /\ lagged[Observer] \in Nat
      BY <1>1, <3>1, FS_CardinalityType, SubscriberTypes, ObserverAssumption
         DEF Inv, PipeInv, PipeTypeOK, Owed
    <3>3. dropped >= lagged[Observer] + Cardinality(Lost)
      BY <3>1, <3>2
    <3>4. QED BY <3>3 DEF LossesAreCounted, Lost
  <2>3. StoredInOrder
    <3>1. /\ InOrder(Sn, stored) /\ Observer \in Subs /\ Fed(Observer) = channel["low"]
          /\ \A i, j \in DOMAIN Sn : i < j => Before(channel["low"], Sn[i], Sn[j])
      BY <1>1, ObserverAssumption DEF Inv, PipeInv, OrderInv, Fed, BusInv, SubInv, Sn
    <3>2. \A i, j \in DOMAIN stored : i < j => Before(channel["low"], stored[i], stored[j])
      BY <3>1 DEF InOrder, Before
    <3>3. QED BY <3>2 DEF StoredInOrder, Before
  <2>4. QED BY <2>1, <2>2, <2>3 DEF SignalsAreAccounted
<1>2. QED BY <1>1, Invariance, PTL

\* An eviction takes what came before the signal to queue, so the newest signal is
\* lost by a failed insert or not at all.
THEOREM NewestIsKept == Spec => NewestSurvives
<1>1. ASSUME Inv, [Next]_vars, NEW i \in DOMAIN Sn, Sn[i] \in Kept, Sn[i] \notin Kept', Sn[i] \in Signals,
             \A j \in DOMAIN Sn : j > i => Sn[j] \notin Signals
      PROVE  writer = "inserting"
  <2>0. /\ PipeTypeOK /\ StageInv /\ OrderInv /\ None \notin Signals /\ queue \in Seq(Signals)
    BY <1>1, NoneIsNoSignal DEF Inv, PipeInv, PipeTypeOK
  <2>1. PICK e \in Signals : e = Sn[i]
    BY <1>1
  <2>2. Held(e) /\ ~Held(e)'
    BY <1>1, <2>1, HeldIsKept, HeldIsKeptAfter
  <2>3. SUFFICES ASSUME writer # "inserting" PROVE FALSE
    OBVIOUS
  <2>4. CASE EvictOldest
    <3>1. /\ observer \in {"full", "queued"} /\ queue' = IF queue = <<>> THEN queue ELSE Tail(queue)
          /\ UNCHANGED <<payload, writerVars>>
      BY <2>4 DEF EvictOldest
    <3>2. payload \in Signals
      BY <2>0, <3>1 DEF StageInv, PipeTypeOK
    <3>3. Has(queue, e)
      BY <2>2, <3>1 DEF Held, InHand, Waits, writerVars, Has
    <3>4. Before(Sn, e, payload)
      BY <2>0, <3>2, <3>3 DEF OrderInv, Waits
    <3>5. PICK k, l \in DOMAIN Sn : k < l /\ Sn[k] = e /\ Sn[l] = payload
      BY <3>4 DEF Before
    <3>6. k = i
      BY <1>1, <2>1, <3>5, NoneSeenTwice DEF NoRepeats, Inv
    <3>7. DOMAIN Sn = 1 .. Len(Sn) /\ Len(Sn) \in Nat
      BY <1>1, SubscriberTypes, ObserverAssumption DEF Sn, Inv
    <3>8. l > i
      BY <3>5, <3>6, <3>7
    <3>9. QED BY <1>1, <3>2, <3>5, <3>8
  <2>5. CASE TrySend
    <3>1. queue' = Append(queue, payload) /\ UNCHANGED writerVars /\ payload \in Signals
      BY <2>0, <2>5 DEF TrySend, StageInv, PipeTypeOK
    <3>2. \A x : Has(queue', x) <=> Has(queue, x) \/ x = payload
      BY <2>0, <3>1, Appended
    <3>3. QED BY <2>2, <3>1, <3>2 DEF Held, InHand, Waits, writerVars, Has
  <2>6. CASE TakeOldest
    <3>1. queue # <<>> /\ hand' = Head(queue) /\ queue' = Tail(queue) /\ UNCHANGED <<observerVars, stored>>
          /\ hand = None
      BY <2>0, <2>6 DEF TakeOldest, StageInv
    <3>2. \A x : Has(queue, x) <=> x = hand' \/ Has(queue', x)
      BY <2>0, <3>1, Taken
    <3>3. QED BY <2>0, <2>2, <3>1, <3>2 DEF Held, InHand, Waits, observerVars, Has
  <2>7. CASE Observe
    <3>1. payload = None /\ UNCHANGED <<queueVars, writerVars>>
      BY <2>0, <2>7 DEF Observe, StageInv
    <3>2. QED BY <2>2, <3>1 DEF Held, InHand, Waits, queueVars, writerVars
  <2>8. CASE InsertSignal \/ InsertFails
    BY <2>3, <2>8 DEF InsertSignal, InsertFails
  <2>9. CASE UNCHANGED <<payload, hand, queue, stored>>
    BY <2>2, <2>9 DEF Held, InHand, Waits
  <2>10. QED
    BY <1>1, <2>4, <2>5, <2>6, <2>7, <2>8, <2>9
       DEF Next, BusStep, ObserverStep, WriterStep, Join, FallBehind, CountSent, QueueFull,
           AskForReceiver, LockReceiver, CountTaken, vars, queueVars, observerVars, writerVars
<1>2. Inv /\ [Next]_vars =>
        [\A i \in DOMAIN seen[Observer] :
            LET e == seen[Observer][i] IN
            /\ e \in Kept /\ e \notin Kept' /\ e \in Signals
            /\ \A j \in DOMAIN seen[Observer] : j > i => seen[Observer][j] \notin Signals
            => writer = "inserting"]_vars
  BY <1>1 DEF Sn
<1>3. QED BY <1>2, Invariance, PTL DEF Spec, NewestSurvives

-----------------------------------------------------------------------------
(* The Telegram channel.  What the poller, the handlers, the reply queue and *)
(* the sender hold is apart, and an update is in one of them from when it is *)
(* taken to when it is sent or lost.                                       *)

LEMMA TakenApart ==
    ASSUME NEW S, NEW s \in Seq(S), s # <<>>, NoRepeats(s)
    PROVE  NoRepeats(Tail(s)) /\ ~Has(Tail(s), Head(s))
BY Taken DEF NoRepeats, Has

-----------------------------------------------------------------------------
Upd == 1 .. MaxUpdates

\* The updates of a sequence are those from b on, and all below b were taken.
From(s, b) == s \in Seq(Upd) /\ \A i \in DOMAIN s : s[i] = b + i - 1
Seen(t, b) == \A w \in Upd : w < b => t[w].ever > 0

TelegramTypes ==
    /\ latest \in 0 .. MaxUpdates /\ confirmed \in 1 .. MaxUpdates + 1
    /\ life \in 1 .. MaxLives /\ stopping \in BOOLEAN
    /\ poller \in {"starting", "asking", "polling", "batch", "backoff", "joining", "ended"}
    /\ offset \in 0 .. MaxUpdates + 1
    /\ handler \in [Upd -> {"none", "running", "replying", "done"}]
    /\ replies \in Seq(Upd) /\ Len(replies) <= ReplyRoom
    /\ sender \in {"none", "waiting", "sending", "ended"}
    /\ outgoing \in Upd \cup {None}
    /\ gone \subseteq Upd
    /\ takes \in [Upd -> [now : Nat, ever : Nat]] /\ sends \in [Upd -> Nat]

PollInv ==
    /\ Seen(takes, confirmed) /\ Seen(takes, offset)
    /\ response # None => From(response, confirmed) /\ offset <= confirmed /\ poller = "polling"
    /\ poller = "batch" => \E b \in 1 .. MaxUpdates + 1 :
                               offset <= b /\ From(batch, b) /\ Seen(takes, b)
    /\ \A u \in Upd : takes[u].now > 0 => u < offset

InHands(u) == handler[u] \in {"running", "replying"}
Flies(u) == InHands(u) \/ Has(replies, u) \/ outgoing = u

\* An update has one place at most, and what it has at a place it was taken for and not
\* sent for.
Carried(u) ==
    /\ takes[u].now <= 1 /\ sends[u] <= takes[u].ever
    /\ InHands(u) => ~Has(replies, u) /\ outgoing # u
    /\ Has(replies, u) => outgoing # u
    /\ Flies(u) => takes[u].now = 1 /\ sends[u] < takes[u].ever
    /\ u \in Dispatched /\ takes[u].ever > 0 => sends[u] > 0 \/ Flies(u) \/ u \in gone

ReplyInv ==
    /\ NoRepeats(replies)
    /\ outgoing # None <=> sender = "sending"
    /\ poller = "starting" => sender = "none"
    /\ \A u \in Upd : Carried(u)

TelegramInv == TelegramTypes /\ PollInv /\ ReplyInv

LEMMA TelegramStarts ==
    ASSUME Telegram!Init
    PROVE  TelegramInv
<1>1. /\ latest = 0 /\ confirmed = 1 /\ response = None
      /\ life = 1 /\ stopping = FALSE
      /\ poller = "starting" /\ offset = 0 /\ batch = <<>>
      /\ handler = [u \in Upd |-> "none"]
      /\ replies = <<>> /\ sender = "none" /\ outgoing = None
      /\ takes = [u \in Upd |-> [now |-> 0, ever |-> 0]]
      /\ sends = [u \in Upd |-> 0]
      /\ gone = {}
  BY DEF Telegram!Init, Telegram!Updates, Upd
<1>2. TelegramTypes
  <2>1. <<>> \in Seq(Upd) /\ Len(<<>>) = 0 /\ 0 \in Nat /\ 1 \in 1 .. MaxUpdates + 1
        /\ 0 \in 0 .. MaxUpdates /\ 0 \in 0 .. MaxUpdates + 1 /\ 1 \in 1 .. MaxLives /\ 0 <= ReplyRoom
    BY TelegramAssumption
  <2>2. handler \in [Upd -> {"none", "running", "replying", "done"}] /\ sends \in [Upd -> Nat]
    BY <1>1, <2>1
  <2>3. takes \in [Upd -> [now : Nat, ever : Nat]]
    BY <1>1, <2>1
  <2>4. QED BY <1>1, <2>1, <2>2, <2>3 DEF TelegramTypes
<1>3. PollInv
  BY <1>1 DEF PollInv, Seen, Upd
<1>4. ~(\E u \in Upd : Has(replies, u)) /\ NoRepeats(replies)
  BY <1>1 DEF Has, NoRepeats
<1>5. \A u \in Upd : handler[u] = "none" /\ outgoing # u /\ takes[u].now = 0 /\ takes[u].ever = 0
                     /\ sends[u] = 0
  BY <1>1, TelegramAssumption DEF Upd
<1>6. \A u \in Upd : Carried(u)
  BY <1>4, <1>5 DEF Carried, InHands, Flies
<1>7. QED BY <1>1, <1>2, <1>3, <1>4, <1>6 DEF TelegramInv, ReplyInv

\* What leaves the replies alone keeps what is known of them.
LEMMA RepliesStay ==
    ASSUME TelegramInv, UNCHANGED <<handler, replies, outgoing, takes, sends, gone>>,
           \/ sender' = sender
           \/ outgoing = None /\ sender' # "sending",
           poller' = "starting" => poller = "starting" /\ sender' = sender
    PROVE  ReplyInv'
<1>1. \A u \in Upd : Carried(u)' <=> Carried(u)
  BY DEF Carried, InHands, Flies
<1>2. QED BY <1>1 DEF TelegramInv, ReplyInv

LEMMA PollsStay ==
    ASSUME TelegramInv, UNCHANGED <<confirmed, response, poller, offset, batch, takes>>
    PROVE  PollInv'
BY DEF TelegramInv, PollInv, Seen

-----------------------------------------------------------------------------
LEMMA AnswerPollHolds ==
    ASSUME TelegramInv, Telegram!AnswerPoll
    PROVE  TelegramInv'
<1>1. PICK c : c = IF offset > confirmed THEN offset ELSE confirmed
  OBVIOUS
<1>2. PICK n \in c - 1 .. latest : response' = [i \in 1 .. n - c + 1 |-> c + i - 1]
  BY <1>1 DEF Telegram!AnswerPoll
<1>3. /\ poller = "polling" /\ response = None /\ confirmed' = c
      /\ UNCHANGED <<latest, life, stopping, poller, offset, batch, handler, replies, sender, outgoing,
                     takes, sends, gone>>
  BY <1>1 DEF Telegram!AnswerPoll, Telegram!loopVars, Telegram!replyVars
<1>4. TelegramTypes /\ PollInv
  BY DEF TelegramInv
<1>5. c \in 1 .. MaxUpdates + 1 /\ offset <= c /\ latest \in 0 .. MaxUpdates /\ MaxUpdates \in Nat
  BY <1>1, <1>4, TelegramAssumption DEF TelegramTypes
<1>6. From(response', c)
  <2>1. PICK len : len = n - c + 1
    OBVIOUS
  <2>2. len \in Nat /\ \A i \in 1 .. len : c + i - 1 \in Upd
    BY <1>5, <2>1 DEF Upd
  <2>3. response' = [i \in 1 .. len |-> c + i - 1]
    BY <1>2, <2>1
  <2>4. response' \in [1 .. len -> Upd]
    BY <2>2, <2>3
  <2>5. QED BY <2>2, <2>3, <2>4 DEF From
<1>7. TelegramTypes'
  BY <1>3, <1>4, <1>5 DEF TelegramTypes
<1>8. PollInv'
  <2>1. Seen(takes, c)
    BY <1>1, <1>4 DEF PollInv
  <2>2. Seen(takes', confirmed') /\ Seen(takes', offset')
    BY <1>3, <1>4, <2>1 DEF PollInv
  <2>3. poller' # "batch" /\ poller' = "polling"
    BY <1>3
  <2>4. QED BY <1>3, <1>4, <1>5, <1>6, <2>2, <2>3 DEF PollInv
<1>9. ReplyInv'
  BY <1>3, RepliesStay
<1>10. QED BY <1>7, <1>8, <1>9 DEF TelegramInv

\* The other steps of the loop but the one that takes an update.
LEMMA LoopHolds ==
    ASSUME TelegramInv,
           \/ Telegram!Arrive \/ Telegram!Authenticate \/ Telegram!AskForUpdates
           \/ Telegram!PollReturns \/ Telegram!PollFails \/ Telegram!BackoffEnds
           \/ Telegram!BatchEnds \/ Telegram!LoopStops \/ Telegram!ChannelEnds \/ Telegram!Stop
    PROVE  TelegramInv'
<1>1. TelegramTypes /\ PollInv /\ ReplyInv
  BY DEF TelegramInv
<1>2. /\ UNCHANGED <<confirmed, life, offset, handler, replies, outgoing, takes, sends, gone>>
      /\ latest' \in 0 .. MaxUpdates /\ stopping' \in BOOLEAN
      /\ poller' \in {"starting", "asking", "polling", "batch", "backoff", "joining", "ended"}
      /\ sender' = sender \/ (poller = "starting" /\ poller' # "starting" /\ sender' = "waiting")
      /\ poller' = "starting" => poller = "starting"
      /\ \/ response' = response /\ (poller' = poller \/ response = None)
         \/ response' = None
      /\ poller' = "batch" =>
             \/ poller = "batch" /\ batch' = batch
             \/ poller = "polling" /\ response # None /\ batch' = response
  <2>1. latest \in 0 .. MaxUpdates /\ MaxUpdates \in Nat /\ stopping \in BOOLEAN
    BY <1>1, TelegramAssumption DEF TelegramTypes
  <2>2. response # None => poller = "polling"
    BY <1>1 DEF PollInv
  <2>3. CASE Telegram!Arrive
    BY <1>1, <2>1, <2>3 DEF Telegram!Arrive, Telegram!loopVars, Telegram!replyVars, TelegramTypes
  <2>4. CASE Telegram!Authenticate
    BY <1>1, <2>1, <2>2, <2>4 DEF Telegram!Authenticate, Telegram!telegram, TelegramTypes
  <2>5. CASE Telegram!AskForUpdates
    BY <1>1, <2>1, <2>5 DEF Telegram!AskForUpdates, Telegram!replyVars, TelegramTypes
  <2>6. CASE Telegram!PollReturns
    BY <1>1, <2>1, <2>6 DEF Telegram!PollReturns, Telegram!replyVars, TelegramTypes
  <2>7. CASE Telegram!PollFails
    BY <1>1, <2>1, <2>7 DEF Telegram!PollFails, Telegram!replyVars, TelegramTypes
  <2>8. CASE Telegram!BackoffEnds
    BY <1>1, <2>1, <2>2, <2>8 DEF Telegram!BackoffEnds, Telegram!telegram, Telegram!replyVars, TelegramTypes
  <2>9. CASE Telegram!BatchEnds
    BY <1>1, <2>1, <2>2, <2>9 DEF Telegram!BatchEnds, Telegram!telegram, Telegram!replyVars, TelegramTypes
  <2>10. CASE Telegram!LoopStops
    BY <1>1, <2>1, <2>10 DEF Telegram!LoopStops, Telegram!replyVars, TelegramTypes
  <2>11. CASE Telegram!ChannelEnds
    BY <1>1, <2>1, <2>2, <2>11 DEF Telegram!ChannelEnds, Telegram!telegram, Telegram!replyVars, TelegramTypes
  <2>12. CASE Telegram!Stop
    BY <1>1, <2>1, <2>12 DEF Telegram!Stop, Telegram!telegram, Telegram!loopVars, Telegram!replyVars, TelegramTypes
  <2>13. QED BY <2>3, <2>4, <2>5, <2>6, <2>7, <2>8, <2>9, <2>10, <2>11, <2>12
<1>3. TelegramTypes'
  BY <1>1, <1>2 DEF TelegramTypes
<1>4. ReplyInv'
  <2>1. poller = "starting" => outgoing = None
    BY <1>1 DEF ReplyInv
  <2>2. QED BY <1>2, <2>1, RepliesStay
<1>5. PollInv'
  <2>1. Seen(takes', confirmed') /\ Seen(takes', offset')
    BY <1>1, <1>2 DEF PollInv
  <2>2. response' # None => From(response', confirmed') /\ offset' <= confirmed' /\ poller' = "polling"
    BY <1>1, <1>2 DEF PollInv
  <2>3. ASSUME poller' = "batch"
        PROVE  \E b \in 1 .. MaxUpdates + 1 : offset' <= b /\ From(batch', b) /\ Seen(takes', b)
    <3>1. CASE poller = "batch" /\ batch' = batch
      BY <1>1, <1>2, <3>1 DEF PollInv
    <3>2. CASE poller = "polling" /\ response # None /\ batch' = response
      BY <1>1, <1>2, <3>2 DEF PollInv, TelegramTypes
    <3>3. QED BY <1>2, <2>3, <3>1, <3>2
  <2>4. QED BY <1>1, <1>2, <2>1, <2>2, <2>3 DEF PollInv
<1>6. QED BY <1>3, <1>4, <1>5 DEF TelegramInv

LEMMA TakeUpdateHolds ==
    ASSUME TelegramInv, NEW u \in Upd, Telegram!TakeUpdate(u)
    PROVE  TelegramInv'
<1>1. TelegramTypes /\ PollInv /\ ReplyInv
  BY DEF TelegramInv
<1>2. /\ poller = "batch" /\ batch # <<>> /\ u = Head(batch)
      /\ batch' = Tail(batch)
      /\ offset' = u + 1
      /\ takes' = [takes EXCEPT ![u] = [now |-> @.now + 1, ever |-> @.ever + 1]]
      /\ handler' = IF u \in Dispatched THEN [handler EXCEPT ![u] = "running"] ELSE handler
      /\ UNCHANGED <<latest, confirmed, response, life, stopping, poller, replies, sender, outgoing,
                     sends, gone>>
  BY DEF Telegram!TakeUpdate, Telegram!telegram, Telegram!replyVars
<1>3. PICK b \in 1 .. MaxUpdates + 1 : offset <= b /\ From(batch, b) /\ Seen(takes, b)
  BY <1>1, <1>2 DEF PollInv
<1>4. /\ batch \in Seq(Upd) /\ batch' \in Seq(Upd) /\ u = b
      /\ \A i \in DOMAIN batch' : batch'[i] = (b + 1) + i - 1
  <2>1. batch \in Seq(Upd) /\ \A i \in DOMAIN batch : batch[i] = b + i - 1
    BY <1>3 DEF From
  <2>2. /\ Tail(batch) \in Seq(Upd) /\ Head(batch) = batch[1] /\ 1 \in DOMAIN batch
        /\ \A i \in DOMAIN Tail(batch) : i + 1 \in DOMAIN batch /\ Tail(batch)[i] = batch[i + 1]
        /\ Len(Tail(batch)) \in Nat /\ DOMAIN Tail(batch) = 1 .. Len(Tail(batch))
    BY <1>2, <2>1, Taken
  <2>3. u = b
    BY <1>2, <1>3, <2>1, <2>2
  <2>4. \A i \in DOMAIN Tail(batch) : Tail(batch)[i] = b + (i + 1) - 1 /\ i \in Nat
    BY <2>1, <2>2
  <2>5. QED BY <1>2, <1>3, <2>1, <2>2, <2>3, <2>4
<1>5. /\ takes'[u] = [now |-> takes[u].now + 1, ever |-> takes[u].ever + 1]
      /\ \A w \in Upd : w # u => takes'[w] = takes[w] /\ handler'[w] = handler[w]
      /\ handler'[u] = IF u \in Dispatched THEN "running" ELSE handler[u]
      /\ takes[u].now \in Nat /\ takes[u].ever \in Nat
      /\ \A w \in Upd : takes[w] \in [now : Nat, ever : Nat]
  BY <1>1, <1>2 DEF TelegramTypes
<1>6. /\ takes'[u].now = takes[u].now + 1 /\ takes'[u].ever = takes[u].ever + 1
      /\ takes'[u] \in [now : Nat, ever : Nat]
  BY <1>5
<1>7. TelegramTypes'
  <2>1. takes' \in [Upd -> [now : Nat, ever : Nat]]
    BY <1>1, <1>2, <1>5, <1>6 DEF TelegramTypes
  <2>2. handler' \in [Upd -> {"none", "running", "replying", "done"}]
    BY <1>1, <1>2 DEF TelegramTypes
  <2>3. offset' \in 0 .. MaxUpdates + 1
    BY <1>2, TelegramAssumption DEF Upd
  <2>4. QED BY <1>1, <1>2, <2>1, <2>2, <2>3 DEF TelegramTypes
<1>8. takes[u].now = 0
  BY <1>1, <1>3, <1>4, <1>5 DEF PollInv, TelegramTypes, Upd
<1>9. PollInv'
  <2>1. \A w \in Upd : takes[w].ever > 0 => takes'[w].ever > 0
    BY <1>5, <1>6
  <2>2. Seen(takes', confirmed)
    BY <1>1, <2>1 DEF PollInv, Seen
  <2>3. Seen(takes', u + 1)
    <3>1. \A w \in Upd : w < u + 1 => w < u \/ w = u
      BY DEF Upd
    <3>2. QED BY <1>3, <1>4, <1>5, <1>6, <2>1, <3>1 DEF Seen
  <2>4. response = None
    BY <1>1, <1>2 DEF PollInv
  <2>5. u + 1 \in 1 .. MaxUpdates + 1 /\ u + 1 <= u + 1
    BY TelegramAssumption DEF Upd
  <2>6. From(batch', u + 1)
    BY <1>4 DEF From
  <2>7. ASSUME NEW w \in Upd, takes'[w].now > 0 PROVE w < u + 1
    <3>1. CASE w # u
      <4>1. w < offset
        BY <1>1, <1>5, <2>7, <3>1 DEF PollInv
      <4>2. w \in Int /\ offset \in Int /\ u \in Int /\ offset <= u
        BY <1>1, <1>3, <1>4 DEF TelegramTypes, Upd
      <4>3. QED BY <4>1, <4>2
    <3>2. QED BY <3>1 DEF Upd
  <2>8. QED BY <1>2, <2>2, <2>3, <2>4, <2>5, <2>6, <2>7 DEF PollInv
<1>10. ReplyInv'
  <2>1. ~InHands(u) /\ ~Has(replies, u) /\ outgoing # u
    BY <1>1, <1>8 DEF ReplyInv, Carried, Flies
  <2>2. ASSUME NEW w \in Upd, w # u PROVE Carried(w)'
    BY <1>1, <1>2, <1>5, <2>2 DEF ReplyInv, Carried, InHands, Flies
  <2>3. Carried(u)'
    <3>1. Carried(u) /\ sends[u] \in Nat
      BY <1>1 DEF ReplyInv, TelegramTypes
    <3>2. takes'[u].now = 1
      BY <1>6, <1>8
    <3>3. sends[u] <= takes[u].ever /\ sends[u] < takes'[u].ever
      BY <1>5, <1>6, <3>1 DEF Carried
    <3>4. ~Has(replies', u) /\ outgoing' # u /\ sends'[u] = sends[u]
      BY <1>2, <2>1
    <3>5. u \in Dispatched => InHands(u)'
      BY <1>5 DEF InHands
    <3>6. QED BY <1>6, <1>5, <3>1, <3>2, <3>3, <3>4, <3>5 DEF Carried, Flies
  <2>4. QED BY <1>1, <1>2, <2>2, <2>3 DEF ReplyInv
<1>11. QED BY <1>7, <1>9, <1>10 DEF TelegramInv

-----------------------------------------------------------------------------
\* The turn ends, and its reply is queued or goes nowhere.
LEMMA HandlerHolds ==
    ASSUME TelegramInv, NEW u \in Upd,
           Telegram!TurnEnds(u) \/ Telegram!QueueReply(u) \/ Telegram!QueueIsClosed(u)
    PROVE  TelegramInv'
<1>1. TelegramTypes /\ PollInv /\ ReplyInv
  BY DEF TelegramInv
<1>2. PICK h \in {"replying", "done"} : handler' = [handler EXCEPT ![u] = h]
  BY DEF Telegram!TurnEnds, Telegram!QueueReply, Telegram!QueueIsClosed
<1>3. /\ handler[u] \in {"running", "replying"}
      /\ UNCHANGED <<latest, confirmed, response, life, stopping, poller, offset, batch, sender,
                     outgoing, takes, sends>>
      /\ \/ h = "replying" /\ replies' = replies /\ gone' = gone
         \/ h = "done" /\ replies' = replies /\ gone' = gone \cup {u}
         \/ h = "done" /\ Len(replies) < ReplyRoom /\ replies' = Append(replies, u) /\ gone' = gone
  <2>1. handler'[u] = h
    BY <1>1, <1>2 DEF TelegramTypes
  <2>2. CASE Telegram!TurnEnds(u)
    BY <1>1, <2>1, <2>2 DEF Telegram!TurnEnds, Telegram!telegram, Telegram!loopVars, Telegram!replyVars,
       TelegramTypes
  <2>3. CASE Telegram!QueueReply(u)
    BY <1>1, <2>1, <2>3 DEF Telegram!QueueReply, Telegram!telegram, Telegram!loopVars, TelegramTypes
  <2>4. CASE Telegram!QueueIsClosed(u)
    BY <1>1, <2>1, <2>4 DEF Telegram!QueueIsClosed, Telegram!telegram, Telegram!loopVars,
       Telegram!replyVars, TelegramTypes
  <2>5. QED BY <2>2, <2>3, <2>4
<1>4. /\ handler'[u] = h /\ (\A w \in Upd : w # u => handler'[w] = handler[w])
      /\ handler' \in [Upd -> {"none", "running", "replying", "done"}]
  BY <1>1, <1>2 DEF TelegramTypes
<1>5. ~Has(replies, u) /\ outgoing # u /\ Carried(u)
  BY <1>1, <1>3 DEF ReplyInv, Carried, InHands
<1>6. /\ replies' \in Seq(Upd) /\ Len(replies') <= ReplyRoom /\ NoRepeats(replies')
      /\ \A w \in Upd : w # u => (Has(replies', w) <=> Has(replies, w))
      /\ \/ Has(replies', u) /\ h = "done"
         \/ ~Has(replies', u) /\ (h = "replying" \/ u \in gone')
  <2>1. replies \in Seq(Upd) /\ Len(replies) <= ReplyRoom /\ NoRepeats(replies) /\ ReplyRoom \in Nat
    BY <1>1, TelegramAssumption DEF TelegramTypes, ReplyInv
  <2>2. CASE replies' = replies
    BY <1>3, <1>5, <2>1, <2>2, Appended
  <2>3. CASE h = "done" /\ Len(replies) < ReplyRoom /\ replies' = Append(replies, u)
    <3>1. /\ replies' \in Seq(Upd) /\ Len(replies') = Len(replies) + 1 /\ Len(replies) \in Nat
          /\ \A x : Has(replies', x) <=> Has(replies, x) \/ x = u
          /\ NoRepeats(replies')
      BY <1>5, <2>1, <2>3, Appended
    <3>2. QED BY <2>1, <2>3, <3>1
  <2>4. QED BY <1>3, <2>2, <2>3
<1>7. gone \subseteq gone' /\ gone' \subseteq Upd
  BY <1>1, <1>3 DEF TelegramTypes
<1>8. TelegramTypes'
  BY <1>1, <1>3, <1>4, <1>6, <1>7 DEF TelegramTypes
<1>9. PollInv'
  BY <1>3, PollsStay
<1>10. ReplyInv'
  <2>1. ASSUME NEW w \in Upd, w # u PROVE Carried(w)'
    BY <1>1, <1>3, <1>4, <1>6, <1>7, <2>1 DEF ReplyInv, Carried, InHands, Flies
  <2>2. Carried(u)'
    <3>1. takes[u].now = 1 /\ sends[u] < takes[u].ever /\ takes[u].now <= 1 /\ sends[u] <= takes[u].ever
      BY <1>3, <1>5 DEF Carried, InHands, Flies
    <3>2. takes'[u] = takes[u] /\ sends'[u] = sends[u] /\ outgoing' # u
      BY <1>3, <1>5
    <3>3. InHands(u)' <=> h = "replying"
      BY <1>4 DEF InHands
    <3>4. QED BY <1>6, <3>1, <3>2, <3>3 DEF Carried, Flies
  <2>3. QED BY <1>1, <1>3, <1>6, <2>1, <2>2 DEF ReplyInv
<1>11. QED BY <1>8, <1>9, <1>10 DEF TelegramInv

LEMMA TakeReplyHolds ==
    ASSUME TelegramInv, Telegram!TakeReply
    PROVE  TelegramInv'
<1>1. TelegramTypes /\ PollInv /\ ReplyInv
  BY DEF TelegramInv
<1>2. /\ sender = "waiting" /\ replies # <<>> /\ sender' = "sending"
      /\ outgoing' = Head(replies) /\ replies' = Tail(replies)
      /\ UNCHANGED <<latest, confirmed, response, life, stopping, poller, offset, batch, handler,
                     takes, sends, gone>>
  BY DEF Telegram!TakeReply, Telegram!telegram, Telegram!loopVars
<1>3. /\ replies \in Seq(Upd) /\ NoRepeats(replies) /\ Len(replies) <= ReplyRoom
      /\ ReplyRoom \in Nat /\ outgoing = None
  BY <1>1, <1>2, TelegramAssumption DEF TelegramTypes, ReplyInv
<1>4. /\ replies' \in Seq(Upd) /\ outgoing' \in Upd /\ Len(replies') = Len(replies) - 1
      /\ Len(replies) \in Nat
      /\ \A x : Has(replies, x) <=> x = outgoing' \/ Has(replies', x)
      /\ NoRepeats(replies') /\ ~Has(replies', outgoing')
  BY <1>2, <1>3, Taken, TakenApart
<1>5. TelegramTypes'
  <2>1. Len(replies') <= ReplyRoom
    BY <1>3, <1>4
  <2>2. QED BY <1>1, <1>2, <1>4, <2>1 DEF TelegramTypes
<1>6. PollInv'
  BY <1>2, PollsStay
<1>7. outgoing' # None
  BY <1>4, TelegramAssumption DEF Upd
<1>8. ASSUME NEW w \in Upd PROVE Carried(w)'
  <2>1. Carried(w) /\ outgoing # w
    BY <1>1, <1>3, TelegramAssumption DEF ReplyInv, Upd
  <2>2. InHands(w)' <=> InHands(w)
    BY <1>2 DEF InHands
  <2>3. Flies(w)' <=> Flies(w)
    BY <1>4, <2>1, <2>2 DEF Flies
  <2>4. QED BY <1>2, <1>4, <2>1, <2>2, <2>3 DEF Carried
<1>9. QED BY <1>1, <1>2, <1>4, <1>5, <1>6, <1>7, <1>8 DEF TelegramInv, ReplyInv

LEMMA SendReplyHolds ==
    ASSUME TelegramInv, Telegram!SendReply
    PROVE  TelegramInv'
<1>1. TelegramTypes /\ PollInv /\ ReplyInv
  BY DEF TelegramInv
<1>2. PICK u : u = outgoing
  OBVIOUS
<1>3. /\ sender = "sending" /\ sender' = "waiting" /\ outgoing' = None
      /\ UNCHANGED <<latest, confirmed, response, life, stopping, poller, offset, batch, handler,
                     replies, takes>>
      /\ \/ sends' = [sends EXCEPT ![u] = @ + 1] /\ gone' = gone
         \/ gone' = gone \cup {u} /\ sends' = sends
  BY <1>2 DEF Telegram!SendReply, Telegram!telegram, Telegram!loopVars
<1>4. u \in Upd /\ outgoing = u /\ sends \in [Upd -> Nat] /\ Carried(u)
  BY <1>1, <1>2, <1>3 DEF TelegramTypes, ReplyInv
<1>5. /\ sends' \in [Upd -> Nat] /\ \A w \in Upd : w # u => sends'[w] = sends[w]
      /\ (sends'[u] = sends[u] + 1 /\ gone' = gone) \/ (sends'[u] = sends[u] /\ u \in gone')
      /\ gone \subseteq gone' /\ gone' \subseteq Upd
  BY <1>1, <1>3, <1>4 DEF TelegramTypes
<1>6. TelegramTypes'
  BY <1>1, <1>3, <1>5 DEF TelegramTypes
<1>7. PollInv'
  BY <1>3, PollsStay
<1>8. \A w \in Upd : outgoing' # w
  BY <1>3, TelegramAssumption DEF Upd
<1>9. ASSUME NEW w \in Upd, w # u PROVE Carried(w)'
  BY <1>1, <1>3, <1>4, <1>5, <1>8, <1>9 DEF ReplyInv, Carried, InHands, Flies
<1>10. Carried(u)'
  <2>1. /\ takes[u].now <= 1 /\ sends[u] < takes[u].ever /\ ~InHands(u) /\ ~Has(replies, u)
    BY <1>4 DEF Carried, Flies
  <2>2. sends[u] \in Nat /\ takes[u].ever \in Nat
    BY <1>1, <1>4 DEF TelegramTypes
  <2>3. sends'[u] <= takes[u].ever /\ (sends'[u] > 0 \/ u \in gone')
    BY <1>5, <2>1, <2>2
  <2>4. ~Flies(u)' /\ ~InHands(u)' /\ ~Has(replies', u) /\ takes'[u] = takes[u]
    BY <1>3, <1>4, <1>8, <2>1 DEF Flies, InHands
  <2>5. QED BY <2>1, <2>3, <2>4 DEF Carried
<1>11. QED BY <1>1, <1>3, <1>6, <1>7, <1>9, <1>10 DEF TelegramInv, ReplyInv

LEMMA SenderStopsHolds ==
    ASSUME TelegramInv, Telegram!SenderStops
    PROVE  TelegramInv'
<1>1. TelegramTypes /\ PollInv /\ ReplyInv
  BY DEF TelegramInv
<1>2. /\ sender = "waiting" /\ sender' = "ended" /\ replies' = <<>>
      /\ gone' = gone \cup {replies[i] : i \in DOMAIN replies}
      /\ UNCHANGED <<latest, confirmed, response, life, stopping, poller, offset, batch, handler,
                     outgoing, takes, sends>>
  BY DEF Telegram!SenderStops, Telegram!telegram, Telegram!loopVars, Telegram!ToSet
<1>3. /\ ~(\E x : Has(replies', x)) /\ NoRepeats(replies') /\ replies' \in Seq(Upd) /\ Len(replies') = 0
      /\ \A w \in Upd : Has(replies, w) => w \in gone'
      /\ gone \subseteq gone' /\ gone' \subseteq Upd
  BY <1>1, <1>2 DEF Has, NoRepeats, TelegramTypes
<1>4. TelegramTypes'
  BY <1>1, <1>2, <1>3, TelegramAssumption DEF TelegramTypes
<1>5. PollInv'
  BY <1>2, PollsStay
<1>6. ASSUME NEW w \in Upd PROVE Carried(w)'
  BY <1>1, <1>2, <1>3 DEF ReplyInv, Carried, InHands, Flies
<1>7. QED BY <1>1, <1>2, <1>3, <1>4, <1>5, <1>6 DEF TelegramInv, ReplyInv

LEMMA RestartHolds ==
    ASSUME TelegramInv, Telegram!Restart
    PROVE  TelegramInv'
<1>1. TelegramTypes /\ PollInv /\ ReplyInv
  BY DEF TelegramInv
<1>2. /\ life < MaxLives /\ life' = life + 1 /\ stopping' = FALSE /\ response' = None
      /\ poller' = "starting" /\ offset' = 0 /\ batch' = <<>>
      /\ handler' = [u \in Upd |-> "none"]
      /\ replies' = <<>> /\ sender' = "none" /\ outgoing' = None
      /\ takes' = [u \in Upd |-> [takes[u] EXCEPT !.now = 0]]
      /\ gone' = gone \cup Telegram!InFlight
      /\ UNCHANGED <<latest, confirmed, sends>>
  BY DEF Telegram!Restart, Telegram!Updates, Upd
<1>3. /\ Telegram!InFlight \subseteq Upd
      /\ \A u \in Upd : Flies(u) => u \in Telegram!InFlight
  <2>1. replies \in Seq(Upd) /\ outgoing \in Upd \cup {None}
    BY <1>1 DEF TelegramTypes
  <2>2. Telegram!InFlight =
            {u \in Upd : handler[u] \in {"running", "replying"}} \cup {replies[i] : i \in DOMAIN replies}
                \cup (IF outgoing = None THEN {} ELSE {outgoing})
    BY DEF Telegram!InFlight, Telegram!ToSet, Telegram!Updates, Upd
  <2>3. \A u \in Upd : u # None
    BY TelegramAssumption DEF Upd
  <2>4. QED BY <2>1, <2>2, <2>3 DEF Flies, InHands, Has
<1>4. /\ \A u \in Upd : takes'[u].now = 0 /\ takes'[u].ever = takes[u].ever
      /\ takes' \in [Upd -> [now : Nat, ever : Nat]]
      /\ \A u \in Upd : takes[u].ever \in Nat
  <2>1. \A u \in Upd : takes[u] \in [now : Nat, ever : Nat]
    BY <1>1 DEF TelegramTypes
  <2>2. \A u \in Upd : [takes[u] EXCEPT !.now = 0] \in [now : Nat, ever : Nat]
                       /\ [takes[u] EXCEPT !.now = 0].now = 0
                       /\ [takes[u] EXCEPT !.now = 0].ever = takes[u].ever
    BY <2>1
  <2>3. QED BY <1>2, <2>1, <2>2
<1>5. TelegramTypes'
  <2>1. /\ <<>> \in Seq(Upd) /\ Len(<<>>) = 0 /\ 0 \in 0 .. MaxUpdates + 1 /\ 0 <= ReplyRoom
        /\ life + 1 \in 1 .. MaxLives
    BY <1>1, <1>2, TelegramAssumption DEF TelegramTypes
  <2>2. handler' \in [Upd -> {"none", "running", "replying", "done"}] /\ gone' \subseteq Upd
    BY <1>1, <1>2, <1>3 DEF TelegramTypes
  <2>3. QED BY <1>1, <1>2, <1>4, <2>1, <2>2 DEF TelegramTypes
<1>6. PollInv'
  <2>1. \A b \in Int : Seen(takes, b) => Seen(takes', b)
    BY <1>4 DEF Seen
  <2>2. Seen(takes', confirmed')
    BY <1>1, <1>2, <2>1 DEF PollInv, TelegramTypes
  <2>3. Seen(takes', 0)
    BY DEF Seen, Upd
  <2>4. QED BY <1>2, <1>4, <2>2, <2>3 DEF PollInv
<1>7. ASSUME NEW w \in Upd PROVE Carried(w)'
  <2>1. Carried(w) /\ sends[w] \in Nat /\ outgoing' # w /\ ~Has(replies', w) /\ handler'[w] = "none"
    BY <1>1, <1>2, TelegramAssumption DEF ReplyInv, Upd, Has, TelegramTypes
  <2>2. w \in gone \/ Flies(w) => w \in gone'
    BY <1>2, <1>3
  <2>3. ~InHands(w)' /\ ~Flies(w)'
    BY <2>1 DEF InHands, Flies
  <2>4. QED BY <1>2, <1>4, <2>1, <2>2, <2>3 DEF Carried
<1>8. NoRepeats(replies')
  BY <1>2 DEF NoRepeats
<1>9. QED BY <1>2, <1>5, <1>6, <1>7, <1>8 DEF TelegramInv, ReplyInv

LEMMA TelegramSteps ==
    ASSUME TelegramInv, Telegram!Next
    PROVE  TelegramInv'
BY AnswerPollHolds, LoopHolds, TakeUpdateHolds, HandlerHolds, TakeReplyHolds, SendReplyHolds,
   SenderStopsHolds, RestartHolds DEF Telegram!Next, Telegram!Updates, Upd

LEMMA TelegramIsSafe ==
    ASSUME TelegramInv
    PROVE  Telegram!TypeOK /\ Telegram!ForgottenWasTaken /\ Telegram!OncePerLife /\ Telegram!NoneIsDropped
<1>1. TelegramTypes /\ PollInv /\ ReplyInv
  BY DEF TelegramInv
<1>2. \A u \in Upd : Flies(u) => u \in Telegram!InFlight
  BY TelegramAssumption DEF Telegram!InFlight, Telegram!ToSet, Telegram!Updates, Upd, Flies, InHands, Has
<1>3. QED BY <1>1, <1>2, TelegramAssumption DEF TelegramTypes, PollInv, Seen, ReplyInv, Carried, Telegram!Updates, Upd,
   Telegram!TypeOK, Telegram!ForgottenWasTaken, Telegram!OncePerLife, Telegram!NoneIsDropped

-----------------------------------------------------------------------------
(* Canvas streams.  What a client was told and what is on its way to it    *)
(* count the frames from the one at which it joined.                       *)

EndItem == [kind |-> "end", frame |-> 0]
Items == [kind : {"canvas", "lag"}, frame : Nat] \cup {EndItem}

Amount(x) == Canvas!Covers(x)
Sum(q, n) == Canvas!Covered(q, n)

CoverOf(q, n) == UNION {{i} \X (1 .. Amount(q[i])) : i \in 1 .. n}

\* What was told counts every frame from the first to the last.
Counted(q, from, to) ==
    /\ \A i \in DOMAIN q : q[i].kind = "canvas" => q[i].frame = from + Sum(q, i)
    /\ to = from + Sum(q, Len(q))
    /\ \A i \in DOMAIN q : IsFiniteSet(CoverOf(q, i))

\* The same of what is on its way, by the frame that each item reaches.
Chained(q, from, to) ==
    \E reach \in [0 .. Len(q) -> Nat] :
        /\ reach[0] = from /\ reach[Len(q)] = to
        /\ \A i \in 1 .. Len(q) : /\ reach[i] = reach[i - 1] + Amount(q[i])
                                  /\ q[i].kind = "canvas" => q[i].frame = reach[i]

CanvasTypes ==
    /\ now \in 0 .. MaxTime /\ frames \in 0 .. MaxFrames
    /\ open \in BOOLEAN /\ janitor \in BOOLEAN /\ reaped \in BOOLEAN
    /\ stream \in [Streams -> {"none", "selecting", "sending", "ending", "ended", "left"}]
    /\ canvas_joined \in [Streams -> Nat] /\ position \in [Streams -> Nat]
    /\ holds \in [Streams -> Items]
    /\ pipe \in [Streams -> Seq(Items)] /\ told \in [Streams -> Seq(Items)]

StreamInv(s) ==
    /\ position[s] <= frames /\ Len(pipe[s]) <= CanvasCapacity
    /\ stream[s] = "none" => told[s] = <<>> /\ pipe[s] = <<>>
    /\ stream[s] = "left" => pipe[s] = <<>>
    /\ stream[s] = "sending" => holds[s] # EndItem
    /\ stream[s] = "ending" => holds[s] = EndItem /\ reaped

EndInv(s) ==
    /\ \A i \in DOMAIN told[s] : told[s][i] = EndItem =>
           i = Len(told[s]) /\ pipe[s] = <<>> /\ stream[s] \in {"ended", "left"} /\ reaped
    /\ \A i \in DOMAIN pipe[s] : pipe[s][i] = EndItem =>
           i = Len(pipe[s]) /\ stream[s] = "ended" /\ reaped

\* What the task is about to send takes the client from m to where the receiver is.
InHandFrom(s, m) ==
    IF stream[s] \in {"sending", "ending"}
    THEN /\ position[s] = m + Amount(holds[s])
         /\ holds[s].kind = "canvas" => holds[s].frame = position[s]
    ELSE position[s] = m

AccountInv(s) ==
    /\ \A i \in DOMAIN told[s] :
           told[s][i].kind = "canvas" => told[s][i].frame = canvas_joined[s] + Sum(told[s], i)
    /\ stream[s] \notin {"none", "left"} =>
           \E m, n \in Nat : /\ Counted(told[s], canvas_joined[s], m) /\ Chained(pipe[s], m, n)
                             /\ InHandFrom(s, n)

CanvasInv ==
    /\ CanvasTypes /\ (reaped => ~open)
    /\ \A s \in Streams : StreamInv(s) /\ EndInv(s) /\ AccountInv(s)

-----------------------------------------------------------------------------
LEMMA SameCount == \A S : Canvas!Cardinality(S) = Cardinality(S)
BY DEF Canvas!Cardinality, Cardinality

LEMMA ItemsAreItems ==
    ASSUME NEW x \in Items
    PROVE  /\ Amount(x) \in Nat /\ (x.kind = "canvas" => Amount(x) = 1)
           /\ (x.kind = "end" <=> x = EndItem) /\ (x.kind = "end" => Amount(x) = 0)
           /\ (x.kind = "lag" => Amount(x) = x.frame) /\ x.kind \in {"canvas", "lag", "end"}
BY DEF Items, EndItem, Amount, Canvas!Covers

LEMMA SumIsCount == \A q, n : Sum(q, n) = Cardinality(CoverOf(q, n))
BY SameCount DEF Sum, Canvas!Covered, CoverOf, Amount

\* An item appended adds what it stands for.
LEMMA SumGrows ==
    ASSUME NEW q \in Seq(Items), NEW x \in Items, \A i \in DOMAIN q : IsFiniteSet(CoverOf(q, i))
    PROVE  /\ \A i \in DOMAIN q : Sum(Append(q, x), i) = Sum(q, i)
           /\ Sum(Append(q, x), Len(q) + 1) = Sum(q, Len(q)) + Amount(x)
           /\ \A i \in DOMAIN Append(q, x) : IsFiniteSet(CoverOf(Append(q, x), i))
<1> DEFINE d == Append(q, x)
           n == Len(q)
<1>1. /\ n \in Nat /\ DOMAIN q = 1 .. n /\ DOMAIN d = 1 .. n + 1 /\ d[n + 1] = x
      /\ \A i \in 1 .. n : d[i] = q[i]
  BY Appended
<1> HIDE DEF d, n
<1>2. ASSUME NEW i \in 1 .. n PROVE CoverOf(d, i) = CoverOf(q, i)
  <2>1. \A j \in 1 .. i : j \in 1 .. n /\ d[j] = q[j]
    BY <1>1
  <2>2. QED BY <2>1 DEF CoverOf
<1>3. CoverOf(d, n) = CoverOf(q, n)
  <2>1. \A j \in 1 .. n : d[j] = q[j]
    BY <1>1
  <2>2. QED BY <2>1 DEF CoverOf
<1>4. PICK c : c = Amount(x)
  OBVIOUS
<1>5. c \in Nat
  BY <1>4, ItemsAreItems
<1>6. PICK last : last = {n + 1} \X (1 .. c)
  OBVIOUS
<1>7. CoverOf(d, n + 1) = CoverOf(q, n) \cup last
  <2>1. 1 .. n + 1 = (1 .. n) \cup {n + 1}
    BY <1>1
  <2>2. CoverOf(d, n + 1) = CoverOf(d, n) \cup ({n + 1} \X (1 .. Amount(d[n + 1])))
    BY <2>1 DEF CoverOf
  <2>3. QED BY <1>1, <1>3, <1>4, <1>6, <2>2
<1>8. IsFiniteSet(last) /\ Cardinality(last) = c
  <2>1. PICK f : f = [k \in 1 .. c |-> <<n + 1, k>>]
    OBVIOUS
  <2>2. f \in [1 .. c -> last]
    BY <1>6, <2>1
  <2>3. \A j, k \in 1 .. c : f[j] = f[k] => j = k
    BY <2>1
  <2>4. \A y \in last : \E k \in 1 .. c : f[k] = y
    BY <1>6, <2>1
  <2>5. f \in Bijection(1 .. c, last)
    BY <2>2, <2>3, <2>4 DEF Bijection, Injection, Surjection, IsInjective
  <2>6. ExistsBijection(1 .. c, last)
    BY <2>5 DEF ExistsBijection
  <2>7. IsFiniteSet(1 .. c) /\ Cardinality(1 .. c) = c
    BY <1>5, FS_Interval
  <2>8. QED BY <2>6, <2>7, FS_Bijection
<1>9. CoverOf(q, n) \cap last = {}
  <2>1. \A y \in CoverOf(q, n) : \E i \in 1 .. n : y[1] = i
    BY DEF CoverOf
  <2>2. \A y \in last : y[1] = n + 1
    BY <1>6
  <2>3. QED BY <1>1, <2>1, <2>2
<1>10. IsFiniteSet(CoverOf(q, n)) /\ Cardinality(CoverOf(q, n)) \in Nat
  <2>1. CASE n = 0
    <3>1. CoverOf(q, n) = {}
      BY <2>1 DEF CoverOf
    <3>2. QED BY <3>1, FS_EmptySet
  <2>2. CASE n # 0
    <3>1. n \in DOMAIN q
      BY <1>1, <2>2
    <3>2. QED BY <3>1, FS_CardinalityType
  <2>3. QED BY <2>1, <2>2
<1>11. /\ IsFiniteSet(CoverOf(d, n + 1))
       /\ Cardinality(CoverOf(d, n + 1)) = Cardinality(CoverOf(q, n)) + c
  <2>1. IsFiniteSet(CoverOf(q, n) \cup last)
    BY <1>8, <1>10, FS_Union
  <2>2. Cardinality(CoverOf(q, n) \cup last) =
            Cardinality(CoverOf(q, n)) + Cardinality(last) - Cardinality(CoverOf(q, n) \cap last)
    BY <1>8, <1>10, FS_Union
  <2>3. Cardinality(CoverOf(q, n) \cap last) = 0
    BY <1>9, FS_EmptySet
  <2>4. PICK k : k = Cardinality(CoverOf(q, n))
    OBVIOUS
  <2>5. k \in Nat /\ Cardinality(CoverOf(q, n) \cup last) = k + c
    BY <1>5, <1>8, <1>10, <2>2, <2>3, <2>4
  <2>6. QED BY <1>7, <2>1, <2>4, <2>5
<1>12. \A i \in DOMAIN d : IsFiniteSet(CoverOf(d, i))
  <2>1. \A i \in DOMAIN d : i \in 1 .. n \/ i = n + 1
    BY <1>1
  <2>2. QED BY <1>1, <1>2, <1>11, <2>1
<1>13. \A i \in 1 .. n : Sum(d, i) = Sum(q, i)
  BY <1>2, SumIsCount
<1>14. Sum(d, n + 1) = Sum(q, n) + c
  BY <1>11, SumIsCount
<1>15. QED BY <1>1, <1>4, <1>12, <1>13, <1>14 DEF d, n

LEMMA SumOfNone == \A q : Sum(q, 0) = 0 /\ IsFiniteSet(CoverOf(q, 0))
<1>1. \A q : CoverOf(q, 0) = {}
  BY DEF CoverOf
<1>2. QED BY <1>1, SumIsCount, FS_EmptySet

\* The client reads: the first item on its way is counted.
LEMMA ReadsOne ==
    ASSUME NEW q \in Seq(Items), NEW p \in Seq(Items), p # <<>>, NEW b \in Nat, NEW m \in Nat, NEW t \in Nat,
           Counted(q, b, m), Chained(p, m, t)
    PROVE  \E k \in Nat : Counted(Append(q, Head(p)), b, k) /\ Chained(Tail(p), k, t)
<1>1. PICK reach \in [0 .. Len(p) -> Nat] :
        /\ reach[0] = m /\ reach[Len(p)] = t
        /\ \A i \in 1 .. Len(p) : /\ reach[i] = reach[i - 1] + Amount(p[i])
                                  /\ p[i].kind = "canvas" => p[i].frame = reach[i]
  BY DEF Chained
<1>2. PICK x : x = Head(p)
  OBVIOUS
<1>3. PICK n : n = Len(p)
  OBVIOUS
<1>4. /\ n \in Nat /\ n # 0 /\ x \in Items /\ x = p[1] /\ Tail(p) \in Seq(Items) /\ Len(Tail(p)) = n - 1
      /\ \A i \in 1 .. n - 1 : Tail(p)[i] = p[i + 1]
  BY <1>2, <1>3
<1>5. PICK k : k = reach[1]
  OBVIOUS
<1>6. /\ k \in Nat /\ k = m + Amount(x) /\ (x.kind = "canvas" => x.frame = k) /\ Amount(x) \in Nat
  <2>1. 1 \in 1 .. n /\ 1 \in 0 .. n /\ 1 - 1 = 0
    BY <1>4
  <2>2. reach[1] = reach[1 - 1] + Amount(p[1])
    BY <1>1, <1>3, <2>1
  <2>3. QED BY <1>1, <1>3, <1>4, <1>5, <2>1, <2>2, ItemsAreItems
<1>7. Chained(Tail(p), k, t)
  <2>1. PICK new : new = [i \in 0 .. n - 1 |-> reach[i + 1]]
    OBVIOUS
  <2>2. \A i \in 0 .. n - 1 : i + 1 \in 0 .. n /\ new[i] = reach[i + 1]
    BY <1>4, <2>1
  <2>3. new \in [0 .. n - 1 -> Nat]
    BY <1>1, <1>3, <2>1, <2>2
  <2>4. new[0] = k /\ new[n - 1] = t
    <3>1. 0 \in 0 .. n - 1 /\ n - 1 \in 0 .. n - 1 /\ n - 1 + 1 = n /\ 0 + 1 = 1
      BY <1>4
    <3>2. QED BY <1>1, <1>3, <1>5, <2>2, <3>1
  <2>5. ASSUME NEW i \in 1 .. n - 1
        PROVE  /\ new[i] = new[i - 1] + Amount(Tail(p)[i])
               /\ Tail(p)[i].kind = "canvas" => Tail(p)[i].frame = new[i]
    <3>1. /\ i + 1 \in 1 .. n /\ i \in 0 .. n - 1 /\ i - 1 \in 0 .. n - 1
          /\ i - 1 + 1 = i /\ i + 1 - 1 = i
      BY <1>4
    <3>2. new[i] = reach[i + 1] /\ new[i - 1] = reach[i] /\ Tail(p)[i] = p[i + 1]
      BY <1>4, <2>2, <3>1
    <3>3. /\ reach[i + 1] = reach[i] + Amount(p[i + 1])
          /\ p[i + 1].kind = "canvas" => p[i + 1].frame = reach[i + 1]
      BY <1>1, <1>3, <3>1
    <3>4. QED BY <3>2, <3>3
  <2>6. PICK rest : rest = Tail(p)
    OBVIOUS
  <2>7. Len(rest) = n - 1 /\ new \in [0 .. Len(rest) -> Nat] /\ new[0] = k /\ new[Len(rest)] = t
    BY <1>4, <2>3, <2>4, <2>6
  <2>8. \A i \in 1 .. Len(rest) : /\ new[i] = new[i - 1] + Amount(rest[i])
                                  /\ rest[i].kind = "canvas" => rest[i].frame = new[i]
    BY <2>5, <2>6, <2>7
  <2>9. Chained(rest, k, t)
    BY <2>7, <2>8 DEF Chained
  <2>10. QED BY <2>6, <2>9
<1>8. Counted(Append(q, x), b, k)
  <2>1. PICK d : d = Append(q, x)
    OBVIOUS
  <2>2. /\ \A i \in DOMAIN q : Sum(d, i) = Sum(q, i)
        /\ Sum(d, Len(q) + 1) = Sum(q, Len(q)) + Amount(x)
        /\ \A i \in DOMAIN d : IsFiniteSet(CoverOf(d, i))
    BY <1>4, <2>1, SumGrows DEF Counted
  <2>3. /\ Len(q) \in Nat /\ DOMAIN q = 1 .. Len(q) /\ DOMAIN d = 1 .. Len(q) + 1 /\ Len(d) = Len(q) + 1
        /\ d[Len(q) + 1] = x /\ \A i \in DOMAIN q : d[i] = q[i]
    BY <1>4, <2>1, Appended
  <2>4. Sum(q, Len(q)) \in Nat
    <3>1. CASE Len(q) = 0
      BY <3>1, SumOfNone
    <3>2. CASE Len(q) # 0
      <4>1. Len(q) \in DOMAIN q
        BY <2>3, <3>2
      <4>2. QED BY <4>1, FS_CardinalityType, SumIsCount DEF Counted
    <3>3. QED BY <3>1, <3>2
  <2>5. k = b + Sum(d, Len(d))
    <3>1. m = b + Sum(q, Len(q))
      BY DEF Counted
    <3>2. QED BY <1>6, <2>2, <2>3, <2>4, <3>1
  <2>6. ASSUME NEW i \in DOMAIN d, d[i].kind = "canvas" PROVE d[i].frame = b + Sum(d, i)
    <3>1. CASE i \in DOMAIN q
      BY <2>2, <2>3, <2>6, <3>1 DEF Counted
    <3>2. CASE i = Len(d)
      BY <1>6, <2>3, <2>5, <2>6, <3>2
    <3>3. QED BY <2>3, <3>1, <3>2
  <2>7. QED BY <2>1, <2>2, <2>5, <2>6 DEF Counted
<1>9. QED BY <1>2, <1>6, <1>7, <1>8

\* The task sends: an item goes to the end of what is on its way.
LEMMA SendsOne ==
    ASSUME NEW p \in Seq(Items), NEW x \in Items, NEW m \in Nat, NEW t \in Nat, NEW u \in Nat,
           Chained(p, m, t), u = t + Amount(x), x.kind = "canvas" => x.frame = u
    PROVE  Chained(Append(p, x), m, u)
<1>1. PICK reach \in [0 .. Len(p) -> Nat] :
        /\ reach[0] = m /\ reach[Len(p)] = t
        /\ \A i \in 1 .. Len(p) : /\ reach[i] = reach[i - 1] + Amount(p[i])
                                  /\ p[i].kind = "canvas" => p[i].frame = reach[i]
  BY DEF Chained
<1>2. PICK n, d : n = Len(p) /\ d = Append(p, x)
  OBVIOUS
<1>3. n \in Nat /\ Len(d) = n + 1 /\ d[n + 1] = x /\ \A i \in 1 .. n : d[i] = p[i]
  BY <1>2
<1>4. PICK new : new = [i \in 0 .. n + 1 |-> IF i = n + 1 THEN u ELSE reach[i]]
  OBVIOUS
<1>5. /\ new[n + 1] = u /\ \A i \in 0 .. n : new[i] = reach[i]
      /\ \A i \in 0 .. n + 1 : i = n + 1 \/ i \in 0 .. n
  <2>1. n + 1 \in 0 .. n + 1 /\ \A i \in 0 .. n : i \in 0 .. n + 1 /\ i # n + 1
    BY <1>3
  <2>2. \A i \in 0 .. n + 1 : i = n + 1 \/ i \in 0 .. n
    BY <1>3
  <2>3. QED BY <1>4, <2>1, <2>2
<1>6. new \in [0 .. n + 1 -> Nat]
  <2>1. \A i \in 0 .. n + 1 : new[i] \in Nat
    BY <1>1, <1>2, <1>5
  <2>2. QED BY <1>4, <2>1
<1>7. ASSUME NEW i \in 1 .. n + 1
      PROVE  /\ new[i] = new[i - 1] + Amount(d[i])
             /\ d[i].kind = "canvas" => d[i].frame = new[i]
  <2>1. CASE i = n + 1
    <3>1. n \in 0 .. n /\ n + 1 - 1 = n
      BY <1>3
    <3>2. new[i] = u /\ new[i - 1] = t /\ d[i] = x
      BY <1>1, <1>2, <1>3, <1>5, <2>1, <3>1
    <3>3. QED BY <3>2
  <2>2. CASE i \in 1 .. n
    <3>1. i \in 0 .. n /\ i - 1 \in 0 .. n
      BY <1>3, <2>2
    <3>2. new[i] = reach[i] /\ new[i - 1] = reach[i - 1] /\ d[i] = p[i]
      BY <1>3, <1>5, <2>2, <3>1
    <3>3. QED BY <1>1, <1>2, <2>2, <3>2
  <2>3. QED BY <1>3, <2>1, <2>2
<1>8. new[0] = m
  <2>1. 0 \in 0 .. n
    BY <1>3
  <2>2. QED BY <1>1, <1>5, <2>1
<1>9. QED BY <1>2, <1>3, <1>5, <1>6, <1>7, <1>8 DEF Chained

LEMMA NothingYet == \A b \in Nat : Counted(<<>>, b, b) /\ Chained(<<>>, b, b)
<1>1. TAKE b \in Nat
<1>2. Counted(<<>>, b, b)
  BY SumOfNone DEF Counted
<1>3. Chained(<<>>, b, b)
  <2>1. PICK reach : reach = [i \in 0 .. 0 |-> b]
    OBVIOUS
  <2>2. reach \in [0 .. 0 -> Nat] /\ reach[0] = b
    BY <2>1
  <2>3. Len(<<>>) = 0 /\ 1 .. 0 = {}
    OBVIOUS
  <2>4. QED BY <2>2, <2>3 DEF Chained
<1>4. QED BY <1>2, <1>3

-----------------------------------------------------------------------------
LEMMA CanvasStarts ==
    ASSUME Canvas!Init
    PROVE  CanvasInv
<1>1. /\ now = 0 /\ open = FALSE /\ frames = 0 /\ janitor = FALSE /\ reaped = FALSE
      /\ stream = [s \in Streams |-> "none"] /\ canvas_joined = [s \in Streams |-> 0]
      /\ position = [s \in Streams |-> 0] /\ holds = [s \in Streams |-> EndItem]
      /\ pipe = [s \in Streams |-> <<>>] /\ told = [s \in Streams |-> <<>>]
  BY DEF Canvas!Init, Canvas!End, EndItem
<1>2. EndItem \in Items /\ <<>> \in Seq(Items) /\ DOMAIN <<>> = {} /\ Len(<<>>) = 0
  BY DEF Items
<1>3. CanvasTypes
  <2>1. now \in 0 .. MaxTime /\ frames \in 0 .. MaxFrames
    BY <1>1, CanvasAssumption
  <2>2. canvas_joined \in [Streams -> Nat] /\ position \in [Streams -> Nat]
    BY <1>1
  <2>3. /\ holds \in [Streams -> Items] /\ pipe \in [Streams -> Seq(Items)]
        /\ told \in [Streams -> Seq(Items)]
    BY <1>1, <1>2
  <2>4. stream \in [Streams -> {"none", "selecting", "sending", "ending", "ended", "left"}]
    BY <1>1
  <2>5. QED BY <1>1, <2>1, <2>2, <2>3, <2>4 DEF CanvasTypes
<1>4. \A s \in Streams : StreamInv(s)
  BY <1>1, <1>2, CanvasAssumption DEF StreamInv
<1>5. \A s \in Streams : EndInv(s) /\ AccountInv(s)
  BY <1>1, <1>2 DEF EndInv, AccountInv
<1>6. QED BY <1>1, <1>3, <1>4, <1>5 DEF CanvasInv

\* The session moves, and its streams do not.
LEMMA SessionMoved ==
    ASSUME CanvasInv, UNCHANGED <<stream, canvas_joined, position, holds, pipe, told>>,
           now' \in 0 .. MaxTime, frames' \in 0 .. MaxFrames, frames' >= frames,
           open' \in BOOLEAN, janitor' \in BOOLEAN, reaped' \in BOOLEAN,
           reaped => reaped', reaped' => ~open'
    PROVE  CanvasInv'
<1>1. CanvasTypes'
  BY DEF CanvasInv, CanvasTypes
<1>2. ASSUME NEW s \in Streams PROVE (StreamInv(s) /\ EndInv(s) /\ AccountInv(s))'
  <2>1. StreamInv(s) /\ EndInv(s) /\ AccountInv(s)
    BY DEF CanvasInv
  <2>2. position[s] \in Nat /\ frames \in Nat /\ frames' \in Nat
    BY CanvasAssumption DEF CanvasInv, CanvasTypes
  <2>3. StreamInv(s)'
    BY <2>1, <2>2 DEF StreamInv
  <2>4. EndInv(s)'
    BY <2>1 DEF EndInv
  <2>5. AccountInv(s)'
    BY <2>1 DEF AccountInv, InHandFrom
  <2>6. QED BY <2>3, <2>4, <2>5
<1>3. QED BY <1>1, <1>2 DEF CanvasInv

\* One stream moves.
LEMMA StreamMoved ==
    ASSUME CanvasInv, NEW s \in Streams, UNCHANGED <<now, open, frames, janitor, reaped>>, CanvasTypes',
           \A u \in Streams : u # s =>
               /\ stream'[u] = stream[u] /\ canvas_joined'[u] = canvas_joined[u]
               /\ position'[u] = position[u] /\ holds'[u] = holds[u]
               /\ pipe'[u] = pipe[u] /\ told'[u] = told[u],
           StreamInv(s)', EndInv(s)', AccountInv(s)'
    PROVE  CanvasInv'
<1>1. ASSUME NEW u \in Streams PROVE (StreamInv(u) /\ EndInv(u) /\ AccountInv(u))'
  <2>1. CASE u = s
    BY <2>1
  <2>2. CASE u # s
    <3>1. StreamInv(u) /\ EndInv(u) /\ AccountInv(u)
      BY DEF CanvasInv
    <3>2. /\ stream'[u] = stream[u] /\ canvas_joined'[u] = canvas_joined[u]
          /\ position'[u] = position[u] /\ holds'[u] = holds[u]
          /\ pipe'[u] = pipe[u] /\ told'[u] = told[u] /\ frames' = frames /\ reaped' = reaped
      BY <2>2
    <3>3. StreamInv(u)'
      BY <3>1, <3>2 DEF StreamInv
    <3>4. EndInv(u)'
      BY <3>1, <3>2 DEF EndInv
    <3>5. AccountInv(u)'
      BY <3>1, <3>2 DEF AccountInv, InHandFrom
    <3>6. QED BY <3>3, <3>4, <3>5
  <2>3. QED BY <2>1, <2>2
<1>2. QED BY <1>1 DEF CanvasInv

LEMMA CanvasSessionHolds ==
    ASSUME CanvasInv,
           \/ Canvas!Tick \/ Canvas!PostFrame \/ Canvas!ListExpired \/ Canvas!Reap
           \/ \E ttl \in Lifetimes : Canvas!CreateSession(ttl)
    PROVE  CanvasInv'
<1>1. /\ now \in 0 .. MaxTime /\ frames \in 0 .. MaxFrames /\ frames \in Nat /\ frames >= frames
      /\ open \in BOOLEAN /\ janitor \in BOOLEAN /\ reaped \in BOOLEAN /\ (reaped => ~open)
  BY CanvasAssumption DEF CanvasInv, CanvasTypes
<1>2. CASE Canvas!Tick
  BY <1>1, <1>2, SessionMoved DEF Canvas!Tick, Canvas!streamVars
<1>3. CASE Canvas!PostFrame
  <2>1. frames' \in 0 .. MaxFrames /\ frames' >= frames
    BY <1>1, <1>3, CanvasAssumption DEF Canvas!PostFrame
  <2>2. QED BY <1>1, <1>3, <2>1, SessionMoved DEF Canvas!PostFrame, Canvas!streamVars
<1>4. CASE Canvas!ListExpired
  BY <1>1, <1>4, SessionMoved DEF Canvas!ListExpired, Canvas!streamVars
<1>5. CASE Canvas!Reap
  BY <1>1, <1>5, SessionMoved DEF Canvas!Reap, Canvas!streamVars
<1>6. ASSUME NEW ttl \in Lifetimes, Canvas!CreateSession(ttl) PROVE CanvasInv'
  BY <1>1, <1>6, SessionMoved DEF Canvas!CreateSession, Canvas!streamVars
<1>7. QED BY <1>2, <1>3, <1>4, <1>5, <1>6

LEMMA OpenStreamHolds ==
    ASSUME CanvasInv, NEW s \in Streams, Canvas!OpenStream(s)
    PROVE  CanvasInv'
<1>1. /\ open /\ stream[s] = "none"
      /\ stream' = [stream EXCEPT ![s] = "selecting"]
      /\ canvas_joined' = [canvas_joined EXCEPT ![s] = frames]
      /\ position' = [position EXCEPT ![s] = frames]
      /\ UNCHANGED <<now, open, frames, janitor, reaped, holds, pipe, told>>
  BY DEF Canvas!OpenStream, Canvas!sessionVars
<1>2. CanvasTypes /\ StreamInv(s) /\ frames \in Nat
  BY CanvasAssumption DEF CanvasInv, CanvasTypes
<1>3. /\ stream'[s] = "selecting" /\ canvas_joined'[s] = frames /\ position'[s] = frames
      /\ told'[s] = <<>> /\ pipe'[s] = <<>>
      /\ \A u \in Streams : u # s =>
               /\ stream'[u] = stream[u] /\ canvas_joined'[u] = canvas_joined[u]
               /\ position'[u] = position[u]
  BY <1>1, <1>2 DEF CanvasTypes, StreamInv
<1>4. CanvasTypes'
  BY <1>1, <1>2 DEF CanvasTypes
<1>5. DOMAIN told'[s] = {} /\ DOMAIN pipe'[s] = {} /\ Len(pipe'[s]) = 0
  BY <1>3
<1>6. StreamInv(s)' /\ EndInv(s)'
  BY <1>1, <1>2, <1>3, <1>5, CanvasAssumption DEF StreamInv, EndInv
<1>7. AccountInv(s)'
  <2>1. Counted(told'[s], canvas_joined'[s], frames) /\ Chained(pipe'[s], frames, frames)
    BY <1>2, <1>3, NothingYet
  <2>2. InHandFrom(s, frames)'
    BY <1>1, <1>3 DEF InHandFrom
  <2>3. \E m, n \in Nat : /\ Counted(told[s], canvas_joined[s], m)' /\ Chained(pipe'[s], m, n)
                           /\ InHandFrom(s, n)'
    BY <1>1, <1>2, <2>1, <2>2
  <2>4. QED BY <1>2, <1>5, <2>1, <2>2, <1>1 DEF AccountInv
<1>8. QED BY <1>1, <1>3, <1>4, <1>6, <1>7, StreamMoved

\* What a stream that takes something in hand needs.
LEMMA TakesInHand ==
    ASSUME CanvasInv, NEW s \in Streams, stream[s] = "selecting",
           NEW x \in Items, NEW where \in {"sending", "ending"}, NEW p \in Nat, p <= frames,
           where = "ending" <=> x = EndItem, where = "ending" => reaped,
           p = position[s] + Amount(x), x.kind = "canvas" => x.frame = p,
           holds' = [holds EXCEPT ![s] = x], stream' = [stream EXCEPT ![s] = where],
           position' = [position EXCEPT ![s] = p],
           UNCHANGED <<now, open, frames, janitor, reaped, canvas_joined, pipe, told>>
    PROVE  CanvasInv'
<1>1. CanvasTypes /\ StreamInv(s) /\ EndInv(s) /\ AccountInv(s)
  BY DEF CanvasInv
<1>2. /\ stream'[s] = where /\ holds'[s] = x /\ position'[s] = p
      /\ told'[s] = told[s] /\ pipe'[s] = pipe[s] /\ canvas_joined'[s] = canvas_joined[s]
      /\ \A u \in Streams : u # s =>
               /\ stream'[u] = stream[u] /\ holds'[u] = holds[u] /\ position'[u] = position[u]
  BY <1>1 DEF CanvasTypes
<1>3. CanvasTypes'
  BY <1>1 DEF CanvasTypes
<1>4. StreamInv(s)'
  BY <1>1, <1>2 DEF StreamInv
<1>5. EndInv(s)'
  <2>1. \A i \in DOMAIN told[s] : told[s][i] # EndItem
    BY <1>1 DEF EndInv
  <2>2. \A i \in DOMAIN pipe[s] : pipe[s][i] # EndItem
    BY <1>1 DEF EndInv
  <2>3. QED BY <1>2, <2>1, <2>2 DEF EndInv
<1>6. AccountInv(s)'
  <2>1. PICK m \in Nat, n \in Nat : /\ Counted(told[s], canvas_joined[s], m) /\ Chained(pipe[s], m, n)
                                    /\ InHandFrom(s, n)
    BY <1>1 DEF AccountInv
  <2>2. position[s] = n
    BY <2>1 DEF InHandFrom
  <2>3. InHandFrom(s, n)'
    BY <1>2, <2>2 DEF InHandFrom
  <2>4. QED BY <1>1, <1>2, <2>1, <2>3 DEF AccountInv
<1>7. QED BY <1>2, <1>3, <1>4, <1>5, <1>6, StreamMoved

LEMMA TakesHolds ==
    ASSUME CanvasInv, NEW s \in Streams,
           Canvas!SeeExpiry(s) \/ Canvas!NextFrame(s) \/ Canvas!FallBehind(s)
    PROVE  CanvasInv'
<1>1. /\ position \in [Streams -> Nat] /\ position[s] \in Nat /\ frames \in Nat /\ CanvasCapacity \in Nat
      /\ position[s] <= frames
  BY CanvasAssumption DEF CanvasInv, CanvasTypes, StreamInv
<1>2. CASE Canvas!SeeExpiry(s)
  <2>1. /\ stream[s] = "selecting" /\ reaped
        /\ holds' = [holds EXCEPT ![s] = EndItem] /\ stream' = [stream EXCEPT ![s] = "ending"]
        /\ UNCHANGED <<now, open, frames, janitor, reaped, canvas_joined, position, pipe, told>>
    BY <1>2 DEF Canvas!SeeExpiry, Canvas!Hold, Canvas!End, EndItem, Canvas!sessionVars
  <2>2. position' = [position EXCEPT ![s] = position[s]]
    BY <1>1, <2>1
  <2>3. EndItem \in Items /\ EndItem.kind = "end" /\ Amount(EndItem) = 0
    BY ItemsAreItems DEF Items, EndItem
  <2>4. position[s] = position[s] + Amount(EndItem)
    BY <1>1, <2>3
  <2>5. QED BY <1>1, <2>1, <2>2, <2>3, <2>4, TakesInHand
<1>3. CASE Canvas!NextFrame(s)
  <2>1. PICK p, x : p = position[s] + 1 /\ x = [kind |-> "canvas", frame |-> p]
    OBVIOUS
  <2>2. /\ stream[s] = "selecting" /\ frames - position[s] \in 1 .. CanvasCapacity
        /\ position' = [position EXCEPT ![s] = p] /\ position'[s] = p
        /\ holds' = [holds EXCEPT ![s] = x] /\ stream' = [stream EXCEPT ![s] = "sending"]
        /\ UNCHANGED <<now, open, frames, janitor, reaped, canvas_joined, pipe, told>>
    BY <1>1, <1>3, <2>1 DEF Canvas!NextFrame, Canvas!Hold, Canvas!Frame, Canvas!Backlog, Canvas!sessionVars
  <2>3. p \in Nat /\ p <= frames
    BY <1>1, <2>1, <2>2
  <2>4. x \in Items /\ x.kind = "canvas" /\ x.frame = p /\ Amount(x) = 1 /\ x # EndItem
    BY <2>1, <2>3, ItemsAreItems DEF Items, EndItem
  <2>5. p = position[s] + Amount(x)
    BY <2>1, <2>4
  <2>6. QED BY <2>2, <2>3, <2>4, <2>5, TakesInHand
<1>4. CASE Canvas!FallBehind(s)
  <2>1. PICK p, n, x : /\ p = frames - CanvasCapacity /\ n = frames - position[s] - CanvasCapacity
                       /\ x = [kind |-> "lag", frame |-> n]
    OBVIOUS
  <2>2. /\ stream[s] = "selecting" /\ frames - position[s] > CanvasCapacity
        /\ position' = [position EXCEPT ![s] = p]
        /\ holds' = [holds EXCEPT ![s] = x] /\ stream' = [stream EXCEPT ![s] = "sending"]
        /\ UNCHANGED <<now, open, frames, janitor, reaped, canvas_joined, pipe, told>>
    BY <1>1, <1>4, <2>1 DEF Canvas!FallBehind, Canvas!Hold, Canvas!Lag, Canvas!Backlog, Canvas!sessionVars
  <2>3. p \in Nat /\ p <= frames /\ n \in Nat /\ p = position[s] + n
    BY <1>1, <2>1, <2>2
  <2>4. x \in Items /\ x.kind = "lag" /\ Amount(x) = n /\ x # EndItem
    BY <2>1, <2>3, ItemsAreItems DEF Items, EndItem
  <2>5. QED BY <2>2, <2>3, <2>4, TakesInHand
<1>5. QED BY <1>2, <1>3, <1>4

LEMMA SendHolds ==
    ASSUME CanvasInv, NEW s \in Streams, Canvas!SendToClient(s)
    PROVE  CanvasInv'
<1>1. /\ stream[s] \in {"sending", "ending"} /\ Len(pipe[s]) < CanvasCapacity
      /\ pipe' = [pipe EXCEPT ![s] = Append(pipe[s], holds[s])]
      /\ stream' = [stream EXCEPT ![s] = IF stream[s] = "ending" THEN "ended" ELSE "selecting"]
      /\ UNCHANGED <<now, open, frames, janitor, reaped, canvas_joined, position, holds, told>>
  BY DEF Canvas!SendToClient, Canvas!sessionVars
<1>2. CanvasTypes /\ StreamInv(s) /\ EndInv(s) /\ AccountInv(s)
  BY DEF CanvasInv
<1>3. PICK p, x, d : p = pipe[s] /\ x = holds[s] /\ d = Append(p, x)
  OBVIOUS
<1>4. p \in Seq(Items) /\ x \in Items /\ position[s] \in Nat /\ CanvasCapacity \in Nat
  BY <1>2, <1>3, CanvasAssumption DEF CanvasTypes
<1>5. /\ d \in Seq(Items) /\ Len(d) = Len(p) + 1 /\ Len(p) \in Nat /\ DOMAIN d = 1 .. Len(p) + 1
      /\ DOMAIN p = 1 .. Len(p) /\ d[Len(p) + 1] = x /\ \A i \in DOMAIN p : d[i] = p[i]
  BY <1>3, <1>4, Appended
<1>6. /\ pipe'[s] = d /\ stream'[s] = (IF stream[s] = "ending" THEN "ended" ELSE "selecting")
      /\ \A u \in Streams : u # s => stream'[u] = stream[u] /\ pipe'[u] = pipe[u]
      /\ told'[s] = told[s] /\ position'[s] = position[s] /\ canvas_joined'[s] = canvas_joined[s]
  BY <1>1, <1>2, <1>3 DEF CanvasTypes
<1>7. CanvasTypes'
  <2>1. pipe' \in [Streams -> Seq(Items)]
    BY <1>1, <1>2, <1>3, <1>5 DEF CanvasTypes
  <2>2. stream' \in [Streams -> {"none", "selecting", "sending", "ending", "ended", "left"}]
    BY <1>1, <1>2 DEF CanvasTypes
  <2>3. QED BY <1>1, <1>2, <2>1, <2>2 DEF CanvasTypes
<1>8. StreamInv(s)'
  <2>1. Len(d) <= CanvasCapacity
    BY <1>1, <1>3, <1>4, <1>5
  <2>2. QED BY <1>1, <1>2, <1>6, <2>1 DEF StreamInv
<1>9. EndInv(s)'
  <2>1. /\ \A i \in DOMAIN told[s] : told[s][i] # EndItem
        /\ \A i \in DOMAIN p : p[i] # EndItem
    BY <1>1, <1>2, <1>3 DEF EndInv
  <2>2. x = EndItem => stream[s] = "ending" /\ reaped
    BY <1>1, <1>2, <1>3 DEF StreamInv
  <2>3. \A i \in DOMAIN d : i \in DOMAIN p \/ i = Len(d)
    BY <1>5
  <2>4. \A i \in DOMAIN d : d[i] = EndItem => i = Len(d) /\ stream[s] = "ending" /\ reaped
    BY <1>5, <2>1, <2>2, <2>3
  <2>5. QED BY <1>1, <1>6, <2>1, <2>4 DEF EndInv
<1>10. AccountInv(s)'
  <2>1. PICK m \in Nat, n \in Nat : /\ Counted(told[s], canvas_joined[s], m) /\ Chained(p, m, n)
                                    /\ InHandFrom(s, n)
    BY <1>1, <1>2, <1>3 DEF AccountInv
  <2>2. position[s] = n + Amount(x) /\ (x.kind = "canvas" => x.frame = position[s])
    BY <1>1, <1>3, <2>1 DEF InHandFrom
  <2>3. Chained(d, m, position[s])
    BY <1>3, <1>4, <2>1, <2>2, SendsOne
  <2>4. InHandFrom(s, position[s])'
    BY <1>6 DEF InHandFrom
  <2>5. QED BY <1>2, <1>4, <1>6, <2>1, <2>3, <2>4 DEF AccountInv
<1>11. QED BY <1>1, <1>6, <1>7, <1>8, <1>9, <1>10, StreamMoved

LEMMA ReadHolds ==
    ASSUME CanvasInv, NEW s \in Streams, Canvas!ClientReads(s)
    PROVE  CanvasInv'
<1>1. /\ stream[s] # "left" /\ pipe[s] # <<>>
      /\ pipe' = [pipe EXCEPT ![s] = Tail(pipe[s])]
      /\ told' = [told EXCEPT ![s] = Append(told[s], Head(pipe[s]))]
      /\ UNCHANGED <<now, open, frames, janitor, reaped, stream, canvas_joined, position, holds>>
  BY DEF Canvas!ClientReads, Canvas!sessionVars
<1>2. CanvasTypes /\ StreamInv(s) /\ EndInv(s) /\ AccountInv(s) /\ stream[s] # "none"
  BY <1>1 DEF CanvasInv, StreamInv
<1>3. PICK p, q, r, d : p = pipe[s] /\ q = told[s] /\ r = Tail(p) /\ d = Append(q, Head(p))
  OBVIOUS
<1>4. p \in Seq(Items) /\ q \in Seq(Items) /\ p # <<>> /\ canvas_joined[s] \in Nat
  BY <1>1, <1>2, <1>3 DEF CanvasTypes
<1>5. /\ r \in Seq(Items) /\ Head(p) \in Items /\ Len(r) = Len(p) - 1 /\ Len(p) \in Nat /\ Head(p) = p[1]
      /\ 1 \in DOMAIN p /\ \A i \in DOMAIN r : i + 1 \in DOMAIN p /\ r[i] = p[i + 1]
  BY <1>3, <1>4, Taken
<1>6. /\ d \in Seq(Items) /\ Len(d) = Len(q) + 1 /\ Len(q) \in Nat /\ DOMAIN d = 1 .. Len(q) + 1
      /\ DOMAIN q = 1 .. Len(q) /\ d[Len(q) + 1] = Head(p) /\ \A i \in DOMAIN q : d[i] = q[i]
  BY <1>3, <1>4, <1>5, Appended
<1>7. /\ pipe'[s] = r /\ told'[s] = d
      /\ \A u \in Streams : u # s => told'[u] = told[u] /\ pipe'[u] = pipe[u]
  BY <1>1, <1>2, <1>3 DEF CanvasTypes
<1>8. CanvasTypes'
  <2>1. pipe' \in [Streams -> Seq(Items)] /\ told' \in [Streams -> Seq(Items)]
    BY <1>1, <1>2, <1>3, <1>5, <1>6 DEF CanvasTypes
  <2>2. QED BY <1>1, <1>2, <2>1 DEF CanvasTypes
<1>9. StreamInv(s)'
  <2>1. Len(r) <= CanvasCapacity
    BY <1>2, <1>3, <1>5, CanvasAssumption DEF StreamInv
  <2>2. QED BY <1>1, <1>2, <1>7, <2>1 DEF StreamInv
<1>10. EndInv(s)'
  <2>1. \A i \in DOMAIN q : q[i] # EndItem
    BY <1>1, <1>2, <1>3 DEF EndInv
  <2>2. \A i \in DOMAIN p : p[i] = EndItem => i = Len(p) /\ stream[s] = "ended" /\ reaped
    BY <1>2, <1>3 DEF EndInv
  <2>3. Head(p) = EndItem => r = <<>> /\ stream[s] = "ended" /\ reaped
    <3>1. Head(p) = EndItem => Len(p) = 1 /\ stream[s] = "ended" /\ reaped
      BY <1>5, <2>2
    <3>2. Len(p) = 1 => Len(r) = 0
      BY <1>5
    <3>3. Len(r) = 0 => r = <<>>
      BY <1>5
    <3>4. QED BY <3>1, <3>2, <3>3
  <2>4. \A i \in DOMAIN d : i \in DOMAIN q \/ i = Len(d)
    BY <1>6
  <2>5. \A i \in DOMAIN d : d[i] = EndItem =>
            i = Len(d) /\ r = <<>> /\ stream[s] \in {"ended", "left"} /\ reaped
    BY <1>6, <2>1, <2>3, <2>4
  <2>6. \A i \in DOMAIN r : r[i] = EndItem => i = Len(r) /\ stream[s] = "ended" /\ reaped
    <3>1. \A i \in DOMAIN r : i \in Nat /\ (i + 1 = Len(p) => i = Len(r))
      BY <1>5
    <3>2. QED BY <1>5, <2>2, <3>1
  <2>7. QED BY <1>1, <1>7, <2>5, <2>6 DEF EndInv
<1>11. AccountInv(s)'
  <2>1. PICK m \in Nat, n \in Nat : /\ Counted(q, canvas_joined[s], m) /\ Chained(p, m, n)
                                    /\ InHandFrom(s, n)
    BY <1>1, <1>2, <1>3 DEF AccountInv
  <2>2. PICK k \in Nat : Counted(d, canvas_joined[s], k) /\ Chained(r, k, n)
    BY <1>3, <1>4, <2>1, ReadsOne
  <2>3. InHandFrom(s, n)'
    BY <1>1, <2>1 DEF InHandFrom
  <2>4. \A i \in DOMAIN d : d[i].kind = "canvas" => d[i].frame = canvas_joined[s] + Sum(d, i)
    BY <2>2 DEF Counted
  <2>5. canvas_joined' = canvas_joined
    BY <1>1
  <2>6. QED BY <1>7, <2>2, <2>3, <2>4, <2>5 DEF AccountInv
<1>12. QED BY <1>1, <1>7, <1>8, <1>9, <1>10, <1>11, StreamMoved

LEMMA LeaveHolds ==
    ASSUME CanvasInv, NEW s \in Streams, Canvas!ClientLeaves(s)
    PROVE  CanvasInv'
<1>1. /\ stream' = [stream EXCEPT ![s] = "left"]
      /\ pipe' = [pipe EXCEPT ![s] = <<>>]
      /\ UNCHANGED <<now, open, frames, janitor, reaped, canvas_joined, position, holds, told>>
  BY DEF Canvas!ClientLeaves, Canvas!sessionVars
<1>2. CanvasTypes /\ StreamInv(s) /\ EndInv(s) /\ AccountInv(s)
  BY DEF CanvasInv
<1>3. /\ stream'[s] = "left" /\ pipe'[s] = <<>> /\ told'[s] = told[s] /\ position'[s] = position[s]
      /\ \A u \in Streams : u # s => stream'[u] = stream[u] /\ pipe'[u] = pipe[u]
  BY <1>1, <1>2 DEF CanvasTypes
<1>4. CanvasTypes'
  BY <1>1, <1>2 DEF CanvasTypes
<1>5. DOMAIN pipe'[s] = {} /\ Len(pipe'[s]) = 0
  BY <1>3
<1>6. StreamInv(s)'
  BY <1>1, <1>2, <1>3, <1>5, CanvasAssumption DEF StreamInv
<1>7. EndInv(s)'
  BY <1>1, <1>2, <1>3, <1>5 DEF EndInv
<1>8. AccountInv(s)'
  BY <1>1, <1>2, <1>3 DEF AccountInv
<1>9. QED BY <1>1, <1>3, <1>4, <1>6, <1>7, <1>8, StreamMoved

LEMMA CanvasSteps ==
    ASSUME CanvasInv, Canvas!Next
    PROVE  CanvasInv'
BY CanvasSessionHolds, OpenStreamHolds, TakesHolds, SendHolds, ReadHolds, LeaveHolds DEF Canvas!Next

LEMMA CanvasIsSafe ==
    ASSUME CanvasInv
    PROVE  Canvas!TypeOK /\ Canvas!StreamsAccount /\ Canvas!EndIsTheEnd
<1>1. Canvas!TypeOK
  <2>1. \A s \in Streams : position[s] \in 0 .. frames /\ Len(pipe[s]) <= CanvasCapacity
    BY CanvasAssumption DEF CanvasInv, CanvasTypes, StreamInv
  <2>2. QED BY <2>1 DEF CanvasInv, CanvasTypes, Canvas!TypeOK
<1>2. Canvas!StreamsAccount
  BY DEF CanvasInv, AccountInv, Sum, Canvas!StreamsAccount
<1>3. ASSUME NEW s \in Streams, Canvas!End \in Canvas!ToSet(told[s])
      PROVE  ~open /\ Canvas!Last(told[s]) = Canvas!End /\ pipe[s] = <<>>
  <2>1. PICK i \in DOMAIN told[s] : told[s][i] = EndItem
    BY <1>3 DEF Canvas!ToSet, Canvas!End, EndItem
  <2>2. i = Len(told[s]) /\ pipe[s] = <<>> /\ reaped
    BY <2>1 DEF CanvasInv, EndInv
  <2>3. Canvas!Last(told[s]) = EndItem
    BY <2>1, <2>2 DEF Canvas!Last
  <2>4. QED BY <2>2, <2>3 DEF CanvasInv, Canvas!End, EndItem
<1>4. QED BY <1>1, <1>2, <1>3 DEF Canvas!EndIsTheEnd

-----------------------------------------------------------------------------
(* Rate limits.  What was admitted since any admission, and what is still  *)
(* there, were filled in since.                                            *)

BucketKeys == Senders \cup {Group}
Rate(k) == IF k = Group THEN GroupPerMin ELSE SenderPerMin
Burst(k) == Rate(k) * Minute

\* What a map of buckets holds for a key at a time.
Level(b, k, t) ==
    IF k \notin DOMAIN b THEN Burst(k)
    ELSE IF b[k].tokens + (t - b[k].last_refill) * Rate(k) <= Burst(k)
         THEN b[k].tokens + (t - b[k].last_refill) * Rate(k) ELSE Burst(k)

Buckets(b, t) ==
    /\ DOMAIN b \subseteq BucketKeys
    /\ \A k \in DOMAIN b : b[k].tokens \in 0 .. Burst(k) /\ b[k].last_refill \in 0 .. t

\* What was admitted since any admission, and what is still there, were filled in.
SpentInv ==
    \A k \in BucketKeys :
        /\ taken[k] \in Seq(Nat)
        /\ \A i \in DOMAIN taken[k] :
              (Len(taken[k]) - i + 1) * Minute + Level(state, k, time)
                 <= Burst(k) + (time - taken[k][i]) * Rate(k)

Windows ==
    \A k \in BucketKeys : \A i, j \in DOMAIN taken[k] :
        i <= j => (j - i + 1) * Minute <= Burst(k) + (taken[k][j] - taken[k][i]) * Rate(k)

BucketInv ==
    /\ time \in 0 .. BucketTime
    /\ Buckets(state, time) /\ Buckets(unswept, time)
    /\ \A k \in BucketKeys : Level(state, k, time) = Level(unswept, k, time)
    /\ SpentInv /\ Windows

LEMMA RatesAreNumbers ==
    ASSUME NEW k
    PROVE  Rate(k) \in Nat /\ Minute \in Nat /\ Minute >= 1 /\ Burst(k) \in Nat
<1>1. Rate(k) \in Nat /\ Minute \in Nat /\ Minute >= 1
  BY BucketAssumption DEF Rate
<1>2. QED BY <1>1 DEF Burst

LEMMA LevelIsRefilled ==
    ASSUME NEW b, NEW k, NEW t \in Nat, Buckets(b, t), time = t
    PROVE  Bucket!Refilled(b, k) = Level(b, k, t)
<1>1. Bucket!PerMin(k) = Rate(k) /\ Bucket!PerMinute(k) = Burst(k)
  BY DEF Bucket!PerMin, Bucket!PerMinute, Rate, Burst
<1>2. CASE k \notin DOMAIN b
  BY <1>1, <1>2 DEF Bucket!Refilled, Level
<1>3. CASE k \in DOMAIN b
  <2>1. PICK sum : sum = b[k].tokens + (t - b[k].last_refill) * Rate(k)
    OBVIOUS
  <2>2. sum \in Int /\ Burst(k) \in Int
    <3>1. b[k].tokens \in Int /\ t - b[k].last_refill \in Int /\ Rate(k) \in Int /\ Burst(k) \in Int
      BY <1>3, RatesAreNumbers DEF Buckets
    <3>2. QED BY <2>1, <3>1
  <2>3. Bucket!Refilled(b, k) = Bucket!Min({sum, Burst(k)})
    BY <1>1, <1>3, <2>1 DEF Bucket!Refilled
  <2>4. Bucket!Min({sum, Burst(k)}) = IF sum <= Burst(k) THEN sum ELSE Burst(k)
    BY <2>2 DEF Bucket!Min
  <2>5. QED BY <1>3, <2>1, <2>3, <2>4 DEF Level
<1>4. QED BY <1>2, <1>3

LEMMA LevelIsBounded ==
    ASSUME NEW b, NEW k, NEW t \in Nat, Buckets(b, t)
    PROVE  Level(b, k, t) \in 0 .. Burst(k)
<1>1. CASE k \notin DOMAIN b
  BY <1>1, RatesAreNumbers DEF Level
<1>2. CASE k \in DOMAIN b
  <2>1. PICK x, y : x = b[k].tokens /\ y = t - b[k].last_refill
    OBVIOUS
  <2>2. x \in Nat /\ y \in Nat /\ Rate(k) \in Nat /\ Burst(k) \in Nat
    BY <1>2, <2>1, RatesAreNumbers DEF Buckets
  <2>3. PICK z : z = y * Rate(k)
    OBVIOUS
  <2>4. z \in Nat
    BY <2>2, <2>3
  <2>5. Level(b, k, t) = IF x + z <= Burst(k) THEN x + z ELSE Burst(k)
    BY <1>2, <2>1, <2>3 DEF Level
  <2>6. QED BY <2>2, <2>4, <2>5
<1>3. QED BY <1>1, <1>2

\* A tick gives a bucket its rate, as far as there is room.
LEMMA LevelGrows ==
    ASSUME NEW b, NEW k, NEW t \in Nat, Buckets(b, t)
    PROVE  /\ Buckets(b, t + 1)
           /\ Level(b, k, t + 1) = IF Level(b, k, t) + Rate(k) <= Burst(k)
                                   THEN Level(b, k, t) + Rate(k) ELSE Burst(k)
<1>1. Buckets(b, t + 1)
  BY DEF Buckets
<1>2. Rate(k) \in Nat /\ Burst(k) \in Nat
  BY RatesAreNumbers
<1>3. CASE k \notin DOMAIN b
  <2>1. Level(b, k, t) = Burst(k) /\ Level(b, k, t + 1) = Burst(k)
    BY <1>3 DEF Level
  <2>2. QED BY <1>1, <1>2, <2>1
<1>4. CASE k \in DOMAIN b
  <2>1. PICK x, r : x = b[k].tokens /\ r = b[k].last_refill
    OBVIOUS
  <2>2. x \in Nat /\ r \in Nat /\ r <= t
    BY <1>4, <2>1 DEF Buckets
  <2>3. PICK z : z = (t - r) * Rate(k)
    OBVIOUS
  <2>4. z \in Int /\ (t + 1 - r) * Rate(k) = z + Rate(k)
    BY <1>2, <2>2, <2>3
  <2>5. Level(b, k, t) = IF x + z <= Burst(k) THEN x + z ELSE Burst(k)
    BY <1>4, <2>1, <2>3 DEF Level
  <2>6. Level(b, k, t + 1) = IF x + (z + Rate(k)) <= Burst(k) THEN x + (z + Rate(k)) ELSE Burst(k)
    <3>1. PICK u : u = t + 1
      OBVIOUS
    <3>2. PICK y : y = (u - r) * Rate(k)
      OBVIOUS
    <3>3. Level(b, k, u) = IF x + y <= Burst(k) THEN x + y ELSE Burst(k)
      BY <1>4, <2>1, <3>2 DEF Level
    <3>4. y = z + Rate(k)
      <4>1. PICK w : w = Rate(k)
        OBVIOUS
      <4>2. (u - r) * w = (t - r) * w + w
        BY <1>2, <2>2, <3>1, <4>1
      <4>3. QED BY <2>3, <3>2, <4>1, <4>2
    <3>5. QED BY <3>1, <3>3, <3>4
  <2>7. QED BY <1>1, <1>2, <2>2, <2>4, <2>5, <2>6
<1>5. QED BY <1>1, <1>3, <1>4

LEMMA BucketStarts ==
    ASSUME Bucket!Init
    PROVE  BucketInv
<1>1. /\ time = 0 /\ DOMAIN state = {} /\ DOMAIN unswept = {}
      /\ taken = [k \in BucketKeys |-> <<>>]
  BY DEF Bucket!Init, Bucket!NoBuckets, Bucket!Keys, BucketKeys
<1>2. /\ Buckets(state, time) /\ Buckets(unswept, time)
      /\ \A k \in BucketKeys : Level(state, k, time) = Level(unswept, k, time)
  BY <1>1 DEF Buckets, Level
<1>3. \A k \in BucketKeys : taken[k] \in Seq(Nat) /\ DOMAIN taken[k] = {}
  BY <1>1
<1>4. SpentInv /\ Windows
  BY <1>3 DEF SpentInv, Windows
<1>5. QED BY <1>1, <1>2, <1>4, BucketAssumption DEF BucketInv

LEMMA BucketTickHolds ==
    ASSUME BucketInv, Bucket!ClockTicks
    PROVE  BucketInv'
<1>1. time' = time + 1 /\ time < BucketTime /\ UNCHANGED <<state, unswept, taken>>
  BY DEF Bucket!ClockTicks
<1>2. /\ time \in 0 .. BucketTime /\ time \in Nat
      /\ Buckets(state, time) /\ Buckets(unswept, time) /\ SpentInv /\ Windows
      /\ \A k \in BucketKeys : Level(state, k, time) = Level(unswept, k, time)
  BY DEF BucketInv
<1>3. time' \in 0 .. BucketTime
  BY <1>1, <1>2, BucketAssumption
<1>4. Buckets(state', time') /\ Buckets(unswept', time')
  BY <1>1, <1>2, LevelGrows
<1>5. ASSUME NEW k \in BucketKeys
      PROVE  /\ Level(state', k, time') = Level(unswept', k, time')
             /\ Level(state', k, time') \in Int /\ Level(state, k, time) \in Int
             /\ Level(state', k, time') <= Level(state, k, time) + Rate(k)
  <2>1. /\ Level(state, k, time + 1) = IF Level(state, k, time) + Rate(k) <= Burst(k)
                                       THEN Level(state, k, time) + Rate(k) ELSE Burst(k)
        /\ Level(unswept, k, time + 1) = IF Level(unswept, k, time) + Rate(k) <= Burst(k)
                                         THEN Level(unswept, k, time) + Rate(k) ELSE Burst(k)
    BY <1>2, LevelGrows
  <2>2. Level(state, k, time) \in 0 .. Burst(k) /\ Rate(k) \in Nat /\ Burst(k) \in Nat
    BY <1>2, LevelIsBounded, RatesAreNumbers
  <2>3. QED BY <1>1, <1>2, <2>1, <2>2
<1>6. ASSUME NEW k \in BucketKeys
      PROVE  /\ taken[k] \in Seq(Nat)
             /\ \A i \in DOMAIN taken[k] :
                   (Len(taken[k]) - i + 1) * Minute + Level(state', k, time')
                      <= Burst(k) + (time' - taken[k][i]) * Rate(k)
  <2>1. /\ taken[k] \in Seq(Nat) /\ DOMAIN taken[k] = 1 .. Len(taken[k]) /\ Len(taken[k]) \in Nat
        /\ \A i \in DOMAIN taken[k] :
              (Len(taken[k]) - i + 1) * Minute + Level(state, k, time)
                 <= Burst(k) + (time - taken[k][i]) * Rate(k)
    BY <1>2 DEF SpentInv
  <2>3. ASSUME NEW i \in DOMAIN taken[k]
        PROVE  (Len(taken[k]) - i + 1) * Minute + Level(state', k, time')
                  <= Burst(k) + (time' - taken[k][i]) * Rate(k)
    <3>1. PICK spent, before_, after_ : /\ spent = (Len(taken[k]) - i + 1) * Minute
                            /\ before_ = (time - taken[k][i]) * Rate(k)
                            /\ after_ = (time' - taken[k][i]) * Rate(k)
      OBVIOUS
    <3>2. taken[k][i] \in Nat /\ i \in Int
      <4>1. i \in 1 .. Len(taken[k])
        BY <2>1
      <4>2. QED BY <2>1, <4>1
    <3>3. Rate(k) \in Nat /\ Minute \in Nat /\ Burst(k) \in Nat
      BY RatesAreNumbers
    <3>4. spent \in Int /\ before_ \in Int /\ after_ = before_ + Rate(k)
      <4>1. PICK n, v : n = Len(taken[k]) /\ v = taken[k][i]
        OBVIOUS
      <4>2. n \in Nat /\ v \in Nat
        BY <2>1, <3>2, <4>1
      <4>3. (n - i + 1) * Minute \in Int
        BY <3>2, <3>3, <4>2
      <4>4. PICK u, w : u = time' /\ w = Rate(k)
        OBVIOUS
      <4>5. u = time + 1 /\ w \in Nat
        BY <1>1, <3>3, <4>4
      <4>6. (u - v) * w = (time - v) * w + w /\ (time - v) * w \in Int
        BY <1>2, <4>2, <4>5
      <4>7. after_ = (u - v) * w /\ before_ = (time - v) * w
        BY <3>1, <4>1, <4>4
      <4>8. QED BY <3>1, <4>1, <4>3, <4>4, <4>6, <4>7
    <3>5. spent + Level(state, k, time) <= Burst(k) + before_
      BY <2>1, <3>1
    <3>6. spent + Level(state', k, time') <= Burst(k) + after_
      BY <1>5, <3>3, <3>4, <3>5
    <3>7. QED BY <3>1, <3>6
  <2>4. QED BY <2>1, <2>3
<1>7. SpentInv'
  BY <1>1, <1>6 DEF SpentInv
<1>8. Windows'
  BY <1>1, <1>2 DEF Windows
<1>9. QED BY <1>3, <1>4, <1>5, <1>7, <1>8 DEF BucketInv

\* A bucket that is stale is full.
LEMMA SweepHolds ==
    ASSUME BucketInv, Bucket!SweepStale
    PROVE  BucketInv'
<1>1. /\ state' = [k \in {j \in DOMAIN state : ~(state[j].last_refill < time - StaleAfter)} |-> state[k]]
      /\ UNCHANGED <<time, unswept, taken>>
  BY DEF Bucket!SweepStale, Bucket!Stale
<1>2. /\ time \in Nat
      /\ Buckets(state, time) /\ Buckets(unswept, time) /\ SpentInv /\ Windows
      /\ \A k \in BucketKeys : Level(state, k, time) = Level(unswept, k, time)
  BY DEF BucketInv
<1>3. Buckets(state', time)
  BY <1>1, <1>2 DEF Buckets
<1>4. ASSUME NEW k \in BucketKeys PROVE Level(state', k, time) = Level(state, k, time)
  <2>1. CASE k \in DOMAIN state /\ state[k].last_refill < time - StaleAfter
    <3>1. PICK x, r : x = state[k].tokens /\ r = state[k].last_refill
      OBVIOUS
    <3>2. x \in Nat /\ r \in Nat /\ r <= time /\ time - r > StaleAfter
      BY <1>2, <2>1, <3>1, BucketAssumption DEF Buckets
    <3>3. time - r >= Minute /\ Rate(k) \in Nat /\ Minute \in Nat
      BY <1>2, <3>2, BucketAssumption, RatesAreNumbers
    <3>4. (time - r) * Rate(k) >= Rate(k) * Minute
      BY <1>2, <3>2, <3>3
    <3>5. PICK z : z = (time - r) * Rate(k)
      OBVIOUS
    <3>6. z \in Int /\ Burst(k) \in Nat /\ z >= Burst(k)
      BY <1>2, <3>2, <3>3, <3>4, <3>5, RatesAreNumbers DEF Burst
    <3>7. Level(state, k, time) = IF x + z <= Burst(k) THEN x + z ELSE Burst(k)
      BY <2>1, <3>1, <3>5 DEF Level
    <3>8. Level(state, k, time) = Burst(k)
      BY <3>2, <3>6, <3>7
    <3>9. k \notin DOMAIN state'
      BY <1>1, <2>1
    <3>10. QED BY <3>8, <3>9 DEF Level
  <2>2. CASE k \in DOMAIN state /\ ~(state[k].last_refill < time - StaleAfter)
    <3>1. k \in DOMAIN state' /\ state'[k] = state[k]
      BY <1>1, <2>2
    <3>2. QED BY <2>2, <3>1 DEF Level
  <2>3. CASE k \notin DOMAIN state
    <3>1. k \notin DOMAIN state'
      BY <1>1, <2>3
    <3>2. QED BY <2>3, <3>1 DEF Level
  <2>4. QED BY <2>1, <2>2, <2>3
<1>5. SpentInv'
  BY <1>1, <1>2, <1>4 DEF SpentInv
<1>6. Windows'
  BY <1>1, <1>2 DEF Windows
<1>7. QED BY <1>1, <1>2, <1>3, <1>4, <1>5, <1>6 DEF BucketInv

\* What check does to the buckets it looks at.
LEMMA CheckedLevels ==
    ASSUME NEW b, NEW t \in Nat, time = t, Buckets(b, t), NEW asked_ \in SUBSET BucketKeys
    PROVE  /\ Buckets(Bucket!Checked(b, asked_), t)
           /\ \A k \in BucketKeys :
                Level(Bucket!Checked(b, asked_), k, t) =
                    IF k \in asked_ /\ Level(b, k, t) >= Minute THEN Level(b, k, t) - Minute
                    ELSE Level(b, k, t)
<1>1. PICK q : q = Bucket!Checked(b, asked_)
  OBVIOUS
<1>2. /\ DOMAIN q = DOMAIN b \cup asked_
      /\ \A k \in DOMAIN b : k \notin asked_ => q[k] = b[k]
      /\ \A k \in asked_ : /\ q[k].tokens = Bucket!Refilled(b, k) - (IF Bucket!Allows(b, k) THEN Minute ELSE 0)
                           /\ q[k].last_refill = t
  BY <1>1 DEF Bucket!Checked
<1>3. \A k : Bucket!Refilled(b, k) = Level(b, k, t) /\ (Bucket!Allows(b, k) <=> Level(b, k, t) >= Minute)
  BY LevelIsRefilled DEF Bucket!Allows
<1>4. ASSUME NEW k \in asked_
      PROVE  /\ q[k].tokens = IF Level(b, k, t) >= Minute THEN Level(b, k, t) - Minute ELSE Level(b, k, t)
             /\ q[k].tokens \in 0 .. Burst(k) /\ q[k].last_refill = t
  <2>1. Level(b, k, t) \in 0 .. Burst(k) /\ Minute \in Nat /\ Burst(k) \in Nat
    BY LevelIsBounded, RatesAreNumbers
  <2>2. q[k].tokens = Level(b, k, t) - (IF Level(b, k, t) >= Minute THEN Minute ELSE 0)
    BY <1>2, <1>3
  <2>3. QED BY <1>2, <2>1, <2>2
<1>5. Buckets(q, t)
  <2>1. DOMAIN q \subseteq BucketKeys
    BY <1>2 DEF Buckets
  <2>2. ASSUME NEW k \in DOMAIN q PROVE q[k].tokens \in 0 .. Burst(k) /\ q[k].last_refill \in 0 .. t
    <3>1. CASE k \in asked_
      BY <1>4, <3>1
    <3>2. CASE k \notin asked_
      <4>1. k \in DOMAIN b /\ q[k] = b[k]
        BY <1>2, <3>2
      <4>2. QED BY <4>1 DEF Buckets
    <3>3. QED BY <3>1, <3>2
  <2>3. QED BY <2>1, <2>2 DEF Buckets
<1>6. ASSUME NEW k \in BucketKeys
      PROVE  Level(q, k, t) = IF k \in asked_ /\ Level(b, k, t) >= Minute THEN Level(b, k, t) - Minute
                              ELSE Level(b, k, t)
  <2>1. CASE k \in asked_
    <3>1. PICK x : x = q[k].tokens
      OBVIOUS
    <3>2. k \in DOMAIN q /\ q[k].last_refill = t /\ x \in 0 .. Burst(k) /\ Burst(k) \in Nat /\ Rate(k) \in Nat
      BY <1>2, <1>4, <2>1, <3>1, RatesAreNumbers
    <3>3. (t - t) * Rate(k) = 0
      BY <3>2
    <3>4. Level(q, k, t) = IF x + 0 <= Burst(k) THEN x + 0 ELSE Burst(k)
      BY <3>1, <3>2, <3>3 DEF Level
    <3>5. Level(q, k, t) = x
      BY <3>2, <3>4
    <3>6. QED BY <1>4, <2>1, <3>1, <3>5
  <2>2. CASE k \notin asked_
    <3>1. k \in DOMAIN q <=> k \in DOMAIN b
      BY <1>2, <2>2
    <3>2. k \in DOMAIN b => q[k] = b[k]
      BY <1>2, <2>2
    <3>3. QED BY <2>2, <3>1, <3>2 DEF Level
  <2>3. QED BY <2>1, <2>2
<1>7. QED BY <1>1, <1>5, <1>6

LEMMA DispatchHolds ==
    ASSUME BucketInv, NEW s \in Senders, Bucket!Dispatch(s)
    PROVE  BucketInv'
<1>1. PICK asked_ : asked_ = Bucket!Asked(state, s)
  OBVIOUS
<1>2. /\ time \in Nat
      /\ Buckets(state, time) /\ Buckets(unswept, time) /\ SpentInv /\ Windows
      /\ \A k \in BucketKeys : Level(state, k, time) = Level(unswept, k, time)
  BY DEF BucketInv
<1>3. /\ \A k : Bucket!Refilled(state, k) = Level(state, k, time)
      /\ \A k : Bucket!Refilled(unswept, k) = Level(unswept, k, time)
  BY <1>2, LevelIsRefilled
<1>4. /\ Group \in BucketKeys /\ s \in BucketKeys /\ asked_ \in SUBSET BucketKeys
      /\ Bucket!Asked(unswept, s) = asked_
  BY <1>1, <1>2, <1>3 DEF Bucket!Asked, Bucket!Allows, BucketKeys
<1>5. /\ state' = Bucket!Checked(state, asked_) /\ unswept' = Bucket!Checked(unswept, asked_)
      /\ time' = time
      /\ taken' = [k \in BucketKeys |->
                     IF k \in asked_ /\ Level(state, k, time) >= Minute THEN Append(taken[k], time)
                     ELSE taken[k]]
  BY <1>1, <1>3, <1>4 DEF Bucket!Dispatch, Bucket!Allows, Bucket!Keys, BucketKeys
<1>6. /\ Buckets(state', time) /\ Buckets(unswept', time)
      /\ \A k \in BucketKeys :
            /\ Level(state', k, time) = IF k \in asked_ /\ Level(state, k, time) >= Minute
                                        THEN Level(state, k, time) - Minute ELSE Level(state, k, time)
            /\ Level(unswept', k, time) = IF k \in asked_ /\ Level(unswept, k, time) >= Minute
                                        THEN Level(unswept, k, time) - Minute ELSE Level(unswept, k, time)
  BY <1>2, <1>4, <1>5, CheckedLevels
<1>7. \A k \in BucketKeys : Level(state', k, time) = Level(unswept', k, time)
  BY <1>2, <1>6
<1>8. ASSUME NEW k \in BucketKeys
      PROVE  /\ taken'[k] \in Seq(Nat)
             /\ \A i \in DOMAIN taken'[k] :
                   (Len(taken'[k]) - i + 1) * Minute + Level(state', k, time)
                      <= Burst(k) + (time - taken'[k][i]) * Rate(k)
             /\ \A i, j \in DOMAIN taken'[k] : i <= j =>
                   (j - i + 1) * Minute <= Burst(k) + (taken'[k][j] - taken'[k][i]) * Rate(k)
  <2>1. PICK n : n = Len(taken[k])
    OBVIOUS
  <2>2. /\ taken[k] \in Seq(Nat) /\ DOMAIN taken[k] = 1 .. n /\ n \in Nat
        /\ \A i \in 1 .. n :
              (n - i + 1) * Minute + Level(state, k, time) <= Burst(k) + (time - taken[k][i]) * Rate(k)
        /\ \A i, j \in 1 .. n : i <= j =>
              (j - i + 1) * Minute <= Burst(k) + (taken[k][j] - taken[k][i]) * Rate(k)
    <3>1. taken[k] \in Seq(Nat) /\ DOMAIN taken[k] = 1 .. n /\ n \in Nat
      BY <1>2, <2>1 DEF SpentInv
    <3>2. ASSUME NEW i \in 1 .. n
          PROVE  (n - i + 1) * Minute + Level(state, k, time) <= Burst(k) + (time - taken[k][i]) * Rate(k)
      BY <1>2, <2>1, <3>1 DEF SpentInv
    <3>3. ASSUME NEW i \in 1 .. n, NEW j \in 1 .. n, i <= j
          PROVE  (j - i + 1) * Minute <= Burst(k) + (taken[k][j] - taken[k][i]) * Rate(k)
      BY <1>2, <3>1, <3>3 DEF Windows
    <3>4. QED BY <3>1, <3>2, <3>3
  <2>3. CASE ~(k \in asked_ /\ Level(state, k, time) >= Minute)
    <3>1. taken'[k] = taken[k] /\ Level(state', k, time) = Level(state, k, time)
      BY <1>5, <1>6, <2>3
    <3>2. QED BY <2>1, <2>2, <3>1
  <2>4. CASE k \in asked_ /\ Level(state, k, time) >= Minute
    <3>1. PICK m, l : m = n + 1 /\ l = Level(state, k, time)
      OBVIOUS
    <3>2. taken'[k] = Append(taken[k], time) /\ Level(state', k, time) = l - Minute
      BY <1>5, <1>6, <2>4, <3>1
    <3>3. /\ l \in 0 .. Burst(k) /\ l >= Minute /\ Minute \in Nat /\ Burst(k) \in Nat /\ Rate(k) \in Nat
      BY <1>2, <2>4, <3>1, LevelIsBounded, RatesAreNumbers
    <3>4. /\ taken'[k] \in Seq(Nat) /\ Len(taken'[k]) = m /\ DOMAIN taken'[k] = 1 .. m
          /\ m \in Nat /\ m \in 1 .. m
          /\ taken'[k][m] = time /\ (\A i \in 1 .. n : taken'[k][i] = taken[k][i])
          /\ \A i \in 1 .. m : i = m \/ i \in 1 .. n
      BY <1>2, <2>1, <2>2, <3>1, <3>2
    <3>5. ASSUME NEW i \in 1 .. m
          PROVE  /\ (m - i + 1) * Minute + (l - Minute) <= Burst(k) + (time - taken'[k][i]) * Rate(k)
                 /\ (m - i + 1) * Minute <= Burst(k) + (time - taken'[k][i]) * Rate(k)
      <4>1. CASE i = m
        <5>1. (m - i + 1) * Minute = Minute /\ (time - taken'[k][i]) * Rate(k) = 0
          BY <1>2, <3>3, <3>4, <4>1
        <5>2. QED BY <3>3, <5>1
      <4>2. CASE i \in 1 .. n
        <5>1. PICK spent, refill : /\ spent = (n - i + 1) * Minute
                                   /\ refill = (time - taken[k][i]) * Rate(k)
          OBVIOUS
        <5>2. taken[k][i] \in Int /\ i \in Int /\ taken'[k][i] = taken[k][i]
          <6>1. taken'[k][i] = taken[k][i] /\ i \in Int
            BY <3>4, <4>2
          <6>2. i \in DOMAIN taken[k] /\ taken[k] \in Seq(Nat)
            BY <2>2, <4>2
          <6>3. taken[k][i] \in Nat
            BY <6>2
          <6>4. QED BY <6>1, <6>3
        <5>3. spent \in Int /\ refill \in Int /\ (m - i + 1) * Minute = spent + Minute
          BY <1>2, <2>2, <3>1, <3>3, <5>1, <5>2
        <5>4. spent + l <= Burst(k) + refill
          BY <2>2, <3>1, <4>2, <5>1
        <5>5. spent + Minute + (l - Minute) <= Burst(k) + refill /\ spent + Minute <= Burst(k) + refill
          BY <3>3, <5>3, <5>4
        <5>6. QED BY <5>1, <5>2, <5>3, <5>5
      <4>3. QED BY <3>4, <4>1, <4>2
    <3>6. ASSUME NEW i \in 1 .. m, NEW j \in 1 .. m, i <= j
          PROVE  (j - i + 1) * Minute <= Burst(k) + (taken'[k][j] - taken'[k][i]) * Rate(k)
      <4>1. CASE j = m
        BY <3>4, <3>5, <4>1
      <4>2. CASE j \in 1 .. n
        <5>1. i \in 1 .. n
          BY <2>2, <3>6, <4>2
        <5>2. QED BY <2>2, <3>4, <3>6, <4>2, <5>1
      <4>3. QED BY <3>4, <4>1, <4>2
    <3>7. QED BY <3>2, <3>4, <3>5, <3>6
  <2>5. QED BY <2>3, <2>4
<1>9. SpentInv' /\ Windows'
  BY <1>5, <1>8 DEF SpentInv, Windows
<1>10. QED BY <1>5, <1>6, <1>7, <1>9 DEF BucketInv

LEMMA BucketSteps ==
    ASSUME BucketInv, Bucket!Next
    PROVE  BucketInv'
BY BucketTickHolds, SweepHolds, DispatchHolds DEF Bucket!Next

LEMMA BucketIsSafe ==
    ASSUME BucketInv
    PROVE  Bucket!TypeOK /\ Bucket!SweepIsInvisible /\ Bucket!WindowBudget
<1>1. /\ time \in 0 .. BucketTime /\ time \in Nat
      /\ Buckets(state, time) /\ Buckets(unswept, time) /\ Windows
      /\ \A k \in BucketKeys : Level(state, k, time) = Level(unswept, k, time)
  BY DEF BucketInv
<1>2. /\ Bucket!Keys = BucketKeys
      /\ \A k : Bucket!PerMin(k) = Rate(k) /\ Bucket!PerMinute(k) = Burst(k)
  BY DEF Bucket!Keys, Bucket!PerMin, Bucket!PerMinute, Rate, Burst, BucketKeys
<1>3. Bucket!TypeOK
  BY <1>1, <1>2 DEF Bucket!TypeOK, Buckets
<1>4. Bucket!SweepIsInvisible
  BY <1>1, <1>2, LevelIsRefilled DEF Bucket!SweepIsInvisible
<1>5. Bucket!WindowBudget
  BY <1>1, <1>2 DEF Bucket!WindowBudget, Windows
<1>6. QED BY <1>3, <1>4, <1>5
=============================================================================
