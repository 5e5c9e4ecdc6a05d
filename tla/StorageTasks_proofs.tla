------------------------- MODULE StorageTasks_proofs -------------------------
(***************************************************************************)
(* What holds of the index cache, schema migrations, the rows of sessions, *)
(* personas, what users like and the knowledge base, for any number of     *)
(* clients, migrators, turns, writers, distillations and rebuilds.  Each   *)
(* has an inductive invariant of its own.                                  *)
(***************************************************************************)
EXTENDS BackgroundTasks, FiniteSetTheorems, WellFoundedInduction, SequenceTheorems, TLAPS

(* Sequences, seen as what they have.                                      *)

Within(s, x) == \E i \in DOMAIN s : s[i] = x

LEMMA AppendedTo ==
    ASSUME NEW S, NEW s \in Seq(S), NEW e \in S
    PROVE  /\ Append(s, e) \in Seq(S) /\ Len(Append(s, e)) = Len(s) + 1 /\ Len(s) \in Nat
           /\ DOMAIN s = 1 .. Len(s) /\ DOMAIN Append(s, e) = 1 .. Len(s) + 1
           /\ Append(s, e)[Len(s) + 1] = e
           /\ \A i \in DOMAIN s : i \in DOMAIN Append(s, e) /\ Append(s, e)[i] = s[i]
           /\ \A x : Within(Append(s, e), x) <=> Within(s, x) \/ x = e
<1> DEFINE t == Append(s, e)
<1>1. /\ t \in Seq(S) /\ Len(t) = Len(s) + 1 /\ Len(s) \in Nat
      /\ DOMAIN s = 1 .. Len(s) /\ DOMAIN t = 1 .. Len(s) + 1
      /\ t[Len(s) + 1] = e /\ \A i \in DOMAIN s : i \in DOMAIN t /\ t[i] = s[i]
  OBVIOUS
<1>2. DOMAIN t = DOMAIN s \cup {Len(s) + 1} /\ Len(s) + 1 \notin DOMAIN s
  BY <1>1
<1> HIDE DEF t
<1>3. \A x : Within(t, x) <=> Within(s, x) \/ x = e
  BY <1>1, <1>2 DEF Within
<1>4. QED BY <1>1, <1>3 DEF t

-----------------------------------------------------------------------------
(* The index cache.  A dirty instance has a task that was not told to stop *)
(* and a wake-up on its way; and one instance is alive, unless excused.    *)

Inst == 1 .. MaxInstances

IndexTypes ==
    /\ file \subseteq Clients /\ loaded \in 0 .. MaxInstances /\ entry \in 0 .. loaded
    /\ keys \in [Inst -> SUBSET Clients] /\ dirty \in [Inst -> BOOLEAN] /\ wake \in [Inst -> BOOLEAN]
    /\ saver \in [Inst ->
        {"none", "waiting", "debounce", "saving", "cancelled", "last", "ended"}]
    /\ client \in [Clients -> {"begin", "loaded", "got", "added", "waking", "done"}]
    /\ using \in [Clients -> 0 .. loaded] /\ marks \in [Clients -> 0 .. loaded]
    /\ sweeper \in {"idle", "listed", "removed", "flushing", "flushed"}
    /\ victim \in 0 .. loaded

\* What an instance is good for: the one in the map has a task that was not told to stop,
\* one that was only loaded has none yet and nobody else knows it.
PlaceInv ==
    /\ \A i \in Inst : i > loaded => saver[i] = "none"
    /\ entry # 0 => saver[entry] \in {"waiting", "debounce", "saving"}
    /\ sweeper \in {"removed", "flushing", "flushed"} <=> victim # 0
    /\ victim # 0 => saver[victim] # "none" /\ victim # entry
    /\ \A c \in Clients :
         /\ client[c] # "begin" => using[c] # 0
         /\ client[c] = "waking" => marks[c] # 0
         /\ client[c] = "loaded" => saver[using[c]] = "none"
         /\ client[c] = "added" => c \in keys[using[c]]
    /\ \A c, d \in Clients :
         client[c] = "loaded" /\ client[d] = "loaded" /\ using[c] = using[d] => c = d

Coming(i) ==
    \/ wake[i] \/ saver[i] \in {"debounce", "cancelled"}
    \/ \E c \in Clients : client[c] = "waking" /\ marks[c] = i

FlagInv ==
    \A i \in Inst : dirty[i] => saver[i] \notin {"none", "ended", "last"} /\ Coming(i)

AtWork(i) ==
    \/ saver[i] \notin {"none", "ended"} \/ i = victim
    \/ \E c \in Clients : client[c] = "loaded" /\ using[c] = i

KeyKept(c) ==
    \/ c \in file
    \/ \E i \in Inst : c \in keys[i] /\
        \/ dirty[i] \/ saver[i] \in {"saving", "last"}
        \/ i = victim /\ sweeper \in {"removed", "flushing"}

\* Unless excused, one instance is alive at most, it has all that the file has, and what was
\* marked is kept.
KeptInv ==
    ~excused =>
        /\ \A i, j \in Inst : AtWork(i) /\ AtWork(j) => i = j
        /\ \A i \in Inst : AtWork(i) => file \subseteq keys[i]
        /\ \A c \in Clients : client[c] \in {"waking", "done"} => KeyKept(c)

IndexInv == IndexTypes /\ PlaceInv /\ FlagInv /\ KeptInv

\* The numbers that are not 0 are those of instances that were loaded.
Placed ==
    /\ \A i \in Inst : i # 0 /\ (i > loaded <=> i \notin 0 .. loaded)
    /\ entry # 0 => entry \in Inst
    /\ victim # 0 => victim \in Inst
    /\ \A c \in Clients : client[c] # "begin" => using[c] \in Inst
    /\ \A c \in Clients : client[c] = "waking" => marks[c] \in Inst

LEMMA NumbersArePlaced ==
    ASSUME IndexTypes, PlaceInv
    PROVE  Placed
<1>1. MaxInstances \in Nat /\ loaded \in 0 .. MaxInstances
  BY IndexAssumption DEF IndexTypes
<1>2. \A n \in 0 .. loaded : n # 0 => n \in Inst
  BY <1>1 DEF Inst
<1>3. \A i \in Inst : i # 0 /\ (i > loaded <=> i \notin 0 .. loaded)
  BY <1>1 DEF Inst
<1>4. /\ entry \in 0 .. loaded /\ victim \in 0 .. loaded
      /\ using \in [Clients -> 0 .. loaded] /\ marks \in [Clients -> 0 .. loaded]
  BY DEF IndexTypes
<1>5. \A c \in Clients : using[c] \in 0 .. loaded /\ marks[c] \in 0 .. loaded
  BY <1>4
<1>6. QED BY <1>2, <1>3, <1>4, <1>5 DEF Placed, PlaceInv

LEMMA IndexStarts ==
    ASSUME Index!Init
    PROVE  IndexInv
<1>1. /\ file = {} /\ entry = 0 /\ loaded = 0
      /\ keys = [i \in Inst |-> {}] /\ dirty = [i \in Inst |-> FALSE]
      /\ wake = [i \in Inst |-> FALSE] /\ saver = [i \in Inst |-> "none"]
      /\ client = [c \in Clients |-> "begin"] /\ using = [c \in Clients |-> 0]
      /\ marks = [c \in Clients |-> 0]
      /\ sweeper = "idle" /\ victim = 0
  BY DEF Index!Init, Index!Instances, Inst
<1>2. IndexTypes
  BY <1>1, IndexAssumption DEF IndexTypes
<1>3. PlaceInv
  BY <1>1 DEF PlaceInv
<1>4. FlagInv
  BY <1>1 DEF FlagInv
<1>5. KeptInv
  <2>1. \A i \in Inst : i # 0 /\ ~AtWork(i)
    BY <1>1 DEF AtWork, Inst
  <2>2. QED BY <1>1, <2>1 DEF KeptInv
<1>6. QED BY <1>2, <1>3, <1>4, <1>5 DEF IndexInv

LEMMA GetCachedHolds ==
    ASSUME IndexInv, NEW c \in Clients, Index!GetCached(c)
    PROVE  IndexInv'
<1>1. /\ client[c] = "begin" /\ entry # 0
      /\ using' = [using EXCEPT ![c] = entry]
      /\ client' = [client EXCEPT ![c] = "got"]
      /\ excused' = excused
      /\ UNCHANGED <<file, entry, loaded, keys, dirty, wake, saver, marks, sweeper, victim>>
  BY DEF Index!GetCached, Index!indexVars, Index!clientVars, Index!sweepVars, Index!SaveNow, Index!Alive,
     Index!Instances, Inst
<1>2. IndexTypes /\ PlaceInv /\ FlagInv /\ KeptInv
  BY DEF IndexInv
<1>0. Placed
  BY <1>2, NumbersArePlaced
<1>3. /\ client'[c] = "got" /\ (\A d \in Clients : d # c => client'[d] = client[d])
      /\ client' \in [Clients -> {"begin", "loaded", "got", "added", "waking", "done"}]
  BY <1>1, <1>2 DEF IndexTypes
<1>4. using'[c] = entry /\ (\A d \in Clients : d # c => using'[d] = using[d])
      /\ using' \in [Clients -> 0 .. loaded]
  BY <1>1, <1>2 DEF IndexTypes
<1>5. IndexTypes'
  BY <1>0, <1>1, <1>2, <1>3, <1>4, IndexAssumption DEF IndexTypes
<1>6. PlaceInv'
  <2>1. \A j \in Inst : j > loaded' => saver'[j] = "none"
    BY <1>0, <1>1, <1>2, <1>3, <1>4 DEF PlaceInv, Placed
  <2>2. entry' # 0 => saver'[entry'] \in {"waiting", "debounce", "saving"}
    BY <1>0, <1>1, <1>2, <1>3, <1>4 DEF PlaceInv, Placed
  <2>3. /\ sweeper' \in {"removed", "flushing", "flushed"} <=> victim' # 0
        /\ victim' # 0 => saver'[victim'] # "none" /\ victim' # entry'
    BY <1>0, <1>1, <1>2, <1>3, <1>4 DEF PlaceInv, Placed
  <2>4. ASSUME NEW d \in Clients
        PROVE  /\ client'[d] # "begin" => using'[d] # 0
               /\ client'[d] = "waking" => marks'[d] # 0
    BY <1>0, <1>1, <1>2, <1>3, <1>4 DEF PlaceInv, Placed
  <2>5. ASSUME NEW d \in Clients, client'[d] = "loaded" PROVE saver'[using'[d]] = "none"
    BY <1>0, <1>1, <1>2, <1>3, <1>4, <2>5 DEF PlaceInv, Placed
  <2>6. ASSUME NEW d \in Clients, client'[d] = "added" PROVE d \in keys'[using'[d]]
    BY <1>0, <1>1, <1>2, <1>3, <1>4, <2>6 DEF PlaceInv, Placed
  <2>7. ASSUME NEW d \in Clients, NEW e \in Clients, client'[d] = "loaded", client'[e] = "loaded",
               using'[d] = using'[e]
        PROVE  d = e
    BY <1>0, <1>1, <1>2, <1>3, <1>4, <2>7 DEF PlaceInv, Placed
  <2>8. QED BY <2>1, <2>2, <2>3, <2>4, <2>5, <2>6, <2>7 DEF PlaceInv
<1>7. FlagInv'
  <2>1. \A j \in Inst : dirty'[j] => dirty[j] /\ saver'[j] \notin {"none", "ended", "last"}
    BY <1>0, <1>1, <1>2, <1>3, <1>4 DEF FlagInv
  <2>2. ASSUME NEW j \in Inst, dirty'[j] PROVE Coming(j)'
    BY <1>0, <1>1, <1>2, <1>3, <1>4, <2>1, <2>2 DEF FlagInv, Coming
  <2>3. QED BY <2>1, <2>2 DEF FlagInv
<1>8. KeptInv'
  <2> SUFFICES ASSUME ~excused' PROVE KeptInv'
    BY DEF KeptInv
  <2>1. \A j \in Inst : AtWork(j)' => AtWork(j)
    BY <1>0, <1>1, <1>2, <1>3, <1>4 DEF AtWork
  <2>2. \A d \in Clients : KeyKept(d) => KeyKept(d)'
    BY <1>0, <1>1, <1>2, <1>3, <1>4 DEF KeyKept
  <2>3. \A d \in Clients : client'[d] \in {"waking", "done"} => KeyKept(d)'
    BY <1>0, <1>1, <1>2, <1>3, <1>4, <2>2 DEF KeptInv
  <2>4. QED BY <1>1, <1>2, <1>3, <1>4, <2>1, <2>3 DEF KeptInv
<1>9. QED BY <1>5, <1>6, <1>7, <1>8 DEF IndexInv

LEMMA LoadHolds ==
    ASSUME IndexInv, NEW c \in Clients, Index!Load(c)
    PROVE  IndexInv'
<1>1. /\ client[c] = "begin" /\ entry = 0 /\ loaded < MaxInstances
      /\ loaded' = loaded + 1
      /\ keys' = [keys EXCEPT ![loaded + 1] = file]
      /\ using' = [using EXCEPT ![c] = loaded + 1]
      /\ client' = [client EXCEPT ![c] = "loaded"]
      /\ ~excused' => /\ ~excused /\ \A i \in Inst : saver[i] \in {"none", "ended"} /\ i # victim
                  /\ \A d \in Clients : client[d] # "loaded"
      /\ UNCHANGED <<file, entry, dirty, wake, saver, marks, sweeper, victim>>
  BY DEF Index!Load, Index!indexVars, Index!clientVars, Index!sweepVars, Index!SaveNow, Index!Alive,
     Index!Instances, Inst
<1>2. IndexTypes /\ PlaceInv /\ FlagInv /\ KeptInv
  BY DEF IndexInv
<1>0. Placed
  BY <1>2, NumbersArePlaced
<1>3. /\ client'[c] = "loaded" /\ (\A d \in Clients : d # c => client'[d] = client[d])
      /\ client' \in [Clients -> {"begin", "loaded", "got", "added", "waking", "done"}]
  BY <1>1, <1>2 DEF IndexTypes
<1>4. PICK n : n = loaded + 1
  OBVIOUS
<1>12. /\ loaded \in 0 .. MaxInstances /\ loaded < MaxInstances /\ MaxInstances \in Nat
  BY <1>1, <1>2, IndexAssumption DEF IndexTypes
<1>10. /\ n \in Inst /\ n > loaded /\ n # 0 /\ loaded \in Nat /\ loaded' = n
       /\ 0 .. loaded \subseteq 0 .. n /\ n \in 0 .. n /\ n \in 0 .. MaxInstances
       /\ \A i \in Inst : i > n => i > loaded
       /\ \A i \in 0 .. loaded : i # n
  <2>1. n \in Inst
    BY <1>4, <1>12 DEF Inst
  <2>2. \A i \in Inst : i > n => i > loaded
    BY <1>4, <1>12 DEF Inst
  <2>3. QED BY <1>1, <1>4, <1>12, <2>1, <2>2
<1>11. /\ using'[c] = n /\ (\A d \in Clients : d # c => using'[d] = using[d])
       /\ using' \in [Clients -> 0 .. n] /\ (\A d \in Clients : using[d] # n)
       /\ keys'[n] = file /\ (\A i \in Inst : i # n => keys'[i] = keys[i])
       /\ keys' \in [Inst -> SUBSET Clients] /\ saver[n] = "none" /\ victim # n
  BY <1>1, <1>2, <1>4, <1>10 DEF IndexTypes, PlaceInv
<1>5. IndexTypes'
  BY <1>1, <1>2, <1>3, <1>10, <1>11 DEF IndexTypes
<1>6. PlaceInv'
  <2>1. \A j \in Inst : j > loaded' => saver'[j] = "none"
    BY <1>0, <1>1, <1>2, <1>3, <1>4, <1>10, <1>11 DEF PlaceInv, Placed
  <2>2. entry' # 0 => saver'[entry'] \in {"waiting", "debounce", "saving"}
    BY <1>0, <1>1, <1>2, <1>3, <1>4, <1>10, <1>11 DEF PlaceInv, Placed
  <2>3. /\ sweeper' \in {"removed", "flushing", "flushed"} <=> victim' # 0
        /\ victim' # 0 => saver'[victim'] # "none" /\ victim' # entry'
    BY <1>0, <1>1, <1>2, <1>3, <1>4, <1>10, <1>11 DEF PlaceInv, Placed
  <2>4. ASSUME NEW d \in Clients
        PROVE  /\ client'[d] # "begin" => using'[d] # 0
               /\ client'[d] = "waking" => marks'[d] # 0
    BY <1>0, <1>1, <1>2, <1>3, <1>4, <1>10, <1>11 DEF PlaceInv, Placed
  <2>5. ASSUME NEW d \in Clients, client'[d] = "loaded" PROVE saver'[using'[d]] = "none"
    BY <1>0, <1>1, <1>2, <1>3, <1>4, <1>10, <1>11, <2>5 DEF PlaceInv, Placed
  <2>6. ASSUME NEW d \in Clients, client'[d] = "added" PROVE d \in keys'[using'[d]]
    BY <1>0, <1>1, <1>2, <1>3, <1>4, <1>10, <1>11, <2>6 DEF PlaceInv, Placed
  <2>7. ASSUME NEW d \in Clients, NEW e \in Clients, client'[d] = "loaded", client'[e] = "loaded",
               using'[d] = using'[e]
        PROVE  d = e
    BY <1>0, <1>1, <1>2, <1>3, <1>4, <1>10, <1>11, <2>7 DEF PlaceInv, Placed
  <2>8. QED BY <2>1, <2>2, <2>3, <2>4, <2>5, <2>6, <2>7 DEF PlaceInv
<1>7. FlagInv'
  <2>1. \A j \in Inst : dirty'[j] => dirty[j] /\ saver'[j] \notin {"none", "ended", "last"}
    BY <1>0, <1>1, <1>2, <1>3, <1>4, <1>10, <1>11 DEF FlagInv
  <2>2. ASSUME NEW j \in Inst, dirty'[j] PROVE Coming(j)'
    BY <1>0, <1>1, <1>2, <1>3, <1>4, <1>10, <1>11, <2>1, <2>2 DEF FlagInv, Coming
  <2>3. QED BY <2>1, <2>2 DEF FlagInv
<1>8. KeptInv'
  <2> SUFFICES ASSUME ~excused' PROVE KeptInv'
    BY DEF KeptInv
  <2>1. \A i \in Inst : AtWork(i)' => i = n
    BY <1>1, <1>3, <1>11 DEF AtWork
  <2>2. ASSUME NEW d \in Clients, client'[d] \in {"waking", "done"} PROVE KeyKept(d)'
    <3>1. KeyKept(d)
      BY <1>1, <1>2, <1>3, <2>2 DEF KeptInv
    <3>2. ~dirty[n]
      BY <1>2, <1>10, <1>11 DEF FlagInv
    <3>3. QED BY <1>1, <1>10, <1>11, <3>1, <3>2 DEF KeyKept
  <2>3. QED BY <1>1, <1>11, <2>1, <2>2 DEF KeptInv
<1>9. QED BY <1>5, <1>6, <1>7, <1>8 DEF IndexInv

LEMMA InsertHolds ==
    ASSUME IndexInv, NEW c \in Clients, Index!Insert(c)
    PROVE  IndexInv'
<1>1. /\ client[c] = "loaded"
      /\ saver' = [i \in Inst |->
             IF i = using[c] THEN "waiting"
             ELSE IF i = entry /\ saver[i] # "ended" THEN "cancelled" ELSE saver[i]]
      /\ entry' = using[c]
      /\ ~excused' => ~excused /\ entry = 0
      /\ client' = [client EXCEPT ![c] = "got"]
      /\ UNCHANGED <<file, loaded, keys, dirty, wake, using, marks, sweeper, victim>>
  BY DEF Index!Insert, Index!indexVars, Index!clientVars, Index!sweepVars, Index!SaveNow, Index!Alive,
     Index!Instances, Inst
<1>2. IndexTypes /\ PlaceInv /\ FlagInv /\ KeptInv
  BY DEF IndexInv
<1>0. Placed
  BY <1>2, NumbersArePlaced
<1>3. /\ client'[c] = "got" /\ (\A d \in Clients : d # c => client'[d] = client[d])
      /\ client' \in [Clients -> {"begin", "loaded", "got", "added", "waking", "done"}]
  BY <1>1, <1>2 DEF IndexTypes
<1>4. PICK n : n = using[c]
  OBVIOUS
<1>10. /\ n \in Inst /\ n # 0 /\ n \in 0 .. loaded /\ saver[n] = "none" /\ entry' = n /\ n # victim
       /\ n # entry
  BY <1>0, <1>1, <1>2, <1>4 DEF IndexTypes, PlaceInv, Placed
<1>11. /\ saver'[n] = "waiting"
       /\ \A i \in Inst : i # n /\ i # entry => saver'[i] = saver[i]
       /\ entry # 0 => entry \in Inst /\ saver'[entry] = "cancelled"
       /\ saver' \in [Inst -> {"none", "waiting", "debounce", "saving", "cancelled", "last", "ended"}]
  <2>1. entry # 0 => entry \in Inst /\ saver[entry] # "ended"
    BY <1>0, <1>2 DEF IndexTypes, PlaceInv, Placed
  <2>2. QED BY <1>1, <1>2, <1>4, <1>10, <2>1 DEF IndexTypes
<1>12. ~dirty[n]
  BY <1>2, <1>10 DEF FlagInv
<1>13. \A i \in Inst : i \in 0 .. loaded <=> ~(i > loaded)
  BY <1>0, <1>2 DEF IndexTypes, Placed
<1>5. IndexTypes'
  BY <1>1, <1>2, <1>3, <1>10, <1>11 DEF IndexTypes
<1>6. PlaceInv'
  <2>1. \A d \in Clients : d # c /\ client[d] = "loaded" => using[d] # n /\ using[d] # entry /\ using[d] \in Inst
    BY <1>0, <1>1, <1>2, <1>4, <1>10 DEF PlaceInv, IndexTypes, Placed
  <2>2. victim # 0 => victim \in Inst
    BY <1>0, <1>2 DEF IndexTypes, Placed
  <2>3. entry # 0 => entry \in 0 .. loaded
    BY <1>2 DEF IndexTypes
  <2>4. ASSUME NEW i \in Inst, i > loaded PROVE saver'[i] = "none"
    <3>1. i # n /\ i # entry
      BY <1>0, <1>2, <1>10, <2>4 DEF Placed, IndexTypes
    <3>2. QED BY <1>2, <1>11, <2>4, <3>1 DEF PlaceInv
  <2>5. victim # 0 => saver'[victim] # "none" /\ victim # n
    BY <1>2, <1>10, <1>11, <2>2 DEF PlaceInv
  <2>6. ASSUME NEW d \in Clients, client'[d] = "loaded" PROVE saver'[using[d]] = "none"
    BY <1>2, <1>3, <1>11, <2>1, <2>6 DEF PlaceInv
  <2>7. ASSUME NEW d \in Clients
        PROVE  /\ client'[d] # "begin" => using[d] # 0
               /\ client'[d] = "waking" => marks[d] # 0
               /\ client'[d] = "added" => d \in keys[using[d]]
    BY <1>2, <1>3, <1>4, <1>10 DEF PlaceInv
  <2>8. ASSUME NEW d \in Clients, NEW e \in Clients, client'[d] = "loaded", client'[e] = "loaded",
               using[d] = using[e]
        PROVE  d = e
    BY <1>2, <1>3, <2>8 DEF PlaceInv
  <2>9. entry' # 0 => saver'[entry'] \in {"waiting", "debounce", "saving"}
    BY <1>10, <1>11
  <2>10. sweeper \in {"removed", "flushing", "flushed"} <=> victim # 0
    BY <1>2 DEF PlaceInv
  <2>11. UNCHANGED <<loaded, keys, using, marks, sweeper, victim>> /\ entry' = n
    BY <1>1, <1>10
  <2>12. QED BY <2>4, <2>5, <2>6, <2>7, <2>8, <2>9, <2>10, <2>11 DEF PlaceInv
<1>7. FlagInv'
  <2>1. \A j \in Inst : dirty'[j] => dirty[j] /\ saver'[j] \notin {"none", "ended", "last"}
    BY <1>0, <1>1, <1>2, <1>3, <1>4, <1>10, <1>11, <1>12, <1>13 DEF FlagInv
  <2>2. ASSUME NEW j \in Inst, dirty'[j] PROVE Coming(j)'
    BY <1>0, <1>1, <1>2, <1>3, <1>4, <1>10, <1>11, <1>12, <1>13, <2>1, <2>2 DEF FlagInv, Coming
  <2>3. QED BY <2>1, <2>2 DEF FlagInv
<1>8. KeptInv'
  <2> SUFFICES ASSUME ~excused' PROVE KeptInv'
    BY DEF KeptInv
  <2>1. AtWork(n) /\ ~excused /\ \A i \in Inst : i # n => saver'[i] = saver[i]
    BY <1>0, <1>1, <1>4, <1>11 DEF AtWork, Placed
  <2>2. \A i \in Inst : AtWork(i)' => AtWork(i)
    BY <1>1, <1>3, <1>11, <2>1 DEF AtWork
  <2>3. \A d \in Clients : KeyKept(d) => KeyKept(d)'
    BY <1>1, <1>10, <2>1, <1>12 DEF KeyKept
  <2>4. QED BY <1>1, <1>2, <1>3, <2>1, <2>2, <2>3 DEF KeptInv
<1>9. QED BY <1>5, <1>6, <1>7, <1>8 DEF IndexInv

LEMMA AddHolds ==
    ASSUME IndexInv, NEW c \in Clients, Index!Add(c)
    PROVE  IndexInv'
<1>1. /\ client[c] = "got"
      /\ keys' = [keys EXCEPT ![using[c]] = @ \cup {c}]
      /\ ~excused' => ~excused
      /\ client' = [client EXCEPT ![c] = "added"]
      /\ UNCHANGED <<file, entry, loaded, dirty, wake, saver, using, marks, sweeper, victim>>
  BY DEF Index!Add, Index!indexVars, Index!clientVars, Index!sweepVars, Index!SaveNow, Index!Alive,
     Index!Instances, Inst
<1>2. IndexTypes /\ PlaceInv /\ FlagInv /\ KeptInv
  BY DEF IndexInv
<1>0. Placed
  BY <1>2, NumbersArePlaced
<1>3. /\ client'[c] = "added" /\ (\A d \in Clients : d # c => client'[d] = client[d])
      /\ client' \in [Clients -> {"begin", "loaded", "got", "added", "waking", "done"}]
  BY <1>1, <1>2 DEF IndexTypes
<1>4. /\ using[c] \in Inst /\ c \in keys'[using[c]] /\ keys' \in [Inst -> SUBSET Clients]
      /\ \A i \in Inst : keys[i] \subseteq keys'[i]
      /\ \A d \in Clients : client[d] = "added" => using[d] \in Inst
  BY <1>0, <1>1, <1>2 DEF IndexTypes, Placed
<1>5. IndexTypes'
  BY <1>0, <1>1, <1>2, <1>3, <1>4, IndexAssumption DEF IndexTypes
<1>6. PlaceInv'
  <2>1. \A j \in Inst : j > loaded' => saver'[j] = "none"
    BY <1>0, <1>1, <1>2, <1>3, <1>4 DEF PlaceInv, Placed
  <2>2. entry' # 0 => saver'[entry'] \in {"waiting", "debounce", "saving"}
    BY <1>0, <1>1, <1>2, <1>3, <1>4 DEF PlaceInv, Placed
  <2>3. /\ sweeper' \in {"removed", "flushing", "flushed"} <=> victim' # 0
        /\ victim' # 0 => saver'[victim'] # "none" /\ victim' # entry'
    BY <1>0, <1>1, <1>2, <1>3, <1>4 DEF PlaceInv, Placed
  <2>4. ASSUME NEW d \in Clients
        PROVE  /\ client'[d] # "begin" => using'[d] # 0
               /\ client'[d] = "waking" => marks'[d] # 0
    BY <1>0, <1>1, <1>2, <1>3, <1>4 DEF PlaceInv, Placed
  <2>5. ASSUME NEW d \in Clients, client'[d] = "loaded" PROVE saver'[using'[d]] = "none"
    BY <1>0, <1>1, <1>2, <1>3, <1>4, <2>5 DEF PlaceInv, Placed
  <2>6. ASSUME NEW d \in Clients, client'[d] = "added" PROVE d \in keys'[using'[d]]
    BY <1>0, <1>1, <1>2, <1>3, <1>4, <2>6 DEF PlaceInv, Placed
  <2>7. ASSUME NEW d \in Clients, NEW e \in Clients, client'[d] = "loaded", client'[e] = "loaded",
               using'[d] = using'[e]
        PROVE  d = e
    BY <1>0, <1>1, <1>2, <1>3, <1>4, <2>7 DEF PlaceInv, Placed
  <2>8. QED BY <2>1, <2>2, <2>3, <2>4, <2>5, <2>6, <2>7 DEF PlaceInv
<1>7. FlagInv'
  <2>1. \A j \in Inst : dirty'[j] => dirty[j] /\ saver'[j] \notin {"none", "ended", "last"}
    BY <1>0, <1>1, <1>2, <1>3, <1>4 DEF FlagInv
  <2>2. ASSUME NEW j \in Inst, dirty'[j] PROVE Coming(j)'
    BY <1>0, <1>1, <1>2, <1>3, <1>4, <2>1, <2>2 DEF FlagInv, Coming
  <2>3. QED BY <2>1, <2>2 DEF FlagInv
<1>8. KeptInv'
  <2> SUFFICES ASSUME ~excused' PROVE KeptInv'
    BY DEF KeptInv
  <2>1. \A j \in Inst : AtWork(j)' => AtWork(j)
    BY <1>0, <1>1, <1>2, <1>3, <1>4 DEF AtWork
  <2>2. \A d \in Clients : KeyKept(d) => KeyKept(d)'
    BY <1>0, <1>1, <1>2, <1>3, <1>4 DEF KeyKept
  <2>3. \A d \in Clients : client'[d] \in {"waking", "done"} => KeyKept(d)'
    BY <1>0, <1>1, <1>2, <1>3, <1>4, <2>2 DEF KeptInv
  <2>4. QED BY <1>1, <1>2, <1>3, <1>4, <2>1, <2>3 DEF KeptInv
<1>9. QED BY <1>5, <1>6, <1>7, <1>8 DEF IndexInv

LEMMA MarkDirtyHolds ==
    ASSUME IndexInv, NEW c \in Clients, Index!MarkDirty(c)
    PROVE  IndexInv'
<1>1. /\ client[c] = "added" /\ entry # 0
      /\ dirty' = [dirty EXCEPT ![entry] = TRUE]
      /\ marks' = [marks EXCEPT ![c] = entry]
      /\ ~excused' => ~excused /\ entry = using[c]
      /\ client' = [client EXCEPT ![c] = "waking"]
      /\ UNCHANGED <<file, entry, loaded, keys, wake, saver, using, sweeper, victim>>
  BY DEF Index!MarkDirty, Index!indexVars, Index!clientVars, Index!sweepVars, Index!SaveNow, Index!Alive,
     Index!Instances, Inst
<1>2. IndexTypes /\ PlaceInv /\ FlagInv /\ KeptInv
  BY DEF IndexInv
<1>0. Placed
  BY <1>2, NumbersArePlaced
<1>3. /\ client'[c] = "waking" /\ (\A d \in Clients : d # c => client'[d] = client[d])
      /\ client' \in [Clients -> {"begin", "loaded", "got", "added", "waking", "done"}]
  BY <1>1, <1>2 DEF IndexTypes
<1>4. /\ entry \in Inst /\ dirty'[entry] = TRUE /\ dirty' \in [Inst -> BOOLEAN]
      /\ \A i \in Inst : i # entry => dirty'[i] = dirty[i]
      /\ marks'[c] = entry /\ marks' \in [Clients -> 0 .. loaded]
      /\ \A d \in Clients : d # c => marks'[d] = marks[d]
  BY <1>0, <1>1, <1>2 DEF IndexTypes, Placed
<1>5. IndexTypes'
  BY <1>0, <1>1, <1>2, <1>3, <1>4, IndexAssumption DEF IndexTypes
<1>6. PlaceInv'
  <2>1. \A j \in Inst : j > loaded' => saver'[j] = "none"
    BY <1>0, <1>1, <1>2, <1>3, <1>4 DEF PlaceInv, Placed
  <2>2. entry' # 0 => saver'[entry'] \in {"waiting", "debounce", "saving"}
    BY <1>0, <1>1, <1>2, <1>3, <1>4 DEF PlaceInv, Placed
  <2>3. /\ sweeper' \in {"removed", "flushing", "flushed"} <=> victim' # 0
        /\ victim' # 0 => saver'[victim'] # "none" /\ victim' # entry'
    BY <1>0, <1>1, <1>2, <1>3, <1>4 DEF PlaceInv, Placed
  <2>4. ASSUME NEW d \in Clients
        PROVE  /\ client'[d] # "begin" => using'[d] # 0
               /\ client'[d] = "waking" => marks'[d] # 0
    BY <1>0, <1>1, <1>2, <1>3, <1>4 DEF PlaceInv, Placed
  <2>5. ASSUME NEW d \in Clients, client'[d] = "loaded" PROVE saver'[using'[d]] = "none"
    BY <1>0, <1>1, <1>2, <1>3, <1>4, <2>5 DEF PlaceInv, Placed
  <2>6. ASSUME NEW d \in Clients, client'[d] = "added" PROVE d \in keys'[using'[d]]
    BY <1>0, <1>1, <1>2, <1>3, <1>4, <2>6 DEF PlaceInv, Placed
  <2>7. ASSUME NEW d \in Clients, NEW e \in Clients, client'[d] = "loaded", client'[e] = "loaded",
               using'[d] = using'[e]
        PROVE  d = e
    BY <1>0, <1>1, <1>2, <1>3, <1>4, <2>7 DEF PlaceInv, Placed
  <2>8. QED BY <2>1, <2>2, <2>3, <2>4, <2>5, <2>6, <2>7 DEF PlaceInv
<1>7. FlagInv'
  <2>1. \A j \in Inst : Coming(j) => Coming(j)'
    <3>1. \A d \in Clients : client[d] = "waking" => d # c /\ client'[d] = "waking" /\ marks'[d] = marks[d]
      BY <1>1, <1>3, <1>4
    <3>2. QED BY <1>1, <3>1 DEF Coming
  <2>2. Coming(entry)' /\ saver'[entry] \in {"waiting", "debounce", "saving"}
    <3>1. client'[c] = "waking" /\ marks'[c] = entry /\ entry' = entry
      BY <1>1, <1>3, <1>4
    <3>2. \E d \in Clients : client'[d] = "waking" /\ marks'[d] = entry
      BY <3>1
    <3>3. QED BY <1>1, <1>2, <3>1, <3>2 DEF Coming, PlaceInv
  <2>3. \A j \in Inst : j # entry /\ dirty'[j] => dirty[j]
    BY <1>4
  <2>4. QED BY <1>1, <1>2, <2>1, <2>2, <2>3 DEF FlagInv
<1>8. KeptInv'
  <2> SUFFICES ASSUME ~excused' PROVE KeptInv'
    BY DEF KeptInv
  <2>1. \A j \in Inst : AtWork(j)' => AtWork(j)
    BY <1>0, <1>1, <1>2, <1>3, <1>4 DEF AtWork
  <2>2. \A d \in Clients : KeyKept(d) => KeyKept(d)'
    BY <1>0, <1>1, <1>2, <1>3, <1>4 DEF KeyKept
  <2>5. KeyKept(c)'
    <3>1. c \in keys[entry]
      BY <1>1, <1>2 DEF PlaceInv
    <3>2. QED BY <1>1, <1>4, <3>1 DEF KeyKept
  <2>3. \A d \in Clients : client'[d] \in {"waking", "done"} => KeyKept(d)'
    BY <1>1, <1>2, <1>3, <2>2, <2>5 DEF KeptInv
  <2>4. QED BY <1>1, <1>2, <1>3, <1>4, <2>1, <2>3 DEF KeptInv
<1>9. QED BY <1>5, <1>6, <1>7, <1>8 DEF IndexInv

LEMMA NoSaverHolds ==
    ASSUME IndexInv, NEW c \in Clients, Index!NoSaver(c)
    PROVE  IndexInv'
<1>1. /\ client[c] = "added"
      /\ excused' = TRUE
      /\ client' = [client EXCEPT ![c] = "done"]
      /\ UNCHANGED <<file, entry, loaded, keys, dirty, wake, saver, using, marks, sweeper, victim>>
  BY DEF Index!NoSaver, Index!indexVars, Index!clientVars, Index!sweepVars, Index!SaveNow, Index!Alive,
     Index!Instances, Inst
<1>2. IndexTypes /\ PlaceInv /\ FlagInv /\ KeptInv
  BY DEF IndexInv
<1>0. Placed
  BY <1>2, NumbersArePlaced
<1>3. /\ client'[c] = "done" /\ (\A d \in Clients : d # c => client'[d] = client[d])
      /\ client' \in [Clients -> {"begin", "loaded", "got", "added", "waking", "done"}]
  BY <1>1, <1>2 DEF IndexTypes
<1>5. IndexTypes'
  BY <1>0, <1>1, <1>2, <1>3, IndexAssumption DEF IndexTypes
<1>6. PlaceInv'
  <2>1. \A j \in Inst : j > loaded' => saver'[j] = "none"
    BY <1>0, <1>1, <1>2, <1>3 DEF PlaceInv, Placed
  <2>2. entry' # 0 => saver'[entry'] \in {"waiting", "debounce", "saving"}
    BY <1>0, <1>1, <1>2, <1>3 DEF PlaceInv, Placed
  <2>3. /\ sweeper' \in {"removed", "flushing", "flushed"} <=> victim' # 0
        /\ victim' # 0 => saver'[victim'] # "none" /\ victim' # entry'
    BY <1>0, <1>1, <1>2, <1>3 DEF PlaceInv, Placed
  <2>4. ASSUME NEW d \in Clients
        PROVE  /\ client'[d] # "begin" => using'[d] # 0
               /\ client'[d] = "waking" => marks'[d] # 0
    BY <1>0, <1>1, <1>2, <1>3 DEF PlaceInv, Placed
  <2>5. ASSUME NEW d \in Clients, client'[d] = "loaded" PROVE saver'[using'[d]] = "none"
    BY <1>0, <1>1, <1>2, <1>3, <2>5 DEF PlaceInv, Placed
  <2>6. ASSUME NEW d \in Clients, client'[d] = "added" PROVE d \in keys'[using'[d]]
    BY <1>0, <1>1, <1>2, <1>3, <2>6 DEF PlaceInv, Placed
  <2>7. ASSUME NEW d \in Clients, NEW e \in Clients, client'[d] = "loaded", client'[e] = "loaded",
               using'[d] = using'[e]
        PROVE  d = e
    BY <1>0, <1>1, <1>2, <1>3, <2>7 DEF PlaceInv, Placed
  <2>8. QED BY <2>1, <2>2, <2>3, <2>4, <2>5, <2>6, <2>7 DEF PlaceInv
<1>7. FlagInv'
  <2>1. \A j \in Inst : dirty'[j] => dirty[j] /\ saver'[j] \notin {"none", "ended", "last"}
    BY <1>0, <1>1, <1>2, <1>3 DEF FlagInv
  <2>2. ASSUME NEW j \in Inst, dirty'[j] PROVE Coming(j)'
    BY <1>0, <1>1, <1>2, <1>3, <2>1, <2>2 DEF FlagInv, Coming
  <2>3. QED BY <2>1, <2>2 DEF FlagInv
<1>8. KeptInv'
  <2> SUFFICES ASSUME ~excused' PROVE KeptInv'
    BY DEF KeptInv
  <2>1. \A j \in Inst : AtWork(j)' => AtWork(j)
    BY <1>0, <1>1, <1>2, <1>3 DEF AtWork
  <2>2. \A d \in Clients : KeyKept(d) => KeyKept(d)'
    BY <1>0, <1>1, <1>2, <1>3 DEF KeyKept
  <2>3. \A d \in Clients : client'[d] \in {"waking", "done"} => KeyKept(d)'
    BY <1>0, <1>1, <1>2, <1>3, <2>2 DEF KeptInv
  <2>4. QED BY <1>1, <1>2, <1>3, <2>1, <2>3 DEF KeptInv
<1>9. QED BY <1>5, <1>6, <1>7, <1>8 DEF IndexInv

LEMMA WakeSaverHolds ==
    ASSUME IndexInv, NEW c \in Clients, Index!WakeSaver(c)
    PROVE  IndexInv'
<1>1. /\ client[c] = "waking"
      /\ wake' = [wake EXCEPT ![marks[c]] = TRUE]
      /\ excused' = excused
      /\ client' = [client EXCEPT ![c] = "done"]
      /\ UNCHANGED <<file, entry, loaded, keys, dirty, saver, using, marks, sweeper, victim>>
  BY DEF Index!WakeSaver, Index!indexVars, Index!clientVars, Index!sweepVars, Index!SaveNow, Index!Alive,
     Index!Instances, Inst
<1>2. IndexTypes /\ PlaceInv /\ FlagInv /\ KeptInv
  BY DEF IndexInv
<1>0. Placed
  BY <1>2, NumbersArePlaced
<1>3. /\ client'[c] = "done" /\ (\A d \in Clients : d # c => client'[d] = client[d])
      /\ client' \in [Clients -> {"begin", "loaded", "got", "added", "waking", "done"}]
  BY <1>1, <1>2 DEF IndexTypes
<1>4. /\ marks[c] \in Inst /\ wake'[marks[c]] = TRUE /\ wake' \in [Inst -> BOOLEAN]
      /\ \A i \in Inst : i # marks[c] => wake'[i] = wake[i]
  BY <1>0, <1>1, <1>2 DEF IndexTypes, Placed
<1>5. IndexTypes'
  BY <1>0, <1>1, <1>2, <1>3, <1>4, IndexAssumption DEF IndexTypes
<1>6. PlaceInv'
  <2>1. \A j \in Inst : j > loaded' => saver'[j] = "none"
    BY <1>0, <1>1, <1>2, <1>3, <1>4 DEF PlaceInv, Placed
  <2>2. entry' # 0 => saver'[entry'] \in {"waiting", "debounce", "saving"}
    BY <1>0, <1>1, <1>2, <1>3, <1>4 DEF PlaceInv, Placed
  <2>3. /\ sweeper' \in {"removed", "flushing", "flushed"} <=> victim' # 0
        /\ victim' # 0 => saver'[victim'] # "none" /\ victim' # entry'
    BY <1>0, <1>1, <1>2, <1>3, <1>4 DEF PlaceInv, Placed
  <2>4. ASSUME NEW d \in Clients
        PROVE  /\ client'[d] # "begin" => using'[d] # 0
               /\ client'[d] = "waking" => marks'[d] # 0
    BY <1>0, <1>1, <1>2, <1>3, <1>4 DEF PlaceInv, Placed
  <2>5. ASSUME NEW d \in Clients, client'[d] = "loaded" PROVE saver'[using'[d]] = "none"
    BY <1>0, <1>1, <1>2, <1>3, <1>4, <2>5 DEF PlaceInv, Placed
  <2>6. ASSUME NEW d \in Clients, client'[d] = "added" PROVE d \in keys'[using'[d]]
    BY <1>0, <1>1, <1>2, <1>3, <1>4, <2>6 DEF PlaceInv, Placed
  <2>7. ASSUME NEW d \in Clients, NEW e \in Clients, client'[d] = "loaded", client'[e] = "loaded",
               using'[d] = using'[e]
        PROVE  d = e
    BY <1>0, <1>1, <1>2, <1>3, <1>4, <2>7 DEF PlaceInv, Placed
  <2>8. QED BY <2>1, <2>2, <2>3, <2>4, <2>5, <2>6, <2>7 DEF PlaceInv
<1>7. FlagInv'
  <2>1. ASSUME NEW j \in Inst, Coming(j) PROVE Coming(j)'
    <3>1. CASE j = marks[c]
      BY <1>4, <3>1 DEF Coming
    <3>2. CASE j # marks[c]
      <4>1. wake'[j] = wake[j]
        BY <1>4, <3>2
      <4>2. \A d \in Clients : client[d] = "waking" /\ marks[d] = j => client'[d] = "waking" /\ marks'[d] = j
        BY <1>1, <1>3, <3>2
      <4>3. QED BY <1>1, <2>1, <4>1, <4>2 DEF Coming
    <3>3. QED BY <3>1, <3>2
  <2>2. QED BY <1>1, <1>2, <2>1 DEF FlagInv
<1>8. KeptInv'
  <2> SUFFICES ASSUME ~excused' PROVE KeptInv'
    BY DEF KeptInv
  <2>1. \A j \in Inst : AtWork(j)' => AtWork(j)
    BY <1>0, <1>1, <1>2, <1>3, <1>4 DEF AtWork
  <2>2. \A d \in Clients : KeyKept(d) => KeyKept(d)'
    BY <1>0, <1>1, <1>2, <1>3, <1>4 DEF KeyKept
  <2>3. \A d \in Clients : client'[d] \in {"waking", "done"} => KeyKept(d)'
    BY <1>0, <1>1, <1>2, <1>3, <1>4, <2>2 DEF KeptInv
  <2>4. QED BY <1>1, <1>2, <1>3, <1>4, <2>1, <2>3 DEF KeptInv
<1>9. QED BY <1>5, <1>6, <1>7, <1>8 DEF IndexInv

\* A task that moves on, and stays a task, takes nothing from its instance.
LEMMA SaverMoved ==
    ASSUME PlaceInv, Placed, NEW i \in Inst, saver[i] # "none", saver'[i] # "none",
           \A j \in Inst : j # i => saver'[j] = saver[j],
           i = entry => saver'[i] \in {"waiting", "debounce", "saving"},
           UNCHANGED <<entry, loaded, keys, client, using, marks, sweeper, victim>>
    PROVE  PlaceInv'
<1>1. \A j \in Inst : saver'[j] = "none" <=> saver[j] = "none"
  OBVIOUS
<1>2. \A j \in Inst : j > loaded => saver'[j] = "none"
  BY <1>1 DEF PlaceInv
<1>3. entry # 0 => saver'[entry] \in {"waiting", "debounce", "saving"}
  <2>1. CASE entry = i
    BY <2>1
  <2>2. CASE entry # i
    BY <2>2 DEF PlaceInv, Placed
  <2>3. QED BY <2>1, <2>2
<1>4. victim # 0 => saver'[victim] # "none" /\ victim # entry
  BY <1>1 DEF PlaceInv, Placed
<1>5. \A c \in Clients : client[c] = "loaded" => saver'[using[c]] = "none"
  <2>1. \A c \in Clients : client[c] = "loaded" => using[c] \in Inst /\ saver[using[c]] = "none"
    BY DEF PlaceInv, Placed
  <2>2. QED BY <1>1, <2>1
<1>6. sweeper \in {"removed", "flushing", "flushed"} <=> victim # 0
  BY DEF PlaceInv
<1>7. /\ \A c \in Clients : /\ client[c] # "begin" => using[c] # 0
                            /\ client[c] = "waking" => marks[c] # 0
                            /\ client[c] = "added" => c \in keys[using[c]]
      /\ \A c, d \in Clients :
            client[c] = "loaded" /\ client[d] = "loaded" /\ using[c] = using[d] => c = d
  BY DEF PlaceInv
<1>8. QED BY <1>2, <1>3, <1>4, <1>5, <1>6, <1>7 DEF PlaceInv

LEMMA SaverWakesHolds ==
    ASSUME IndexInv, NEW i \in Inst, Index!SaverWakes(i)
    PROVE  IndexInv'
<1>1. /\ saver[i] = "waiting" /\ wake[i]
      /\ wake' = [wake EXCEPT ![i] = FALSE]
      /\ saver' = [saver EXCEPT ![i] = "debounce"]
      /\ excused' = excused
      /\ UNCHANGED <<file, entry, loaded, keys, dirty, client, using, marks, sweeper, victim>>
  BY DEF Index!SaverWakes, Index!indexVars, Index!clientVars, Index!sweepVars, Index!SaveNow, Index!Alive,
     Index!Instances, Inst
<1>2. IndexTypes /\ PlaceInv /\ FlagInv /\ KeptInv
  BY DEF IndexInv
<1>0. Placed
  BY <1>2, NumbersArePlaced
<1>3. /\ \A j \in Inst : j # i => saver'[j] = saver[j]
      /\ saver' \in [Inst -> {"none", "waiting", "debounce", "saving", "cancelled", "last", "ended"}]
  BY <1>1, <1>2 DEF IndexTypes
<1>4. /\ saver'[i] = "debounce" /\ wake' \in [Inst -> BOOLEAN]
      /\ \A j \in Inst : j # i => wake'[j] = wake[j]
  BY <1>1, <1>2 DEF IndexTypes
<1>5. IndexTypes'
  BY <1>0, <1>1, <1>2, <1>3, <1>4, IndexAssumption DEF IndexTypes
<1>6. PlaceInv'
  <2>1. saver[i] # "none" /\ saver'[i] # "none"
    BY <1>1, <1>4
  <2>2. i = entry => saver'[i] \in {"waiting", "debounce", "saving"}
    <3>1. i = entry => saver[i] \in {"waiting", "debounce", "saving"} /\ entry # 0
      BY <1>0, <1>2 DEF PlaceInv, Placed
    <3>2. QED BY <1>1, <1>4, <3>1
  <2>3. UNCHANGED <<entry, loaded, keys, client, using, marks, sweeper, victim>>
    BY <1>1
  <2>4. QED BY <1>0, <1>2, <1>3, <2>1, <2>2, <2>3, SaverMoved
<1>7. FlagInv'
  <2>1. \A j \in Inst : dirty'[j] => dirty[j] /\ saver'[j] \notin {"none", "ended", "last"}
    BY <1>1, <1>2, <1>3, <1>4 DEF FlagInv
  <2>2. ASSUME NEW j \in Inst, j # i, Coming(j) PROVE Coming(j)'
    <3>1. wake'[j] = wake[j] /\ saver'[j] = saver[j]
      BY <1>1, <1>3, <1>4, <2>2
    <3>2. client' = client /\ marks' = marks
      BY <1>1
    <3>3. QED BY <2>2, <3>1, <3>2 DEF Coming
  <2>3. dirty'[i] => Coming(i)'
    BY <1>4 DEF Coming
  <2>4. QED BY <1>2, <2>1, <2>2, <2>3 DEF FlagInv
<1>8. KeptInv'
  <2> SUFFICES ASSUME ~excused' PROVE KeptInv'
    BY DEF KeptInv
  <2>1. \A j \in Inst : AtWork(j)' => AtWork(j)
    BY <1>0, <1>1, <1>2, <1>3, <1>4 DEF AtWork
  <2>2. \A d \in Clients : KeyKept(d) => KeyKept(d)'
    BY <1>0, <1>1, <1>2, <1>3, <1>4 DEF KeyKept
  <2>3. \A d \in Clients : client'[d] \in {"waking", "done"} => KeyKept(d)'
    BY <1>0, <1>1, <1>2, <1>3, <1>4, <2>2 DEF KeptInv
  <2>4. QED BY <1>1, <1>2, <1>3, <1>4, <2>1, <2>3 DEF KeptInv
<1>9. QED BY <1>5, <1>6, <1>7, <1>8 DEF IndexInv

LEMMA DebounceEndsHolds ==
    ASSUME IndexInv, NEW i \in Inst, Index!DebounceEnds(i)
    PROVE  IndexInv'
<1>1. /\ saver[i] \in {"debounce", "cancelled"}
      /\ dirty' = [dirty EXCEPT ![i] = FALSE]
      /\ saver' = [saver EXCEPT ![i] =
             IF dirty[i] THEN IF @ = "debounce" THEN "saving" ELSE "last"
             ELSE IF @ = "debounce" THEN "waiting" ELSE "ended"]
      /\ excused' = excused
      /\ UNCHANGED <<file, entry, loaded, keys, wake, client, using, marks, sweeper, victim>>
  BY DEF Index!DebounceEnds, Index!indexVars, Index!clientVars, Index!sweepVars, Index!SaveNow, Index!Alive,
     Index!Instances, Inst
<1>2. IndexTypes /\ PlaceInv /\ FlagInv /\ KeptInv
  BY DEF IndexInv
<1>0. Placed
  BY <1>2, NumbersArePlaced
<1>3. /\ \A j \in Inst : j # i => saver'[j] = saver[j]
      /\ saver' \in [Inst -> {"none", "waiting", "debounce", "saving", "cancelled", "last", "ended"}]
  BY <1>1, <1>2 DEF IndexTypes
<1>4. /\ dirty' \in [Inst -> BOOLEAN] /\ dirty'[i] = FALSE
      /\ \A j \in Inst : j # i => dirty'[j] = dirty[j]
      /\ saver'[i] = IF dirty[i] THEN IF saver[i] = "debounce" THEN "saving" ELSE "last"
                     ELSE IF saver[i] = "debounce" THEN "waiting" ELSE "ended"
  BY <1>1, <1>2 DEF IndexTypes
<1>5. IndexTypes'
  BY <1>0, <1>1, <1>2, <1>3, <1>4, IndexAssumption DEF IndexTypes
<1>6. PlaceInv'
  <2>1. saver[i] # "none" /\ saver'[i] # "none"
    <3>1. saver'[i] \in {"saving", "last", "waiting", "ended"}
      BY <1>4
    <3>2. saver[i] # "none"
      BY <1>1
    <3>3. QED BY <3>1, <3>2
  <2>2. i = entry => saver'[i] \in {"waiting", "debounce", "saving"}
    <3>1. i = entry => saver[i] \in {"waiting", "debounce", "saving"} /\ entry # 0
      BY <1>0, <1>2 DEF PlaceInv, Placed
    <3>2. QED BY <1>1, <1>4, <3>1
  <2>3. UNCHANGED <<entry, loaded, keys, client, using, marks, sweeper, victim>>
    BY <1>1
  <2>4. QED BY <1>0, <1>2, <1>3, <2>1, <2>2, <2>3, SaverMoved
<1>7. FlagInv'
  <2>1. \A j \in Inst : dirty'[j] => dirty[j] /\ saver'[j] \notin {"none", "ended", "last"}
    BY <1>1, <1>2, <1>3, <1>4 DEF FlagInv
  <2>2. ASSUME NEW j \in Inst, j # i, Coming(j) PROVE Coming(j)'
    <3>1. wake'[j] = wake[j] /\ saver'[j] = saver[j]
      BY <1>1, <1>3, <1>4, <2>2
    <3>2. client' = client /\ marks' = marks
      BY <1>1
    <3>3. QED BY <2>2, <3>1, <3>2 DEF Coming
  <2>3. dirty'[i] => Coming(i)'
    BY <1>4
  <2>4. QED BY <1>2, <2>1, <2>2, <2>3 DEF FlagInv
<1>8. KeptInv'
  <2> SUFFICES ASSUME ~excused' PROVE KeptInv'
    BY DEF KeptInv
  <2>1. \A j \in Inst : AtWork(j)' => AtWork(j)
    BY <1>0, <1>1, <1>2, <1>3, <1>4 DEF AtWork
  <2>2. \A d \in Clients : KeyKept(d) => KeyKept(d)'
    BY <1>0, <1>1, <1>2, <1>3, <1>4 DEF KeyKept
  <2>3. \A d \in Clients : client'[d] \in {"waking", "done"} => KeyKept(d)'
    BY <1>0, <1>1, <1>2, <1>3, <1>4, <2>2 DEF KeptInv
  <2>4. QED BY <1>1, <1>2, <1>3, <1>4, <2>1, <2>3 DEF KeptInv
<1>9. QED BY <1>5, <1>6, <1>7, <1>8 DEF IndexInv

LEMMA SaveHolds ==
    ASSUME IndexInv, NEW i \in Inst, Index!Save(i)
    PROVE  IndexInv'
<1>1. /\ saver[i] \in {"saving", "last"}
      /\ saver' = [saver EXCEPT ![i] = IF @ = "saving" THEN "waiting" ELSE "ended"]
      /\ (file' = keys[i] /\ excused' = excused) \/ (file' = file /\ excused' = TRUE)
      /\ UNCHANGED <<entry, loaded, keys, dirty, wake, client, using, marks, sweeper, victim>>
  BY DEF Index!Save, Index!indexVars, Index!clientVars, Index!sweepVars, Index!SaveNow, Index!Alive,
     Index!Instances, Inst
<1>2. IndexTypes /\ PlaceInv /\ FlagInv /\ KeptInv
  BY DEF IndexInv
<1>0. Placed
  BY <1>2, NumbersArePlaced
<1>3. /\ \A j \in Inst : j # i => saver'[j] = saver[j]
      /\ saver' \in [Inst -> {"none", "waiting", "debounce", "saving", "cancelled", "last", "ended"}]
  BY <1>1, <1>2 DEF IndexTypes
<1>4. saver'[i] = (IF saver[i] = "saving" THEN "waiting" ELSE "ended") /\ file' \subseteq Clients
  BY <1>1, <1>2 DEF IndexTypes
<1>5. IndexTypes'
  BY <1>0, <1>1, <1>2, <1>3, <1>4, IndexAssumption DEF IndexTypes
<1>6. PlaceInv'
  <2>1. saver[i] # "none" /\ saver'[i] # "none"
    <3>1. saver'[i] = "waiting" \/ saver'[i] = "ended"
      BY <1>4
    <3>2. saver[i] # "none"
      BY <1>1
    <3>3. QED BY <3>1, <3>2
  <2>2. i = entry => saver'[i] \in {"waiting", "debounce", "saving"}
    <3>1. i = entry => saver[i] \in {"waiting", "debounce", "saving"} /\ entry # 0
      BY <1>0, <1>2 DEF PlaceInv, Placed
    <3>2. QED BY <1>1, <1>4, <3>1
  <2>3. UNCHANGED <<entry, loaded, keys, client, using, marks, sweeper, victim>>
    BY <1>1
  <2>4. QED BY <1>0, <1>2, <1>3, <2>1, <2>2, <2>3, SaverMoved
<1>7. FlagInv'
  <2>1. \A j \in Inst : dirty'[j] => dirty[j] /\ saver'[j] \notin {"none", "ended", "last"}
    BY <1>1, <1>2, <1>3, <1>4 DEF FlagInv
  <2>2. ASSUME NEW j \in Inst, j # i, Coming(j) PROVE Coming(j)'
    <3>1. wake'[j] = wake[j] /\ saver'[j] = saver[j]
      BY <1>1, <1>3, <1>4, <2>2
    <3>2. client' = client /\ marks' = marks
      BY <1>1
    <3>3. QED BY <2>2, <3>1, <3>2 DEF Coming
  <2>3. dirty'[i] => Coming(i)'
    <3>1. dirty'[i] => Coming(i)
      BY <1>1, <1>2 DEF FlagInv
    <3>2. wake' = wake /\ client' = client /\ marks' = marks
      BY <1>1
    <3>3. QED BY <1>1, <3>1, <3>2 DEF Coming
  <2>4. QED BY <1>2, <2>1, <2>2, <2>3 DEF FlagInv
<1>8. KeptInv'
  <2> SUFFICES ASSUME ~excused' PROVE KeptInv'
    BY DEF KeptInv
  <2>1. AtWork(i) /\ ~excused /\ file' = keys[i]
    <3>1. AtWork(i)
      BY <1>1 DEF AtWork
    <3>2. (file' = keys[i] /\ excused' = excused) \/ (file' = file /\ excused' = TRUE)
      BY <1>1
    <3>3. ~excused' => file' = keys[i] /\ ~excused
      BY <3>2, Zenon
    <3>4. QED BY <3>1, <3>3
  <2>2. \A j \in Inst : AtWork(j)' => j = i
    BY <1>1, <1>2, <1>3, <1>4, <2>1 DEF AtWork, KeptInv
  <2>3. file \subseteq file'
    BY <1>2, <1>3, <1>4, <2>1 DEF KeptInv
  <2>4. \A c \in Clients : KeyKept(c) => KeyKept(c)'
    BY <1>1, <1>3, <1>4, <2>1, <2>3 DEF KeyKept
  <2>5. QED BY <1>1, <1>2, <1>3, <1>4, <2>1, <2>2, <2>4 DEF KeptInv
<1>9. QED BY <1>5, <1>6, <1>7, <1>8 DEF IndexInv

LEMMA ListStaleHolds ==
    ASSUME IndexInv, Index!ListStale
    PROVE  IndexInv'
<1>1. /\ sweeper = "idle"
      /\ sweeper' = "listed"
      /\ excused' = excused
      /\ UNCHANGED <<file, entry, loaded, keys, dirty, wake, saver, client, using, marks, victim>>
  BY DEF Index!ListStale, Index!indexVars, Index!clientVars, Index!sweepVars, Index!SaveNow, Index!Alive,
     Index!Instances, Inst
<1>2. IndexTypes /\ PlaceInv /\ FlagInv /\ KeptInv
  BY DEF IndexInv
<1>0. Placed
  BY <1>2, NumbersArePlaced
<1>5. IndexTypes'
  BY <1>0, <1>1, <1>2, <1>2, IndexAssumption DEF IndexTypes
<1>6. PlaceInv'
  <2>1. \A j \in Inst : j > loaded' => saver'[j] = "none"
    BY <1>0, <1>1, <1>2, <1>2 DEF PlaceInv, Placed
  <2>2. entry' # 0 => saver'[entry'] \in {"waiting", "debounce", "saving"}
    BY <1>0, <1>1, <1>2, <1>2 DEF PlaceInv, Placed
  <2>3. /\ sweeper' \in {"removed", "flushing", "flushed"} <=> victim' # 0
        /\ victim' # 0 => saver'[victim'] # "none" /\ victim' # entry'
    BY <1>0, <1>1, <1>2, <1>2 DEF PlaceInv, Placed
  <2>4. ASSUME NEW d \in Clients
        PROVE  /\ client'[d] # "begin" => using'[d] # 0
               /\ client'[d] = "waking" => marks'[d] # 0
    BY <1>0, <1>1, <1>2, <1>2 DEF PlaceInv, Placed
  <2>5. ASSUME NEW d \in Clients, client'[d] = "loaded" PROVE saver'[using'[d]] = "none"
    BY <1>0, <1>1, <1>2, <1>2, <2>5 DEF PlaceInv, Placed
  <2>6. ASSUME NEW d \in Clients, client'[d] = "added" PROVE d \in keys'[using'[d]]
    BY <1>0, <1>1, <1>2, <1>2, <2>6 DEF PlaceInv, Placed
  <2>7. ASSUME NEW d \in Clients, NEW e \in Clients, client'[d] = "loaded", client'[e] = "loaded",
               using'[d] = using'[e]
        PROVE  d = e
    BY <1>0, <1>1, <1>2, <1>2, <2>7 DEF PlaceInv, Placed
  <2>8. QED BY <2>1, <2>2, <2>3, <2>4, <2>5, <2>6, <2>7 DEF PlaceInv
<1>7. FlagInv'
  <2>1. \A j \in Inst : dirty'[j] => dirty[j] /\ saver'[j] \notin {"none", "ended", "last"}
    BY <1>0, <1>1, <1>2, <1>2 DEF FlagInv
  <2>2. ASSUME NEW j \in Inst, dirty'[j] PROVE Coming(j)'
    BY <1>0, <1>1, <1>2, <1>2, <2>1, <2>2 DEF FlagInv, Coming
  <2>3. QED BY <2>1, <2>2 DEF FlagInv
<1>8. KeptInv'
  <2> SUFFICES ASSUME ~excused' PROVE KeptInv'
    BY DEF KeptInv
  <2>1. \A j \in Inst : AtWork(j)' => AtWork(j)
    BY <1>0, <1>1, <1>2, <1>2 DEF AtWork
  <2>2. \A d \in Clients : KeyKept(d) => KeyKept(d)'
    BY <1>0, <1>1, <1>2, <1>2 DEF KeyKept
  <2>3. \A d \in Clients : client'[d] \in {"waking", "done"} => KeyKept(d)'
    BY <1>0, <1>1, <1>2, <1>2, <2>2 DEF KeptInv
  <2>4. QED BY <1>1, <1>2, <1>2, <2>1, <2>3 DEF KeptInv
<1>9. QED BY <1>5, <1>6, <1>7, <1>8 DEF IndexInv

LEMMA RemoveEntryHolds ==
    ASSUME IndexInv, Index!RemoveEntry
    PROVE  IndexInv'
<1>1. /\ sweeper = "listed"
      /\ victim' = entry /\ entry' = 0
      /\ sweeper' = IF entry = 0 THEN "idle" ELSE "removed"
      /\ excused' = excused
      /\ UNCHANGED <<file, loaded, keys, dirty, wake, saver, client, using, marks>>
  BY DEF Index!RemoveEntry, Index!indexVars, Index!clientVars, Index!sweepVars, Index!SaveNow, Index!Alive,
     Index!Instances, Inst
<1>2. IndexTypes /\ PlaceInv /\ FlagInv /\ KeptInv
  BY DEF IndexInv
<1>0. Placed
  BY <1>2, NumbersArePlaced
<1>3. victim = 0 /\ (entry # 0 => entry \in Inst /\ saver[entry] \in {"waiting", "debounce", "saving"})
  BY <1>0, <1>1, <1>2 DEF PlaceInv, Placed
<1>4. \A i \in Inst : i # 0
  BY DEF Inst
<1>5. IndexTypes'
  BY <1>0, <1>1, <1>2, <1>3, <1>4, IndexAssumption DEF IndexTypes
<1>6. PlaceInv'
  <2>1. \A j \in Inst : j > loaded' => saver'[j] = "none"
    BY <1>0, <1>1, <1>2, <1>3, <1>4 DEF PlaceInv, Placed
  <2>2. entry' # 0 => saver'[entry'] \in {"waiting", "debounce", "saving"}
    BY <1>0, <1>1, <1>2, <1>3, <1>4 DEF PlaceInv, Placed
  <2>3. /\ sweeper' \in {"removed", "flushing", "flushed"} <=> victim' # 0
        /\ victim' # 0 => saver'[victim'] # "none" /\ victim' # entry'
    BY <1>0, <1>1, <1>2, <1>3, <1>4 DEF PlaceInv, Placed
  <2>4. ASSUME NEW d \in Clients
        PROVE  /\ client'[d] # "begin" => using'[d] # 0
               /\ client'[d] = "waking" => marks'[d] # 0
    BY <1>0, <1>1, <1>2, <1>3, <1>4 DEF PlaceInv, Placed
  <2>5. ASSUME NEW d \in Clients, client'[d] = "loaded" PROVE saver'[using'[d]] = "none"
    BY <1>0, <1>1, <1>2, <1>3, <1>4, <2>5 DEF PlaceInv, Placed
  <2>6. ASSUME NEW d \in Clients, client'[d] = "added" PROVE d \in keys'[using'[d]]
    BY <1>0, <1>1, <1>2, <1>3, <1>4, <2>6 DEF PlaceInv, Placed
  <2>7. ASSUME NEW d \in Clients, NEW e \in Clients, client'[d] = "loaded", client'[e] = "loaded",
               using'[d] = using'[e]
        PROVE  d = e
    BY <1>0, <1>1, <1>2, <1>3, <1>4, <2>7 DEF PlaceInv, Placed
  <2>8. QED BY <2>1, <2>2, <2>3, <2>4, <2>5, <2>6, <2>7 DEF PlaceInv
<1>7. FlagInv'
  <2>1. \A j \in Inst : dirty'[j] => dirty[j] /\ saver'[j] \notin {"none", "ended", "last"}
    BY <1>0, <1>1, <1>2, <1>3, <1>4 DEF FlagInv
  <2>2. ASSUME NEW j \in Inst, dirty'[j] PROVE Coming(j)'
    BY <1>0, <1>1, <1>2, <1>3, <1>4, <2>1, <2>2 DEF FlagInv, Coming
  <2>3. QED BY <2>1, <2>2 DEF FlagInv
<1>8. KeptInv'
  <2> SUFFICES ASSUME ~excused' PROVE KeptInv'
    BY DEF KeptInv
  <2>1. \A j \in Inst : AtWork(j)' => AtWork(j)
    BY <1>0, <1>1, <1>2, <1>3, <1>4 DEF AtWork
  <2>2. \A d \in Clients : KeyKept(d) => KeyKept(d)'
    BY <1>0, <1>1, <1>2, <1>3, <1>4 DEF KeyKept
  <2>3. \A d \in Clients : client'[d] \in {"waking", "done"} => KeyKept(d)'
    BY <1>0, <1>1, <1>2, <1>3, <1>4, <2>2 DEF KeptInv
  <2>4. QED BY <1>1, <1>2, <1>3, <1>4, <2>1, <2>3 DEF KeptInv
<1>9. QED BY <1>5, <1>6, <1>7, <1>8 DEF IndexInv

LEMMA FlushHolds ==
    ASSUME IndexInv, Index!Flush
    PROVE  IndexInv'
<1>1. /\ sweeper = "removed"
      /\ sweeper' = "flushing" /\ dirty' = [dirty EXCEPT ![victim] = FALSE]
      /\ excused' = excused
      /\ UNCHANGED <<file, entry, loaded, keys, wake, saver, client, using, marks, victim>>
  BY DEF Index!Flush, Index!indexVars, Index!clientVars, Index!sweepVars, Index!SaveNow, Index!Alive,
     Index!Instances, Inst
<1>2. IndexTypes /\ PlaceInv /\ FlagInv /\ KeptInv
  BY DEF IndexInv
<1>0. Placed
  BY <1>2, NumbersArePlaced
<1>3. victim # 0 /\ victim \in Inst /\ saver[victim] # "none"
  BY <1>0, <1>1, <1>2 DEF PlaceInv, Placed
<1>4. /\ dirty' \in [Inst -> BOOLEAN] /\ dirty'[victim] = FALSE
      /\ \A i \in Inst : i # victim => dirty'[i] = dirty[i]
  BY <1>1, <1>2, <1>3 DEF IndexTypes
<1>5. IndexTypes'
  BY <1>0, <1>1, <1>2, <1>3, <1>4, IndexAssumption DEF IndexTypes
<1>6. PlaceInv'
  <2>1. \A j \in Inst : j > loaded' => saver'[j] = "none"
    BY <1>0, <1>1, <1>2, <1>3, <1>4 DEF PlaceInv, Placed
  <2>2. entry' # 0 => saver'[entry'] \in {"waiting", "debounce", "saving"}
    BY <1>0, <1>1, <1>2, <1>3, <1>4 DEF PlaceInv, Placed
  <2>3. /\ sweeper' \in {"removed", "flushing", "flushed"} <=> victim' # 0
        /\ victim' # 0 => saver'[victim'] # "none" /\ victim' # entry'
    BY <1>0, <1>1, <1>2, <1>3, <1>4 DEF PlaceInv, Placed
  <2>4. ASSUME NEW d \in Clients
        PROVE  /\ client'[d] # "begin" => using'[d] # 0
               /\ client'[d] = "waking" => marks'[d] # 0
    BY <1>0, <1>1, <1>2, <1>3, <1>4 DEF PlaceInv, Placed
  <2>5. ASSUME NEW d \in Clients, client'[d] = "loaded" PROVE saver'[using'[d]] = "none"
    BY <1>0, <1>1, <1>2, <1>3, <1>4, <2>5 DEF PlaceInv, Placed
  <2>6. ASSUME NEW d \in Clients, client'[d] = "added" PROVE d \in keys'[using'[d]]
    BY <1>0, <1>1, <1>2, <1>3, <1>4, <2>6 DEF PlaceInv, Placed
  <2>7. ASSUME NEW d \in Clients, NEW e \in Clients, client'[d] = "loaded", client'[e] = "loaded",
               using'[d] = using'[e]
        PROVE  d = e
    BY <1>0, <1>1, <1>2, <1>3, <1>4, <2>7 DEF PlaceInv, Placed
  <2>8. QED BY <2>1, <2>2, <2>3, <2>4, <2>5, <2>6, <2>7 DEF PlaceInv
<1>7. FlagInv'
  <2>1. \A j \in Inst : dirty'[j] => dirty[j] /\ saver'[j] \notin {"none", "ended", "last"}
    BY <1>0, <1>1, <1>2, <1>3, <1>4 DEF FlagInv
  <2>2. ASSUME NEW j \in Inst, dirty'[j] PROVE Coming(j)'
    BY <1>0, <1>1, <1>2, <1>3, <1>4, <2>1, <2>2 DEF FlagInv, Coming
  <2>3. QED BY <2>1, <2>2 DEF FlagInv
<1>8. KeptInv'
  <2> SUFFICES ASSUME ~excused' PROVE KeptInv'
    BY DEF KeptInv
  <2>1. \A j \in Inst : AtWork(j)' => AtWork(j)
    BY <1>0, <1>1, <1>2, <1>3, <1>4 DEF AtWork
  <2>2. \A d \in Clients : KeyKept(d) => KeyKept(d)'
    BY <1>0, <1>1, <1>2, <1>3, <1>4 DEF KeyKept
  <2>3. \A d \in Clients : client'[d] \in {"waking", "done"} => KeyKept(d)'
    BY <1>0, <1>1, <1>2, <1>3, <1>4, <2>2 DEF KeptInv
  <2>4. QED BY <1>1, <1>2, <1>3, <1>4, <2>1, <2>3 DEF KeptInv
<1>9. QED BY <1>5, <1>6, <1>7, <1>8 DEF IndexInv

LEMMA FlushSavesHolds ==
    ASSUME IndexInv, Index!FlushSaves
    PROVE  IndexInv'
<1>1. /\ sweeper = "flushing"
      /\ sweeper' = "flushed"
      /\ (file' = keys[victim] /\ excused' = excused) \/ (file' = file /\ excused' = TRUE)
      /\ UNCHANGED <<entry, loaded, keys, dirty, wake, saver, client, using, marks, victim>>
  BY DEF Index!FlushSaves, Index!indexVars, Index!clientVars, Index!sweepVars, Index!SaveNow, Index!Alive,
     Index!Instances, Inst
<1>2. IndexTypes /\ PlaceInv /\ FlagInv /\ KeptInv
  BY DEF IndexInv
<1>0. Placed
  BY <1>2, NumbersArePlaced
<1>3. victim # 0 /\ victim \in Inst /\ saver[victim] # "none"
  BY <1>0, <1>1, <1>2 DEF PlaceInv, Placed
<1>4. file' \subseteq Clients
  <2>1. keys[victim] \subseteq Clients /\ file \subseteq Clients
    BY <1>2, <1>3 DEF IndexTypes
  <2>2. QED BY <1>1, <2>1
<1>5. IndexTypes'
  BY <1>0, <1>1, <1>2, <1>3, <1>4, IndexAssumption DEF IndexTypes
<1>6. PlaceInv'
  <2>1. \A j \in Inst : j > loaded' => saver'[j] = "none"
    BY <1>0, <1>1, <1>2, <1>3, <1>4 DEF PlaceInv, Placed
  <2>2. entry' # 0 => saver'[entry'] \in {"waiting", "debounce", "saving"}
    BY <1>0, <1>1, <1>2, <1>3, <1>4 DEF PlaceInv, Placed
  <2>3. /\ sweeper' \in {"removed", "flushing", "flushed"} <=> victim' # 0
        /\ victim' # 0 => saver'[victim'] # "none" /\ victim' # entry'
    BY <1>0, <1>1, <1>2, <1>3, <1>4 DEF PlaceInv, Placed
  <2>4. ASSUME NEW d \in Clients
        PROVE  /\ client'[d] # "begin" => using'[d] # 0
               /\ client'[d] = "waking" => marks'[d] # 0
    BY <1>0, <1>1, <1>2, <1>3, <1>4 DEF PlaceInv, Placed
  <2>5. ASSUME NEW d \in Clients, client'[d] = "loaded" PROVE saver'[using'[d]] = "none"
    BY <1>0, <1>1, <1>2, <1>3, <1>4, <2>5 DEF PlaceInv, Placed
  <2>6. ASSUME NEW d \in Clients, client'[d] = "added" PROVE d \in keys'[using'[d]]
    BY <1>0, <1>1, <1>2, <1>3, <1>4, <2>6 DEF PlaceInv, Placed
  <2>7. ASSUME NEW d \in Clients, NEW e \in Clients, client'[d] = "loaded", client'[e] = "loaded",
               using'[d] = using'[e]
        PROVE  d = e
    BY <1>0, <1>1, <1>2, <1>3, <1>4, <2>7 DEF PlaceInv, Placed
  <2>8. QED BY <2>1, <2>2, <2>3, <2>4, <2>5, <2>6, <2>7 DEF PlaceInv
<1>7. FlagInv'
  <2>1. \A j \in Inst : dirty'[j] => dirty[j] /\ saver'[j] \notin {"none", "ended", "last"}
    BY <1>0, <1>1, <1>2, <1>3, <1>4 DEF FlagInv
  <2>2. ASSUME NEW j \in Inst, dirty'[j] PROVE Coming(j)'
    BY <1>0, <1>1, <1>2, <1>3, <1>4, <2>1, <2>2 DEF FlagInv, Coming
  <2>3. QED BY <2>1, <2>2 DEF FlagInv
<1>8. KeptInv'
  <2> SUFFICES ASSUME ~excused' PROVE KeptInv'
    BY DEF KeptInv
  <2>1. AtWork(victim) /\ ~excused /\ file' = keys[victim]
    BY <1>1, <1>2, <1>3, <1>4 DEF AtWork
  <2>2. \A j \in Inst : AtWork(j)' => j = victim
    BY <1>1, <1>2, <1>3, <1>4, <2>1 DEF AtWork, KeptInv
  <2>3. file \subseteq file'
    BY <1>2, <1>3, <1>4, <2>1 DEF KeptInv
  <2>4. \A c \in Clients : KeyKept(c) => KeyKept(c)'
    BY <1>1, <1>3, <1>4, <2>1, <2>3 DEF KeyKept
  <2>5. QED BY <1>1, <1>2, <1>3, <1>4, <2>1, <2>2, <2>4 DEF KeptInv
<1>9. QED BY <1>5, <1>6, <1>7, <1>8 DEF IndexInv

LEMMA CancelSaverHolds ==
    ASSUME IndexInv, Index!CancelSaver
    PROVE  IndexInv'
<1>1. /\ sweeper = "flushed" /\ saver[victim] \notin {"saving", "last"}
      /\ saver' = [saver EXCEPT ![victim] = IF @ = "ended" THEN @ ELSE "cancelled"]
      /\ sweeper' = "idle" /\ victim' = 0
      /\ excused' = excused
      /\ UNCHANGED <<file, entry, loaded, keys, dirty, wake, client, using, marks>>
  BY DEF Index!CancelSaver, Index!indexVars, Index!clientVars, Index!sweepVars, Index!SaveNow, Index!Alive,
     Index!Instances, Inst
<1>2. IndexTypes /\ PlaceInv /\ FlagInv /\ KeptInv
  BY DEF IndexInv
<1>0. Placed
  BY <1>2, NumbersArePlaced
<1>3. victim # 0 /\ victim \in Inst /\ saver[victim] # "none"
  BY <1>0, <1>1, <1>2 DEF PlaceInv, Placed
<1>4. /\ saver'[victim] = (IF saver[victim] = "ended" THEN "ended" ELSE "cancelled")
      /\ \A i \in Inst : i # victim => saver'[i] = saver[i]
      /\ saver' \in [Inst -> {"none", "waiting", "debounce", "saving", "cancelled", "last", "ended"}]
  BY <1>1, <1>2, <1>3 DEF IndexTypes
<1>5. IndexTypes'
  <2>1. 0 \in 0 .. loaded
    <3>1. loaded \in 0 .. MaxInstances /\ MaxInstances \in Nat
      BY <1>2, IndexAssumption DEF IndexTypes
    <3>2. QED BY <3>1
  <2>2. QED BY <1>1, <1>2, <1>4, <2>1 DEF IndexTypes
<1>6. PlaceInv'
  <2>1. /\ entry # 0 => entry \in Inst
        /\ \A c \in Clients : client[c] = "loaded" => using[c] \in Inst
    BY <1>0 DEF PlaceInv, Placed
  <2>2. \A i \in Inst : saver'[i] = "none" <=> saver[i] = "none"
    BY <1>3, <1>4
  <2>3. \A i \in Inst : i > loaded => saver'[i] = "none"
    BY <1>2, <2>2 DEF PlaceInv
  <2>4. entry # 0 => saver'[entry] \in {"waiting", "debounce", "saving"}
    BY <1>2, <1>3, <1>4, <2>1 DEF PlaceInv
  <2>5. \A c \in Clients : client[c] = "loaded" => saver'[using[c]] = "none"
    BY <1>2, <2>1, <2>2 DEF PlaceInv
  <2>6. /\ \A c \in Clients : /\ client[c] # "begin" => using[c] # 0
                              /\ client[c] = "waking" => marks[c] # 0
                              /\ client[c] = "added" => c \in keys[using[c]]
        /\ \A c, d \in Clients :
              client[c] = "loaded" /\ client[d] = "loaded" /\ using[c] = using[d] => c = d
    BY <1>2 DEF PlaceInv
  <2>7. QED BY <1>1, <2>3, <2>4, <2>5, <2>6 DEF PlaceInv
<1>7. FlagInv'
  <2>1. \A j \in Inst : dirty[j] => saver'[j] \notin {"none", "ended", "last"}
    BY <1>2, <1>4 DEF FlagInv
  <2>2. ASSUME NEW j \in Inst, dirty[j] PROVE Coming(j)'
    <3>1. Coming(j) /\ saver[j] # "ended"
      BY <1>2, <2>2 DEF FlagInv
    <3>2. saver[j] \in {"debounce", "cancelled"} => saver'[j] \in {"debounce", "cancelled"}
      BY <1>3, <1>4, <3>1
    <3>3. UNCHANGED <<wake, client, marks>>
      BY <1>1
    <3>4. QED BY <3>1, <3>2, <3>3 DEF Coming
  <2>3. QED BY <1>1, <2>1, <2>2 DEF FlagInv
<1>8. KeptInv'
  <2>1. AtWork(victim) /\ \A i \in Inst : i # 0
    BY DEF AtWork, Inst
  <2>2. \A i \in Inst : AtWork(i)' => AtWork(i)
    BY <1>1, <1>3, <1>4, <2>1 DEF AtWork
  <2>3. \A c \in Clients : KeyKept(c) => KeyKept(c)'
    BY <1>1, <1>3, <1>4 DEF KeyKept
  <2>4. QED BY <1>1, <1>2, <2>2, <2>3 DEF KeptInv
<1>9. QED BY <1>5, <1>6, <1>7, <1>8 DEF IndexInv

LEMMA IndexSteps ==
    ASSUME IndexInv, Index!Next
    PROVE  IndexInv'
BY GetCachedHolds, LoadHolds, InsertHolds, AddHolds, MarkDirtyHolds, NoSaverHolds, WakeSaverHolds,
   SaverWakesHolds, DebounceEndsHolds, SaveHolds, ListStaleHolds, RemoveEntryHolds, FlushHolds,
   FlushSavesHolds, CancelSaverHolds DEF Index!Next, Index!Instances, Inst

LEMMA IndexIsSafe == IndexInv => Index!TypeOK /\ Index!DirtyIsSeen /\ Index!MarkedKeysLast
BY DEF IndexInv, IndexTypes, FlagInv, Coming, KeptInv, KeyKept, Inst, Index!Instances,
   Index!TypeOK, Index!DirtyIsSeen, Index!MarkedKeysLast

-----------------------------------------------------------------------------
(* Schema migrations.  Unless they met, a migrator believes what is there. *)

\* A schema s has what version v claims.
Claims(s, v) ==
    /\ v >= 3 => s.approvals
    /\ v >= 4 => s.tags # "none"
    /\ v >= 5 => s.namespace
    /\ v >= 6 => s.tags = "nodes"

Schemas == [approvals : BOOLEAN, namespace : BOOLEAN, tags : {"none", "text", "nodes"}]

\* What a migrator believes is there, and what a file without a version is stamped with.
Believed(m) ==
    /\ migration_at[m] = "stamping" => Claims(schema, 6)
    /\ migration_at[m] \in {"climbing", "descending"} => Claims(schema, current[m])

MigrationInv ==
    /\ Migration!TypeOK /\ Migration!TagsSurviveUpgrades
    /\ goal \in [Migrators -> 0 .. 6]
    /\ ~crossed => /\ Claims(schema, version)
                   /\ version = 0 => Claims(schema, 6)
                   /\ \A m \in Migrators : Believed(m)

LEMMA MigrationStarts ==
    ASSUME Migration!Init
    PROVE  MigrationInv
<1>1. PICK v : v = (IF version = 0 THEN 6 ELSE version)
  OBVIOUS
<1>2. /\ version \in 0 .. 6 /\ v \in 0 .. 6 /\ v >= version /\ (version = 0 => v = 6)
      /\ schema = [approvals |-> v >= 3, namespace |-> v >= 5,
                   tags |-> IF v < 4 THEN "none" ELSE IF v < 6 THEN "text" ELSE "nodes"]
  BY <1>1 DEF Migration!Init, Migration!Target, Migration!Shape
<1>3. schema \in Schemas /\ Claims(schema, v)
  <2>1. /\ schema \in Schemas /\ schema.approvals = (v >= 3) /\ schema.namespace = (v >= 5)
        /\ schema.tags = IF v < 4 THEN "none" ELSE IF v < 6 THEN "text" ELSE "nodes"
    BY <1>2 DEF Schemas
  <2>2. (v >= 4 => schema.tags # "none") /\ (v >= 6 => schema.tags = "nodes")
    BY <1>2, <2>1
  <2>3. QED BY <2>1, <2>2 DEF Claims
<1>4. Claims(schema, version) /\ (version = 0 => Claims(schema, 6))
  BY <1>2, <1>3 DEF Claims
<1>5. /\ rows \subseteq Chunks \X Tags /\ nodes \subseteq Tags /\ rows = initially
      /\ version < 4 => rows = {}
      /\ version = 6 => nodes = Tags
      /\ migration_at = [m \in Migrators |-> "idle"] /\ current = [m \in Migrators |-> 0]
      /\ goal = [m \in Migrators |-> 0]
  BY DEF Migration!Init, Migration!Target
<1>6. schema.tags = "nodes" => \A r \in rows : r[2] \in nodes
  <2>1. schema.tags = "nodes" => v = 6
    BY <1>2
  <2>2. v = 6 => version \in {0, 6}
    BY <1>1
  <2>3. QED BY <2>1, <2>2, <1>5
<1>7. QED
  BY <1>2, <1>3, <1>4, <1>5, <1>6 DEF MigrationInv, Migration!TypeOK, Migration!Target, Schemas,
     Migration!TagsSurviveUpgrades, Believed

\* Up keeps what there was, adds what the next version claims and loses no tag.
LEMMA UpAdds ==
    ASSUME Migration!TypeOK, Migration!TagsSurviveUpgrades, NEW v \in 0 .. 5, Migration!Up(v)
    PROVE  /\ schema' \in Schemas /\ nodes' \subseteq Tags /\ rows' = rows
           /\ Claims(schema, v) => Claims(schema', v + 1)
           /\ \A w \in 0 .. 6 : Claims(schema, w) => Claims(schema', w)
           /\ schema'.tags = "nodes" => \A r \in rows' : r[2] \in nodes'
<1>1. /\ schema \in Schemas /\ nodes \subseteq Tags /\ rows \subseteq Chunks \X Tags
      /\ schema.tags = "nodes" => \A r \in rows : r[2] \in nodes
  BY DEF Migration!TypeOK, Migration!TagsSurviveUpgrades, Schemas
<1>2. CASE v = 5 /\ Migration!TagsByNode
  <2>1. /\ schema.tags # "none" /\ schema' = [schema EXCEPT !.tags = "nodes"]
        /\ nodes' = IF schema.tags = "nodes" THEN nodes ELSE nodes \cup {r[2] : r \in rows}
        /\ rows' = IF schema.tags = "nodes" THEN rows ELSE {r \in rows : r[2] \in nodes'}
    BY <1>2 DEF Migration!TagsByNode
  <2>2. nodes' \subseteq Tags /\ \A r \in rows : r[2] \in nodes'
    BY <1>1, <2>1
  <2>3. rows' = rows
    BY <2>1, <2>2
  <2>4. /\ schema' \in Schemas /\ schema'.tags = "nodes"
        /\ schema'.approvals = schema.approvals /\ schema'.namespace = schema.namespace
    BY <1>1, <2>1 DEF Schemas
  <2>5. QED BY <1>2, <2>1, <2>2, <2>3, <2>4 DEF Claims
<1>3. CASE v # 5 \/ ~Migration!TagsByNode
  <2>1. /\ nodes' = nodes /\ rows' = rows
        /\ \/ v = 1 /\ schema' = schema
           \/ v = 2 /\ schema' = [schema EXCEPT !.approvals = TRUE]
           \/ v = 3 /\ schema' = [schema EXCEPT !.tags = IF @ = "none" THEN "text" ELSE @]
           \/ v = 4 /\ schema' = [schema EXCEPT !.namespace = TRUE]
    BY <1>3 DEF Migration!Up, Migration!Keep
  <2>2. schema' \in Schemas
    BY <1>1, <2>1 DEF Schemas
  <2>3. schema'.tags = "nodes" => schema.tags = "nodes"
    BY <1>1, <2>1 DEF Schemas
  <2>4. /\ schema.approvals => schema'.approvals
        /\ schema.namespace => schema'.namespace
        /\ schema.tags # "none" => schema'.tags # "none"
        /\ schema.tags = "nodes" => schema'.tags = "nodes"
        /\ v = 2 => schema'.approvals
        /\ v = 3 => schema'.tags # "none"
        /\ v = 4 => schema'.namespace
    BY <1>1, <2>1 DEF Schemas
  <2>5. QED BY <1>1, <2>1, <2>2, <2>3, <2>4 DEF Claims
<1>4. QED BY <1>2, <1>3

\* Down takes away no more than what the version it leaves claims.
LEMMA DownTakes ==
    ASSUME Migration!TypeOK, Migration!TagsSurviveUpgrades, NEW v \in 0 .. 6, Migration!Down(v)
    PROVE  /\ schema' \in Schemas /\ nodes' = nodes /\ rows' \subseteq rows /\ v >= 3 /\ v <= 5
           /\ Claims(schema, v) => Claims(schema', v - 1)
           /\ schema'.tags = "nodes" => schema.tags = "nodes"
<1>1. schema \in Schemas
  BY DEF Migration!TypeOK, Schemas
<1>2. /\ nodes' = nodes /\ rows' \subseteq rows
      /\ \/ v = 5 /\ schema' = [schema EXCEPT !.namespace = FALSE]
         \/ v = 4 /\ schema' = [schema EXCEPT !.tags = "none"]
         \/ v = 3 /\ schema' = [schema EXCEPT !.approvals = FALSE]
  BY DEF Migration!Down, Migration!Keep
<1>3. CASE v = 5 /\ schema' = [schema EXCEPT !.namespace = FALSE]
  <2>1. /\ schema' \in Schemas /\ schema'.approvals = schema.approvals /\ schema'.tags = schema.tags
    BY <1>1, <1>3 DEF Schemas
  <2>2. QED BY <1>2, <1>3, <2>1 DEF Claims
<1>4. CASE v = 4 /\ schema' = [schema EXCEPT !.tags = "none"]
  <2>1. /\ schema' \in Schemas /\ schema'.approvals = schema.approvals /\ schema'.tags = "none"
    BY <1>1, <1>4 DEF Schemas
  <2>2. QED BY <1>2, <1>4, <2>1 DEF Claims
<1>5. CASE v = 3 /\ schema' = [schema EXCEPT !.approvals = FALSE]
  <2>1. /\ schema' \in Schemas /\ schema'.tags = schema.tags
    BY <1>1, <1>5 DEF Schemas
  <2>2. QED BY <1>2, <1>5, <2>1 DEF Claims
<1>6. QED BY <1>2, <1>3, <1>4, <1>5

LEMMA MigrationSteps ==
    ASSUME MigrationInv, Migration!Next
    PROVE  MigrationInv'
<1>1. /\ version \in 0 .. 6 /\ schema \in Schemas /\ nodes \subseteq Tags
      /\ rows \subseteq Chunks \X Tags
      /\ migration_at \in [Migrators -> {"idle", "starting", "climbing", "descending", "stamping"}]
      /\ current \in [Migrators -> 0 .. 6] /\ goal \in [Migrators -> 0 .. 6]
      /\ Migration!TypeOK /\ Migration!TagsSurviveUpgrades
      /\ ~lowered => rows = initially
      /\ schema.tags = "nodes" => \A r \in rows : r[2] \in nodes
  BY DEF MigrationInv, Migration!TypeOK, Migration!TagsSurviveUpgrades, Migration!Target, Schemas
<1>2. ~crossed => /\ Claims(schema, version)
                  /\ version = 0 => Claims(schema, 6)
                  /\ \A n \in Migrators : Believed(n)
  BY DEF MigrationInv
<1>3. PICK m \in Migrators :
        \/ Migration!EnsureReads(m) \/ Migration!Stamp(m) \/ Migration!StartUp(m)
        \/ Migration!RunUp(m) \/ (\E target \in 1 .. 6 : Migration!StartDown(m, target))
        \/ Migration!RunDown(m) \/ Migration!Ends(m)
  BY DEF Migration!Next, Migration!Target
<1> DEFINE Typed ==
        /\ version' \in 0 .. 6 /\ schema' \in Schemas /\ nodes' \subseteq Tags
        /\ rows' \subseteq Chunks \X Tags
        /\ migration_at' \in [Migrators -> {"idle", "starting", "climbing", "descending", "stamping"}]
        /\ current' \in [Migrators -> 0 .. 6] /\ goal' \in [Migrators -> 0 .. 6]
        /\ ~lowered' => rows' = initially'
        /\ schema'.tags = "nodes" => \A r \in rows' : r[2] \in nodes'
<1> DEFINE Told ==
        ~crossed' => /\ Claims(schema', version')
                     /\ version' = 0 => Claims(schema', 6)
                     /\ \A n \in Migrators : Believed(n)'
<1>4. ASSUME Typed, Told PROVE MigrationInv'
  BY <1>4 DEF MigrationInv, Migration!TypeOK, Migration!TagsSurviveUpgrades, Migration!Target, Schemas
<1>5. CASE Migration!EnsureReads(m)
  <2>1. /\ migration_at' = [migration_at EXCEPT ![m] = IF version = 0 THEN "stamping" ELSE "starting"]
        /\ UNCHANGED <<version, schema, nodes, rows, current, goal, initially, lowered, crossed>>
    BY <1>5 DEF Migration!EnsureReads, Migration!fileVars, Migration!historyVars
  <2>2. Typed
    BY <1>1, <2>1
  <2>3. Told
    BY <1>1, <1>2, <2>1 DEF Believed
  <2>4. QED BY <1>4, <2>2, <2>3
<1>6. CASE Migration!Stamp(m)
  <2>1. /\ migration_at[m] = "stamping" /\ version' = 6
        /\ migration_at' = [migration_at EXCEPT ![m] = "idle"]
        /\ UNCHANGED <<schema, nodes, rows, current, goal, initially, lowered, crossed>>
    BY <1>6 DEF Migration!Stamp, Migration!Target, Migration!historyVars
  <2>2. Typed
    BY <1>1, <2>1
  <2>3. Told
    BY <1>1, <1>2, <2>1 DEF Believed
  <2>4. QED BY <1>4, <2>2, <2>3
<1>7. CASE Migration!StartUp(m)
  <2>1. /\ current' = [current EXCEPT ![m] = version]
        /\ migration_at' = [migration_at EXCEPT ![m] = "climbing"]
        /\ UNCHANGED <<version, schema, nodes, rows, goal, initially, lowered, crossed>>
    BY <1>7 DEF Migration!StartUp, Migration!fileVars, Migration!historyVars
  <2>2. Typed
    BY <1>1, <2>1
  <2>3. Told
    BY <1>1, <1>2, <2>1 DEF Believed
  <2>4. QED BY <1>4, <2>2, <2>3
<1>8. CASE Migration!RunUp(m)
  <2>0. PICK v : v = current[m]
    OBVIOUS
  <2>1. /\ migration_at[m] = "climbing" /\ v < 6 /\ Migration!Up(v) /\ version' = v + 1
        /\ current' = [current EXCEPT ![m] = v + 1]
        /\ UNCHANGED <<migration_at, goal, initially, lowered, crossed>>
    BY <1>8, <2>0 DEF Migration!RunUp, Migration!Target, Migration!historyVars
  <2>2. v \in 0 .. 5
    BY <1>1, <2>0, <2>1
  <2>3. /\ schema' \in Schemas /\ nodes' \subseteq Tags /\ rows' = rows
        /\ Claims(schema, v) => Claims(schema', v + 1)
        /\ \A w \in 0 .. 6 : Claims(schema, w) => Claims(schema', w)
        /\ schema'.tags = "nodes" => \A r \in rows' : r[2] \in nodes'
    BY <1>1, <2>1, <2>2, UpAdds
  <2>4. v + 1 \in 0 .. 6 /\ v + 1 # 0
    BY <2>2
  <2>5. Typed
    BY <1>1, <2>1, <2>3, <2>4
  <2>6. Told
    <3> SUFFICES ASSUME ~crossed' PROVE Claims(schema', version') /\ \A n \in Migrators : Believed(n)'
      BY <2>1, <2>4
    <3>1. Claims(schema', v + 1)
      BY <1>2, <2>0, <2>1, <2>3 DEF Believed
    <3>2. ASSUME NEW n \in Migrators PROVE Believed(n)'
      <4>1. Believed(n)
        BY <1>2, <2>1
      <4>2. migration_at'[n] = "stamping" => Claims(schema', 6)
        BY <2>1, <2>3, <4>1 DEF Believed
      <4>3. CASE n = m
        <5>1. current'[n] = v + 1
          BY <1>1, <2>1, <4>3
        <5>2. QED BY <3>1, <4>2, <5>1 DEF Believed
      <4>4. CASE n # m
        <5>1. current'[n] = current[n] /\ current[n] \in 0 .. 6
          BY <1>1, <2>1, <4>4
        <5>2. QED BY <2>1, <2>3, <4>1, <4>2, <5>1 DEF Believed
      <4>5. QED BY <4>3, <4>4
    <3>3. QED BY <2>1, <3>1, <3>2
  <2>7. QED BY <1>4, <2>5, <2>6
<1>9. ASSUME NEW target \in 1 .. 6, Migration!StartDown(m, target) PROVE MigrationInv'
  <2>1. /\ current' = [current EXCEPT ![m] = version] /\ goal' = [goal EXCEPT ![m] = target]
        /\ migration_at' = [migration_at EXCEPT ![m] = "descending"] /\ (~crossed' => ~crossed)
        /\ UNCHANGED <<version, schema, nodes, rows, initially, lowered>>
    BY <1>9 DEF Migration!StartDown, Migration!fileVars
  <2>2. Typed
    BY <1>1, <2>1
  <2>3. Told
    BY <1>1, <1>2, <2>1 DEF Believed
  <2>4. QED BY <1>4, <2>2, <2>3
<1>10. CASE Migration!RunDown(m)
  <2>0. PICK v : v = current[m]
    OBVIOUS
  <2>1. /\ migration_at[m] = "descending" /\ Migration!Down(v) /\ version' = v - 1
        /\ current' = [current EXCEPT ![m] = v - 1] /\ lowered' = TRUE
        /\ (~crossed' => ~crossed /\ \A n \in Migrators \ {m} : ~Migration!Busy(n))
        /\ UNCHANGED <<migration_at, goal, initially>>
    BY <1>10, <2>0 DEF Migration!RunDown
  <2>2. v \in 0 .. 6
    BY <1>1, <2>0
  <2>3. /\ schema' \in Schemas /\ nodes' = nodes /\ rows' \subseteq rows /\ v >= 3 /\ v <= 5
        /\ Claims(schema, v) => Claims(schema', v - 1)
        /\ schema'.tags = "nodes" => schema.tags = "nodes"
    BY <1>1, <2>1, <2>2, DownTakes
  <2>4. v - 1 \in 0 .. 6 /\ v - 1 # 0
    BY <2>2, <2>3
  <2>5. Typed
    BY <1>1, <2>1, <2>3, <2>4
  <2>6. Told
    <3> SUFFICES ASSUME ~crossed' PROVE Claims(schema', version') /\ \A n \in Migrators : Believed(n)'
      BY <2>1, <2>4
    <3>1. Claims(schema', v - 1)
      BY <1>2, <2>0, <2>1, <2>3 DEF Believed
    <3>2. ASSUME NEW n \in Migrators, n # m PROVE Believed(n)'
      BY <2>1, <3>2 DEF Believed, Migration!Busy
    <3>3. Believed(m)'
      BY <1>1, <2>1, <3>1 DEF Believed
    <3>4. QED BY <2>1, <3>1, <3>2, <3>3
  <2>7. QED BY <1>4, <2>5, <2>6
<1>11. CASE Migration!Ends(m)
  <2>1. /\ migration_at' = [migration_at EXCEPT ![m] = "idle"]
        /\ current' = [current EXCEPT ![m] = 0] /\ goal' = [goal EXCEPT ![m] = 0]
        /\ UNCHANGED <<version, schema, nodes, rows, initially, lowered, crossed>>
    BY <1>11 DEF Migration!Ends, Migration!fileVars, Migration!historyVars
  <2>2. Typed
    BY <1>1, <2>1
  <2>3. Told
    BY <1>1, <1>2, <2>1 DEF Believed
  <2>4. QED BY <1>4, <2>2, <2>3
<1>12. QED BY <1>3, <1>5, <1>6, <1>7, <1>8, <1>9, <1>10, <1>11

LEMMA MigrationIsSafe == MigrationInv => Migration!TypeOK /\ Migration!VersionIsNotAhead /\ Migration!TagsSurviveUpgrades
BY DEF MigrationInv, Migration!VersionIsNotAhead, Claims

-----------------------------------------------------------------------------
(* The rows of sessions.  A row is as far from the end of what was appended *)
(* as there are rows after it.                                             *)

SessionStages ==
    {"idle", "streaming", "failed", "user", "insert_user", "assistant", "insert_assistant",
     "appended", "told", "gone"}
Rows == Turns \X {"user", "assistant"}

Greater(S, n) == {m \in S : m > n}
Place(l, S, n) == Len(l) - Cardinality(Greater(S, n))

\* The rows that are left are the end of what was appended, in its order, each as far from
\* the end as there are greater numbers; the last KeepLast are among them.
RowInv(r, l) ==
    /\ DOMAIN r \subseteq Nat /\ IsFiniteSet(DOMAIN r)
    /\ DOMAIN r # {} => \E n \in DOMAIN r : \A m \in DOMAIN r : m <= n
    /\ \A n \in DOMAIN r : Place(l, DOMAIN r, n) \in DOMAIN l /\ r[n] = l[Place(l, DOMAIN r, n)]
    /\ \A i \in DOMAIN l : i > Len(l) - KeepLast =>
           \E n \in DOMAIN r : Place(l, DOMAIN r, n) = i

\* What a turn has tried to append is in the log, or was lost.
Tried(t) ==
    {<<t, "user">> : s \in {turn[t]} \cap {"assistant", "insert_assistant", "appended", "told"}}
        \cup {<<t, "assistant">> : s \in {turn[t]} \cap {"appended", "told"}}
Recorded(x) == x \in lost \/ Within(log, x)

\* What a turn u that has loaded the history knows of x.
Known(u, x) ==
    \/ x \in lost \cup history[u]
    \/ \E i \in 1 .. before[u].length - KeepLast : i \in DOMAIN log /\ log[i] = x

SessionInv ==
    /\ turn \in [Turns -> SessionStages] /\ log \in Seq(Rows)
    /\ number \in [Turns -> Nat] /\ newest \in [Turns -> BOOLEAN]
    /\ history \in [Turns -> SUBSET Rows]
    /\ before \in [Turns -> [length : Nat, told : SUBSET Turns]]
    /\ RowInv(session_rows, log)
    /\ \A t \in Turns : newest[t] => \A m \in DOMAIN session_rows : m < number[t]
    /\ \A t \in Turns, x \in Rows : x \in Tried(t) => Recorded(x)
    /\ \A u \in Turns, t \in Turns, x \in Rows :
           t \in before[u].told /\ x[1] = t => Known(u, x)

LEMMA SameCardinality == \A S : Session!Cardinality(S) = Cardinality(S)
BY DEF Session!Cardinality, Cardinality

\* Numbers that are greater have fewer above them.
LEMMA FewerAbove ==
    ASSUME NEW S \in SUBSET Nat, IsFiniteSet(S), NEW m \in S, NEW n \in S, m < n
    PROVE  /\ Greater(S, n) \subseteq Greater(S, m)
           /\ Cardinality(Greater(S, n)) \in Nat /\ Cardinality(Greater(S, m)) \in Nat
           /\ Cardinality(Greater(S, n)) < Cardinality(Greater(S, m))
<1>1. Greater(S, n) \subseteq Greater(S, m) /\ n \in Greater(S, m) /\ n \notin Greater(S, n)
  <2>1. m \in Nat /\ n \in Nat /\ n > m /\ ~(n > n) /\ \A k \in S : k \in Nat
    OBVIOUS
  <2>2. \A k \in S : k > n => k > m
    BY <2>1
  <2>3. QED BY <2>1, <2>2 DEF Greater
<1>2. IsFiniteSet(Greater(S, m)) /\ IsFiniteSet(Greater(S, n))
  <2>1. Greater(S, m) \in SUBSET S /\ Greater(S, n) \in SUBSET S
    BY DEF Greater
  <2>2. QED BY <2>1, FS_Subset
<1>3. /\ Cardinality(Greater(S, n)) <= Cardinality(Greater(S, m))
      /\ Cardinality(Greater(S, m)) = Cardinality(Greater(S, n)) => Greater(S, m) = Greater(S, n)
  BY <1>1, <1>2, FS_Subset
<1>4. Cardinality(Greater(S, n)) \in Nat /\ Cardinality(Greater(S, m)) \in Nat
  BY <1>2, FS_CardinalityType
<1>5. QED BY <1>1, <1>3, <1>4

LEMMA AboveIsFinite ==
    ASSUME NEW S, IsFiniteSet(S), NEW n
    PROVE  IsFiniteSet(Greater(S, n)) /\ Cardinality(Greater(S, n)) \in Nat
<1>1. Greater(S, n) \in SUBSET S
  BY DEF Greater
<1>2. QED BY <1>1, FS_Subset, FS_CardinalityType

LEMMA NextIsAbove ==
    ASSUME RowInv(session_rows, log)
    PROVE  Session!NextNumber \in Nat /\ \A m \in DOMAIN session_rows : m < Session!NextNumber
<1>1. CASE DOMAIN session_rows = {}
  BY <1>1 DEF Session!NextNumber
<1>2. CASE DOMAIN session_rows # {}
  <2>1. PICK n \in DOMAIN session_rows : \A m \in DOMAIN session_rows : m <= n
    BY <1>2 DEF RowInv
  <2>2. PICK top : top = Session!Max(DOMAIN session_rows)
    OBVIOUS
  <2>3. DOMAIN session_rows \subseteq Nat
    BY DEF RowInv
  <2>4. top \in DOMAIN session_rows /\ \A m \in DOMAIN session_rows : top >= m
    BY <2>1, <2>2, <2>3 DEF Session!Max
  <2>5. Session!NextNumber = top + 1
    BY <1>2, <2>2 DEF Session!NextNumber
  <2>6. QED BY <2>3, <2>4, <2>5
<1>3. QED BY <1>1, <1>2

\* A row with a number above all others is the newest.
LEMMA InsertKeepsRows ==
    ASSUME NEW r, NEW l \in Seq(Rows), RowInv(r, l), NEW k \in Nat, \A m \in DOMAIN r : m < k,
           NEW x \in Rows, NEW q, NEW d,
           DOMAIN q = DOMAIN r \cup {k}, q[k] = x, \A n \in DOMAIN r : q[n] = r[n],
           d = Append(l, x)
    PROVE  RowInv(q, d)
<1> DEFINE S == DOMAIN r
           T == DOMAIN q
<1>1. /\ S \in SUBSET Nat /\ IsFiniteSet(S) /\ T = S \cup {k} /\ k \notin S
      /\ T \subseteq Nat /\ q[k] = x /\ \A n \in S : q[n] = r[n] /\ n # k
  BY DEF RowInv
<1>2. /\ d \in Seq(Rows) /\ Len(d) = Len(l) + 1 /\ Len(l) \in Nat /\ d[Len(l) + 1] = x
      /\ DOMAIN l = 1 .. Len(l) /\ DOMAIN d = 1 .. Len(l) + 1
      /\ \A i \in DOMAIN l : i \in DOMAIN d /\ d[i] = l[i]
  BY AppendedTo
<1>9. \A m \in S : m < k /\ m \in Nat
  BY DEF RowInv
<1> HIDE DEF S, T
<1>3. IsFiniteSet(T)
  BY <1>1, FS_AddElement
<1>4. \E n \in T : \A m \in T : m <= n
  <2>1. k \in T /\ \A m \in T : m <= k
    BY <1>1, <1>9
  <2>2. QED BY <2>1
<1>5. Greater(T, k) = {} /\ Place(d, T, k) = Len(l) + 1
  <2>1. \A m \in T : ~(m > k)
    BY <1>1, <1>9
  <2>2. Greater(T, k) = {}
    BY <2>1 DEF Greater
  <2>3. Cardinality(Greater(T, k)) = 0
    BY <2>2, FS_EmptySet
  <2>4. QED BY <1>2, <2>2, <2>3 DEF Place
<1>6. ASSUME NEW n \in S PROVE Place(d, T, n) = Place(l, S, n)
  <2>1. Greater(T, n) = Greater(S, n) \cup {k} /\ k \notin Greater(S, n)
    BY <1>1, <1>9 DEF Greater
  <2>2. IsFiniteSet(Greater(S, n)) /\ Cardinality(Greater(S, n)) \in Nat
    BY <1>1, AboveIsFinite
  <2>3. Cardinality(Greater(T, n)) = Cardinality(Greater(S, n)) + 1
    BY <2>1, <2>2, FS_AddElement
  <2>4. QED BY <1>2, <2>2, <2>3 DEF Place
<1>7. ASSUME NEW n \in T PROVE Place(d, T, n) \in DOMAIN d /\ q[n] = d[Place(d, T, n)]
  <2>1. CASE n = k
    <3>1. Place(d, T, n) = Len(l) + 1 /\ q[n] = x
      BY <1>1, <1>5, <2>1
    <3>2. Len(l) + 1 \in 1 .. Len(l) + 1
      BY <1>2
    <3>3. QED BY <1>2, <3>1, <3>2
  <2>2. CASE n \in S
    <3>1. Place(l, S, n) \in DOMAIN l /\ r[n] = l[Place(l, S, n)]
      BY <2>2 DEF RowInv, S
    <3>2. QED BY <1>1, <1>2, <1>6, <2>2, <3>1
  <2>3. QED BY <1>1, <2>1, <2>2
<1>8. ASSUME NEW i \in DOMAIN d, i > Len(d) - KeepLast PROVE \E n \in T : Place(d, T, n) = i
  <2>1. CASE i = Len(l) + 1
    BY <1>1, <1>5, <2>1
  <2>2. CASE i # Len(l) + 1
    <3>1. i \in DOMAIN l /\ i > Len(l) - KeepLast
      BY <1>2, <1>8, <2>2, SessionAssumption
    <3>2. PICK n \in S : Place(l, S, n) = i
      BY <3>1 DEF RowInv, S
    <3>3. QED BY <1>1, <1>6, <3>2
  <2>3. QED BY <2>1, <2>2
<1>10. QED BY <1>1, <1>3, <1>4, <1>7, <1>8 DEF RowInv, T

\* A trim takes rows away from the beginning, and never one of the last KeepLast.
LEMMA TrimKeepsRows ==
    ASSUME NEW r, NEW l \in Seq(Rows), RowInv(r, l), NEW q,
           q = [n \in {m \in DOMAIN r : ~(Cardinality({h \in DOMAIN r : h > m}) >= KeepLast)} |-> r[n]]
    PROVE  RowInv(q, l) /\ DOMAIN q \subseteq DOMAIN r
<1> DEFINE S == DOMAIN r
           T == DOMAIN q
<1>1. /\ S \in SUBSET Nat /\ IsFiniteSet(S)
      /\ T = {m \in S : ~(Cardinality(Greater(S, m)) >= KeepLast)}
      /\ T \in SUBSET S /\ \A n \in T : q[n] = r[n]
  BY DEF RowInv, Greater
<1>2. IsFiniteSet(T) /\ T \subseteq Nat /\ T \subseteq S
  BY <1>1, FS_Subset
<1> HIDE DEF S, T
<1>3. \A n \in S : Cardinality(Greater(S, n)) \in Nat
  BY <1>1, AboveIsFinite
<1>4. ASSUME NEW n \in T PROVE Greater(T, n) = Greater(S, n)
  <2>1. ASSUME NEW m \in S, m > n PROVE m \in T
    <3>1. n \in S /\ n < m
      BY <1>1, <1>2, <2>1
    <3>2. Cardinality(Greater(S, m)) < Cardinality(Greater(S, n))
      BY <1>1, <3>1, FewerAbove
    <3>3. ~(Cardinality(Greater(S, n)) >= KeepLast)
      BY <1>1
    <3>4. QED BY <1>1, <1>3, <3>1, <3>2, <3>3, SessionAssumption
  <2>2. QED BY <1>2, <2>1 DEF Greater
<1>5. \A n \in T : Place(l, T, n) = Place(l, S, n)
  BY <1>4 DEF Place
<1>6. T # {} => \E n \in T : \A m \in T : m <= n
  <2>1. SUFFICES ASSUME NEW t \in T PROVE \E n \in T : \A m \in T : m <= n
    OBVIOUS
  <2>2. PICK n \in S : \A m \in S : m <= n
    BY <1>2, <2>1 DEF RowInv, S
  <2>3. Greater(S, n) = {}
    <3>1. n \in Nat /\ \A m \in S : m \in Nat /\ m <= n
      BY <1>1, <2>2
    <3>2. \A m \in S : ~(m > n)
      BY <3>1
    <3>3. QED BY <3>2 DEF Greater
  <2>4. Cardinality(Greater(S, n)) = 0
    BY <2>3, FS_EmptySet
  <2>5. Cardinality(Greater(S, t)) \in Nat /\ ~(Cardinality(Greater(S, t)) >= KeepLast)
    BY <1>1, <1>3, <2>1
  <2>6. n \in T
    BY <1>1, <2>4, <2>5, SessionAssumption
  <2>7. QED BY <1>2, <2>2, <2>6
<1>7. ASSUME NEW i \in DOMAIN l, i > Len(l) - KeepLast PROVE \E n \in T : Place(l, T, n) = i
  <2>1. PICK n \in S : Place(l, S, n) = i
    BY <1>7 DEF RowInv, S
  <2>2. Cardinality(Greater(S, n)) < KeepLast
    <3>1. Len(l) \in Nat /\ i = Len(l) - Cardinality(Greater(S, n))
      BY <2>1 DEF Place
    <3>2. QED BY <1>3, <1>7, <3>1, SessionAssumption
  <2>3. n \in T
    BY <1>1, <1>3, <2>2, SessionAssumption
  <2>4. QED BY <1>5, <2>1, <2>3
<1>8. ASSUME NEW n \in T PROVE Place(l, T, n) \in DOMAIN l /\ q[n] = l[Place(l, T, n)]
  <2>1. Place(l, S, n) \in DOMAIN l /\ r[n] = l[Place(l, S, n)]
    BY <1>2 DEF RowInv, S
  <2>2. QED BY <1>1, <1>5, <2>1
<1>9. QED BY <1>2, <1>6, <1>7, <1>8 DEF RowInv, S, T

-----------------------------------------------------------------------------
LEMMA SessionStarts ==
    ASSUME Session!Init
    PROVE  SessionInv
<1>1. /\ session_rows = [n \in {} |-> 0] /\ log = <<>>
      /\ turn = [t \in Turns |-> "idle"]
      /\ number = [t \in Turns |-> 0] /\ newest = [t \in Turns |-> FALSE]
      /\ history = [t \in Turns |-> {}]
      /\ before = [t \in Turns |-> [length |-> 0, told |-> {}]]
  BY DEF Session!Init
<1>2. RowInv(session_rows, log)
  <2>1. DOMAIN session_rows = {} /\ DOMAIN log = {}
    BY <1>1
  <2>2. QED BY <2>1, FS_EmptySet DEF RowInv
<1>3. \A t \in Turns : Tried(t) = {}
  BY <1>1 DEF Tried
<1>4. /\ turn \in [Turns -> SessionStages] /\ log \in Seq(Rows)
      /\ number \in [Turns -> Nat] /\ newest \in [Turns -> BOOLEAN]
      /\ history \in [Turns -> SUBSET Rows]
      /\ before \in [Turns -> [length : Nat, told : SUBSET Turns]]
      /\ \A t \in Turns : newest[t] = FALSE /\ before[t].told = {}
  BY <1>1 DEF SessionStages
<1>5. QED BY <1>2, <1>3, <1>4 DEF SessionInv

\* Steps that leave rows and log alone but for rows that were lost.
LEMMA QuietTurnHolds ==
    ASSUME SessionInv, UNCHANGED <<session_rows, log, history, before>>,
           lost \subseteq lost', turn' \in [Turns -> SessionStages],
           number' \in [Turns -> Nat], newest' \in [Turns -> BOOLEAN],
           \A t \in Turns : newest'[t] => \A m \in DOMAIN session_rows : m < number'[t],
           \A t \in Turns : \A x \in Tried(t)' : x \in Tried(t) \/ x \in lost' \/ Within(log, x)
    PROVE  SessionInv'
<1>1. \A x : Recorded(x) => Recorded(x)'
  BY DEF Recorded
<1>2. \A u \in Turns, x \in Rows : Known(u, x) => Known(u, x)'
  BY DEF Known
<1>3. \A t \in Turns, x \in Rows : x \in Tried(t)' => Recorded(x)'
  BY <1>1 DEF SessionInv, Recorded
<1>4. \A u \in Turns, t \in Turns, x \in Rows : t \in before'[u].told /\ x[1] = t => Known(u, x)'
  BY <1>2 DEF SessionInv
<1>5. QED BY <1>3, <1>4 DEF SessionInv

\* A stage before the first append, or beside the way, has tried nothing.
LEMMA NothingTried ==
    ASSUME NEW t \in Turns, turn[t] \notin {"assistant", "insert_assistant", "appended", "told"}
    PROVE  Tried(t) = {}
BY DEF Tried

LEMMA LoadHistoryHolds ==
    ASSUME SessionInv, NEW u \in Turns, Session!LoadHistory(u)
    PROVE  SessionInv'
<1>1. /\ turn[u] = "idle" /\ turn' = [turn EXCEPT ![u] = "streaming"]
      /\ history' = [history EXCEPT ![u] = {session_rows[n] : n \in DOMAIN session_rows}]
      /\ before' = [before EXCEPT ![u] = [length |-> Len(log), told |-> {t \in Turns : turn[t] = "told"}]]
      /\ UNCHANGED <<session_rows, log, number, newest, lost>>
  BY DEF Session!LoadHistory, Session!At, Session!Told, Session!rowVars, Session!appendVars
<1>2. /\ turn \in [Turns -> SessionStages] /\ log \in Seq(Rows)
      /\ history \in [Turns -> SUBSET Rows]
      /\ before \in [Turns -> [length : Nat, told : SUBSET Turns]]
      /\ RowInv(session_rows, log) /\ Len(log) \in Nat /\ DOMAIN log = 1 .. Len(log)
  BY DEF SessionInv
<1>3. /\ \A t \in Turns : t # u => turn'[t] = turn[t] /\ before'[t] = before[t] /\ history'[t] = history[t]
      /\ turn'[u] = "streaming" /\ turn' \in [Turns -> SessionStages]
      /\ history'[u] = {session_rows[n] : n \in DOMAIN session_rows}
      /\ before'[u].length = Len(log) /\ before'[u].told = {t \in Turns : turn[t] = "told"}
      /\ before' \in [Turns -> [length : Nat, told : SUBSET Turns]]
  BY <1>1, <1>2 DEF SessionStages
<1>4. {session_rows[n] : n \in DOMAIN session_rows} \subseteq Rows
  <2>1. \A n \in DOMAIN session_rows : \E i \in DOMAIN log : session_rows[n] = log[i]
    BY <1>2 DEF RowInv
  <2>2. \A i \in DOMAIN log : log[i] \in Rows
    BY <1>2
  <2>3. QED BY <2>1, <2>2
<1>5. history' \in [Turns -> SUBSET Rows]
  BY <1>1, <1>2, <1>4
<1>6. \A t \in Turns, x \in Rows : x \in Tried(t)' => Recorded(x)'
  <2>1. Tried(u)' = {}
    BY <1>3 DEF Tried
  <2>2. \A t \in Turns : t # u => Tried(t)' = Tried(t)
    BY <1>3 DEF Tried
  <2>3. \A x : Recorded(x)' <=> Recorded(x)
    BY <1>1 DEF Recorded
  <2>4. QED BY <2>1, <2>2, <2>3 DEF SessionInv
<1>7. ASSUME NEW w \in Turns, NEW t \in Turns, NEW x \in Rows, t \in before'[w].told, x[1] = t
      PROVE  Known(w, x)'
  <2>1. CASE w # u
    <3>1. Known(w, x)
      BY <1>3, <1>7, <2>1 DEF SessionInv
    <3>2. before'[w] = before[w] /\ history'[w] = history[w] /\ lost' = lost /\ log' = log
      BY <1>1, <1>3, <2>1
    <3>3. QED BY <3>1, <3>2 DEF Known
  <2>2. CASE w = u
    <3>1. turn[t] = "told"
      BY <1>3, <1>7, <2>2
    <3>2. x \in Tried(t)
      <4>1. PICK role \in {"user", "assistant"} : x = <<t, role>>
        BY <1>7 DEF Rows
      <4>2. QED BY <3>1, <4>1 DEF Tried
    <3>3. x \in lost \/ Within(log, x)
      BY <3>2 DEF SessionInv, Recorded
    <3>4. CASE x \in lost
      BY <1>1, <3>4 DEF Known
    <3>5. ASSUME NEW i \in DOMAIN log, log[i] = x PROVE Known(u, x)'
      <4>1. CASE i > Len(log) - KeepLast
        <5>1. PICK n \in DOMAIN session_rows : Place(log, DOMAIN session_rows, n) = i
          BY <1>2, <4>1 DEF RowInv
        <5>2. session_rows[n] = x
          BY <1>2, <3>5, <5>1 DEF RowInv
        <5>3. x \in history'[u]
          BY <1>3, <5>2
        <5>4. QED BY <5>3 DEF Known
      <4>2. CASE ~(i > Len(log) - KeepLast)
        <5>1. i \in 1 .. before'[u].length - KeepLast
          BY <1>2, <1>3, <4>2, SessionAssumption
        <5>2. log' = log
          BY <1>1
        <5>3. QED BY <3>5, <5>1, <5>2 DEF Known
      <4>3. QED BY <4>1, <4>2
    <3>6. QED BY <2>2, <3>3, <3>4, <3>5 DEF Within
  <2>3. QED BY <2>1, <2>2
<1>8. QED BY <1>1, <1>2, <1>3, <1>5, <1>6, <1>7 DEF SessionInv

LEMMA InsertRowHolds ==
    ASSUME SessionInv, NEW t \in Turns, NEW role \in {"user", "assistant"}, Session!InsertRow(t, role)
    PROVE  SessionInv'
<1>0. PICK x : x = <<t, role>>
  OBVIOUS
<1>1. /\ newest[t] /\ turn[t] = Session!Inserting(role)
      /\ turn' = [turn EXCEPT ![t] = Session!After(role)]
      /\ session_rows' = [n \in DOMAIN session_rows \cup {number[t]} |->
                              IF n = number[t] THEN x ELSE session_rows[n]]
      /\ log' = Append(log, x)
      /\ newest' = [s \in Turns |-> FALSE]
      /\ UNCHANGED <<number, history, before, lost>>
  BY <1>0 DEF Session!InsertRow, Session!At, Session!Outdate, Session!loadVars
<1>2. /\ turn \in [Turns -> SessionStages] /\ log \in Seq(Rows) /\ number \in [Turns -> Nat]
      /\ x \in Rows /\ RowInv(session_rows, log)
      /\ \A m \in DOMAIN session_rows : m < number[t]
  BY <1>0, <1>1 DEF SessionInv, Rows
<1>3. /\ log' \in Seq(Rows) /\ Within(log', x) /\ (\A y : Within(log, y) => Within(log', y))
      /\ \A i \in DOMAIN log : i \in DOMAIN log' /\ log'[i] = log[i]
  BY <1>1, <1>2, AppendedTo
<1>4. RowInv(session_rows', log')
  <2>1. PICK k \in Nat : k = number[t]
    BY <1>2
  <2>3. \A m \in DOMAIN session_rows : m < k
    BY <1>2, <2>1
  <2>6. k \notin DOMAIN session_rows
    BY <2>3
  <2>2. /\ DOMAIN session_rows' = DOMAIN session_rows \cup {k} /\ session_rows'[k] = x
        /\ \A n \in DOMAIN session_rows : session_rows'[n] = session_rows[n]
    BY <1>1, <2>1, <2>6
  <2>4. /\ RowInv(session_rows, log) /\ log \in Seq(Rows) /\ x \in Rows
        /\ log' = Append(log, x)
    BY <1>1, <1>2
  <2>5. QED BY <2>2, <2>3, <2>4, InsertKeepsRows
<1>5. /\ turn'[t] = Session!After(role) /\ \A s \in Turns : s # t => turn'[s] = turn[s]
      /\ turn' \in [Turns -> SessionStages]
  BY <1>1, <1>2 DEF Session!After, SessionStages
<1>6. \A s \in Turns, y \in Rows : y \in Tried(s)' => Recorded(y)'
  <2>1. \A y : Recorded(y) => Recorded(y)'
    BY <1>1, <1>3 DEF Recorded
  <2>2. \A s \in Turns : s # t => Tried(s)' = Tried(s)
    BY <1>5 DEF Tried
  <2>3. \A y \in Tried(t)' : y \in Tried(t) \/ y = x
    BY <1>0, <1>1, <1>5 DEF Tried, Session!Inserting, Session!After
  <2>4. Recorded(x)'
    BY <1>3 DEF Recorded
  <2>5. QED BY <2>1, <2>2, <2>3, <2>4 DEF SessionInv
<1>7. \A u \in Turns, y \in Rows : Known(u, y) => Known(u, y)'
  BY <1>1, <1>3 DEF Known
<1>8. newest' \in [Turns -> BOOLEAN] /\ \A s \in Turns : ~newest'[s]
  BY <1>1
<1>9. \A u \in Turns, s \in Turns, y \in Rows : s \in before'[u].told /\ y[1] = s => Known(u, y)'
  BY <1>1, <1>7 DEF SessionInv
<1>10. QED BY <1>1, <1>2, <1>3, <1>4, <1>5, <1>6, <1>8, <1>9 DEF SessionInv

LEMMA TrimHolds ==
    ASSUME SessionInv, NEW t \in Turns, Session!Trim(t)
    PROVE  SessionInv'
<1>1. /\ UNCHANGED <<turn, number, history, before, log, lost>>
      /\ \/ /\ session_rows' = [n \in {m \in DOMAIN session_rows : ~Session!Cutoff(m)} |-> session_rows[n]]
            /\ IF session_rows' # session_rows THEN newest' = [s \in Turns |-> FALSE] ELSE newest' = newest
         \/ session_rows' = session_rows /\ newest' = newest
  BY DEF Session!Trim, Session!Outdate, Session!loadVars
<1>2. RowInv(session_rows, log) /\ log \in Seq(Rows) /\ newest \in [Turns -> BOOLEAN]
  BY DEF SessionInv
<1>3. RowInv(session_rows', log)
  <2>1. CASE session_rows' = [n \in {m \in DOMAIN session_rows : ~Session!Cutoff(m)} |-> session_rows[n]]
    <3>1. \A m : Session!Cutoff(m) <=> Cardinality({h \in DOMAIN session_rows : h > m}) >= KeepLast
      BY SameCardinality DEF Session!Cutoff
    <3>2. session_rows' =
            [n \in {m \in DOMAIN session_rows :
                      ~(Cardinality({h \in DOMAIN session_rows : h > m}) >= KeepLast)} |-> session_rows[n]]
      BY <2>1, <3>1
    <3>3. QED BY <1>2, <3>2, TrimKeepsRows
  <2>2. QED BY <1>1, <1>2, <2>1
<1>4. /\ newest' \in [Turns -> BOOLEAN]
      /\ \A s \in Turns : newest'[s] => \A m \in DOMAIN session_rows' : m < number[s]
  <2>1. CASE newest' = [s \in Turns |-> FALSE]
    BY <2>1
  <2>2. CASE session_rows' = session_rows /\ newest' = newest
    BY <2>2 DEF SessionInv
  <2>3. QED BY <1>1, <2>1, <2>2
<1>5. \A x : Recorded(x)' <=> Recorded(x)
  BY <1>1 DEF Recorded
<1>6. \A s \in Turns : Tried(s)' = Tried(s)
  BY <1>1 DEF Tried
<1>7. \A u \in Turns, x \in Rows : Known(u, x)' <=> Known(u, x)
  BY <1>1 DEF Known
<1>8. QED BY <1>1, <1>3, <1>4, <1>5, <1>6, <1>7 DEF SessionInv

\* The other steps leave the rows alone.
LEMMA TurnHolds ==
    ASSUME SessionInv, NEW t \in Turns,
           \/ Session!StreamEnds(t) \/ Session!StreamFails(t) \/ Session!TellClient(t)
           \/ Session!Disconnect(t)
           \/ \E role \in {"user", "assistant"} :
                Session!ReadNumber(t, role) \/ Session!AppendFails(t, role)
    PROVE  SessionInv'
<1>1. turn \in [Turns -> SessionStages] /\ number \in [Turns -> Nat] /\ newest \in [Turns -> BOOLEAN]
  BY DEF SessionInv
<1>2. \A s \in Turns : newest[s] => \A m \in DOMAIN session_rows : m < number[s]
  BY DEF SessionInv
<1>3. ASSUME NEW to \in SessionStages, turn' = [turn EXCEPT ![t] = to], lost' = lost,
             UNCHANGED <<session_rows, log, history, before, number, newest>>,
             \/ to \notin {"assistant", "insert_assistant", "appended", "told"}
             \/ turn[t] = "appended" /\ to = "told"
      PROVE  SessionInv'
  <2>1. turn' \in [Turns -> SessionStages] /\ turn'[t] = to /\ \A s \in Turns : s # t => turn'[s] = turn[s]
    BY <1>1, <1>3
  <2>2. \A s \in Turns : \A x \in Tried(s)' : x \in Tried(s)
    BY <1>3, <2>1 DEF Tried
  <2>3. QED BY <1>1, <1>2, <1>3, <2>1, <2>2, QuietTurnHolds
<1>4. CASE Session!StreamEnds(t)
  BY <1>3, <1>4 DEF Session!StreamEnds, Session!At, Session!rowVars, Session!appendVars,
     Session!loadVars, SessionStages
<1>5. CASE Session!StreamFails(t)
  <2>1. PICK to : to = IF t \in streamed THEN "user" ELSE "failed"
    OBVIOUS
  <2>2. QED BY <1>3, <1>5, <2>1 DEF Session!StreamFails, Session!At, Session!rowVars, Session!appendVars,
     Session!loadVars, SessionStages
<1>6. CASE Session!TellClient(t)
  BY <1>3, <1>6 DEF Session!TellClient, Session!At, Session!rowVars, Session!appendVars,
     Session!loadVars, SessionStages
<1>7. CASE Session!Disconnect(t)
  BY <1>3, <1>7 DEF Session!Disconnect, Session!rowVars, Session!appendVars,
     Session!loadVars, SessionStages
<1>8. ASSUME NEW role \in {"user", "assistant"}, Session!ReadNumber(t, role) PROVE SessionInv'
  <2>1. /\ turn[t] = role /\ turn' = [turn EXCEPT ![t] = Session!Inserting(role)]
        /\ number' = [number EXCEPT ![t] = Session!NextNumber]
        /\ newest' = [newest EXCEPT ![t] = TRUE]
        /\ UNCHANGED <<session_rows, log, history, before, lost>>
    BY <1>8 DEF Session!ReadNumber, Session!At, Session!rowVars, Session!loadVars
  <2>2. Session!NextNumber \in Nat /\ \A m \in DOMAIN session_rows : m < Session!NextNumber
    BY NextIsAbove DEF SessionInv
  <2>3. /\ number' \in [Turns -> Nat] /\ newest' \in [Turns -> BOOLEAN]
        /\ \A s \in Turns : newest'[s] => \A m \in DOMAIN session_rows : m < number'[s]
    BY <1>1, <1>2, <2>1, <2>2
  <2>4. /\ turn' \in [Turns -> SessionStages] /\ turn'[t] = Session!Inserting(role)
        /\ \A s \in Turns : s # t => turn'[s] = turn[s]
    BY <1>1, <2>1 DEF Session!Inserting, SessionStages
  <2>5. \A s \in Turns : \A x \in Tried(s)' : x \in Tried(s)
    BY <2>1, <2>4 DEF Tried, Session!Inserting
  <2>6. QED BY <2>1, <2>3, <2>4, <2>5, QuietTurnHolds
<1>9. ASSUME NEW role \in {"user", "assistant"}, Session!AppendFails(t, role) PROVE SessionInv'
  <2>1. /\ turn[t] \in {Session!Inserting(role), role}
        /\ turn' = [turn EXCEPT ![t] = Session!After(role)]
        /\ lost' = lost \cup {<<t, role>>}
        /\ UNCHANGED <<session_rows, log, history, before, number, newest>>
    BY <1>9 DEF Session!AppendFails, Session!At, Session!rowVars, Session!appendVars, Session!loadVars
  <2>2. /\ turn' \in [Turns -> SessionStages] /\ turn'[t] = Session!After(role)
        /\ \A s \in Turns : s # t => turn'[s] = turn[s]
    BY <1>1, <2>1 DEF Session!After, SessionStages
  <2>3. \A s \in Turns : \A x \in Tried(s)' : x \in Tried(s) \/ x \in lost'
    BY <2>1, <2>2 DEF Tried, Session!Inserting, Session!After
  <2>4. QED BY <1>1, <1>2, <2>1, <2>2, <2>3, QuietTurnHolds
<1>10. QED BY <1>4, <1>5, <1>6, <1>7, <1>8, <1>9

LEMMA OtherCommitsHolds ==
    ASSUME SessionInv, Session!OtherCommits
    PROVE  SessionInv'
<1>1. /\ newest' = [s \in Turns |-> FALSE]
      /\ UNCHANGED <<session_rows, log, turn, number, history, before, lost>>
  BY DEF Session!OtherCommits, Session!Outdate, Session!rowVars, Session!loadVars
<1>2. turn' \in [Turns -> SessionStages] /\ number' \in [Turns -> Nat] /\ newest' \in [Turns -> BOOLEAN]
  BY <1>1 DEF SessionInv
<1>3. \A s \in Turns : Tried(s)' = Tried(s) /\ ~newest'[s]
  BY <1>1 DEF Tried
<1>4. QED BY <1>1, <1>2, <1>3, QuietTurnHolds

LEMMA SessionSteps ==
    ASSUME SessionInv, Session!Next
    PROVE  SessionInv'
BY LoadHistoryHolds, InsertRowHolds, TrimHolds, TurnHolds, OtherCommitsHolds
   DEF Session!Next, Session!Roles

LEMMA SessionIsSafe ==
    ASSUME SessionInv
    PROVE  /\ Session!TypeOK /\ Session!NumbersFollowAppends /\ Session!NewestSurvive
           /\ Session!ReadYourTurns
<1>1. /\ RowInv(session_rows, log) /\ log \in Seq(Rows) /\ turn \in [Turns -> SessionStages]
      /\ before \in [Turns -> [length : Nat, told : SUBSET Turns]] /\ Len(log) \in Nat
  BY DEF SessionInv
<1>2. \A n \in DOMAIN session_rows : /\ Place(log, DOMAIN session_rows, n) \in DOMAIN log
                                     /\ session_rows[n] = log[Place(log, DOMAIN session_rows, n)]
  BY <1>1 DEF RowInv
<1>3. Session!TypeOK
  BY <1>1, <1>2 DEF Session!TypeOK, Session!Appended, Session!Roles, RowInv, Rows, SessionStages
<1>4. ASSUME NEW m \in DOMAIN session_rows, NEW n \in DOMAIN session_rows, m < n
      PROVE  Place(log, DOMAIN session_rows, m) < Place(log, DOMAIN session_rows, n)
  <2>1. DOMAIN session_rows \in SUBSET Nat /\ IsFiniteSet(DOMAIN session_rows)
    BY <1>1 DEF RowInv
  <2>2. PICK S : S = DOMAIN session_rows
    OBVIOUS
  <2>3. /\ Cardinality(Greater(S, n)) \in Nat /\ Cardinality(Greater(S, m)) \in Nat
        /\ Cardinality(Greater(S, n)) < Cardinality(Greater(S, m))
    BY <1>4, <2>1, <2>2, FewerAbove
  <2>4. QED BY <1>1, <2>2, <2>3 DEF Place
<1>5. Session!NumbersFollowAppends
  BY <1>2, <1>4 DEF Session!NumbersFollowAppends
<1>6. Session!NewestSurvive
  BY <1>1, <1>2 DEF Session!NewestSurvive, RowInv
<1>7. Session!ReadYourTurns
  <2>1. ASSUME NEW u \in Turns, NEW t \in before[u].told, NEW role \in {"user", "assistant"}
        PROVE  Known(u, <<t, role>>)
    <3>1. t \in Turns /\ <<t, role>> \in Rows /\ <<t, role>>[1] = t
      BY <1>1, <2>1 DEF Rows
    <3>2. QED BY <2>1, <3>1 DEF SessionInv
  <2>2. QED BY <2>1 DEF Known, Session!ReadYourTurns, Session!Roles
<1>8. QED BY <1>3, <1>5, <1>6, <1>7

-----------------------------------------------------------------------------
(* Places of a sequence, by their rank.                                    *)

LEMMA PersonaCount == \A S : Persona!Cardinality(S) = Cardinality(S)
BY DEF Persona!Cardinality, Cardinality

LEMMA LeastExists ==
    ASSUME NEW S \in SUBSET Nat, S # {}
    PROVE  \E x \in S : \A y \in S : x <= y
<1>1. PICK x \in S : \A y \in S : ~(<<y, x>> \in OpToRel(<, Nat))
  BY NatLessThanWellFounded, WFMin
<1>2. \A y \in S : ~(y < x)
  BY <1>1 DEF OpToRel
<1>3. QED BY <1>2

UpTo(S, p) == {q \in S : q <= p}

\* As many ranks as places: each rank is that of one place.
LEMMA RanksAreAll ==
    ASSUME NEW S \in SUBSET Nat, IsFiniteSet(S)
    PROVE  /\ Cardinality(S) \in Nat
           /\ \A n \in 1 .. Cardinality(S) : \E p \in S : Cardinality(UpTo(S, p)) = n
<1>1. PICK n \in Nat : n = Cardinality(S)
  BY FS_CardinalityType
<1> DEFINE rank == [p \in S |-> Cardinality(UpTo(S, p))]
<1>2. \A p \in S : /\ UpTo(S, p) \in SUBSET S /\ IsFiniteSet(UpTo(S, p)) /\ p \in UpTo(S, p)
                   /\ Cardinality(UpTo(S, p)) \in 1 .. n
  <2> TAKE p \in S
  <2>1. UpTo(S, p) \in SUBSET S /\ p \in UpTo(S, p)
    BY DEF UpTo
  <2>2. IsFiniteSet(UpTo(S, p)) /\ Cardinality(UpTo(S, p)) <= n /\ Cardinality(UpTo(S, p)) \in Nat
    BY <1>1, <2>1, FS_Subset, FS_CardinalityType
  <2>3. Cardinality(UpTo(S, p)) # 0
    BY <2>1, <2>2, FS_EmptySet
  <2>4. QED BY <1>1, <2>1, <2>2, <2>3
<1>3. ASSUME NEW p \in S, NEW q \in S, p < q
      PROVE  Cardinality(UpTo(S, p)) < Cardinality(UpTo(S, q))
  <2>1. UpTo(S, p) \subseteq UpTo(S, q) /\ q \in UpTo(S, q) /\ q \notin UpTo(S, p)
    <3>1. p \in Nat /\ q \in Nat /\ \A k \in S : k \in Nat
      OBVIOUS
    <3>2. (\A k \in S : k <= p => k <= q) /\ ~(q <= p) /\ q <= q
      BY <1>3, <3>1
    <3>3. QED BY <3>2 DEF UpTo
  <2>2. PICK A, B : A = UpTo(S, p) /\ B = UpTo(S, q)
    OBVIOUS
  <2>3. IsFiniteSet(B) /\ A \in SUBSET B /\ A # B /\ Cardinality(A) \in Nat /\ Cardinality(B) \in Nat
    BY <1>2, <2>1, <2>2
  <2>4. Cardinality(A) <= Cardinality(B) /\ Cardinality(B) # Cardinality(A)
    BY <2>3, FS_Subset
  <2>5. QED BY <2>2, <2>3, <2>4
<1>4. rank \in [S -> 1 .. n] /\ \A p \in S : rank[p] = Cardinality(UpTo(S, p))
  BY <1>2
<1>5. \A p, q \in S : rank[p] = rank[q] => p = q
  <2> TAKE p, q \in S
  <2>1. p < q \/ q < p \/ p = q
    OBVIOUS
  <2>2. rank[p] \in Nat /\ rank[q] \in Nat
    BY <1>4
  <2>3. QED BY <1>3, <1>4, <2>1, <2>2
<1> HIDE DEF rank
<1>6. rank \in Injection(S, 1 .. n)
  BY <1>4, <1>5 DEF Injection, IsInjective
<1>7. IsFiniteSet(1 .. n) /\ Cardinality(1 .. n) = n
  BY FS_Interval
<1>8. rank \in Surjection(S, 1 .. n)
  BY <1>1, <1>6, <1>7, FS_Injection
<1>9. \A m \in 1 .. n : \E p \in S : rank[p] = m
  BY <1>8 DEF Surjection
<1>10. QED BY <1>1, <1>4, <1>9

\* What is kept of a sequence is in it, at places of its own.
LEMMA KeptIsThere ==
    ASSUME NEW S, NEW s \in Seq(S), NEW places \in SUBSET DOMAIN s
    PROVE  /\ IsFiniteSet(places) /\ Cardinality(places) \in Nat
           /\ Persona!Kept(s, places) \in Seq(S)
           /\ Len(Persona!Kept(s, places)) = Cardinality(places)
           /\ DOMAIN Persona!Kept(s, places) = 1 .. Cardinality(places)
           /\ \E from \in [1 .. Cardinality(places) -> places] :
                /\ \A i, j \in 1 .. Cardinality(places) : from[i] = from[j] => i = j
                /\ \A i \in 1 .. Cardinality(places) : Persona!Kept(s, places)[i] = s[from[i]]
<1>1. /\ DOMAIN s = 1 .. Len(s) /\ Len(s) \in Nat /\ \A i \in DOMAIN s : s[i] \in S
  OBVIOUS
<1>2. places \in SUBSET Nat /\ IsFiniteSet(places)
  <2>1. places \in SUBSET (1 .. Len(s)) /\ IsFiniteSet(1 .. Len(s))
    BY <1>1, FS_Interval
  <2>2. QED BY <1>1, <2>1, FS_Subset
<1>3. PICK n \in Nat : n = Persona!Cardinality(places)
  BY <1>2, FS_CardinalityType, PersonaCount
<1> DEFINE place(m) == CHOOSE p \in places : Persona!Cardinality({q \in places : q <= p}) = m
           from == [m \in 1 .. n |-> place(m)]
<1>4. \A m \in 1 .. n : place(m) \in places /\ Persona!Cardinality({q \in places : q <= place(m)}) = m
  <2> TAKE m \in 1 .. n
  <2>1. PICK p \in places : Cardinality(UpTo(places, p)) = m
    BY <1>2, <1>3, RanksAreAll, PersonaCount
  <2>2. Persona!Cardinality({q \in places : q <= p}) = m
    BY <2>1, PersonaCount DEF UpTo
  <2>3. QED BY <2>2
<1>5. Persona!Kept(s, places) = [m \in 1 .. n |-> s[place(m)]]
  BY <1>3 DEF Persona!Kept
<1> HIDE DEF place
<1>6. \A m \in 1 .. n : s[place(m)] \in S
  BY <1>1, <1>4
<1>7. PICK k : k = Persona!Kept(s, places)
  OBVIOUS
<1>8. k = [m \in 1 .. n |-> s[place(m)]]
  BY <1>5, <1>7
<1>9. k \in Seq(S) /\ Len(k) = n /\ DOMAIN k = 1 .. n
  BY <1>3, <1>6, <1>8
<1>10. /\ from \in [1 .. n -> places]
       /\ \A i, j \in 1 .. n : from[i] = from[j] => i = j
       /\ \A i \in 1 .. n : k[i] = s[from[i]]
  <2>1. \A i \in 1 .. n : from[i] = place(i)
    OBVIOUS
  <2>2. \A i, j \in 1 .. n : place(i) = place(j) => i = j
    BY <1>4
  <2>3. QED BY <1>4, <1>8, <2>1, <2>2
<1> HIDE DEF from
<1>11. \E g \in [1 .. n -> places] : /\ \A i, j \in 1 .. n : g[i] = g[j] => i = j
                                     /\ \A i \in 1 .. n : k[i] = s[g[i]]
  BY <1>10
<1>12. n = Cardinality(places)
  BY <1>3, PersonaCount
<1>13. QED BY <1>2, <1>7, <1>9, <1>11, <1>12

-----------------------------------------------------------------------------
(* Personas.  A writer that nobody overtook writes what it read last.      *)

Topical(t) ==
    t \in Seq(Topics) /\ Persona!IsInjective(t) /\ Len(t) <= RECENT_TOPICS_CAP
PersonaRow ==
    [mood : Persona!Moods, fatigue : 0 .. MaxFatigue, topics : {t \in Seq(Topics) : Topical(t)},
     updated : Nat]

PersonaPlaces ==
    {"idle", "mood", "fatigue", "sweeping", "decaying", "topics", "pushing", "absent", "seeding"}
PersonaReads == [row : PersonaRow \cup {None}, when : Nat, base : 0 .. MaxFatigue]

PersonaTypes ==
    /\ persona_now \in Nat /\ ideal \in 0 .. MaxFatigue
    /\ row \in PersonaRow \cup {None} /\ (row # None => row.updated <= persona_now)
    /\ persona_at \in [Writers -> PersonaPlaces]
    /\ read \in [Writers -> PersonaReads \cup {None}]
    /\ stale \subseteq Writers /\ overlapped \in BOOLEAN /\ resurrected \in BOOLEAN

\* What a writer that has begun knows; if nobody overtook it the row is no younger than its
\* clock, is the row it read, and had at least what was ideal then.
ReadInv(w) ==
    /\ read[w] \in PersonaReads /\ read[w].when <= persona_now
    /\ persona_at[w] \in {"topics", "pushing", "decaying"} =>
           read[w].row \in PersonaRow /\ read[w].row # None
    /\ w \notin stale =>
        /\ persona_at[w] \in {"topics", "pushing", "decaying"} => row = read[w].row
        /\ row # None => row.updated <= read[w].when
        /\ row # None /\ ~overlapped /\ persona_at[w] = "fatigue" => read[w].base <= row.fatigue

PersonaInv ==
    /\ PersonaTypes
    /\ \A w \in Writers : persona_at[w] # "idle" => ReadInv(w)
    /\ row # None /\ ~overlapped =>
           ideal <= Persona!Clamp(row.fatigue - (persona_now - row.updated))
    /\ resurrected => overlapped

LEMMA Clamped ==
    /\ \A x \in Int : Persona!Clamp(x) \in 0 .. MaxFatigue
    /\ \A x, y \in Int : x <= y => Persona!Clamp(x) <= Persona!Clamp(y)
    /\ \A x \in 0 .. MaxFatigue : Persona!Clamp(x) = x
    /\ \A x \in Int, h \in Nat : x <= MaxFatigue =>
           Persona!Clamp(Persona!Clamp(x) - h) = Persona!Clamp(x - h)
BY PersonaAssumption DEF Persona!Clamp

\* The places that are kept are among those from the first of them on.
LEMMA DedupIsTopical ==
    ASSUME NEW t \in Seq(Topics)
    PROVE  Topical(Persona!_dedup_cap(t))
<1> DEFINE last == {i \in DOMAIN t : \A j \in i + 1 .. Len(t) : t[j] # t[i]}
           From(i) == {j \in last : j >= i}
           kept == {i \in last : Cardinality(From(i)) <= RECENT_TOPICS_CAP}
<1>1. DOMAIN t = 1 .. Len(t) /\ Len(t) \in Nat
  OBVIOUS
<1>2. last \in SUBSET (1 .. Len(t)) /\ IsFiniteSet(last) /\ last \in SUBSET Nat
  <2>1. last \in SUBSET (1 .. Len(t)) /\ IsFiniteSet(1 .. Len(t))
    BY <1>1, FS_Interval
  <2>2. QED BY <2>1, FS_Subset
<1>3. \A i \in last, j \in last : t[i] = t[j] => i = j
  <2> TAKE i \in last, j \in last
  <2>1. i \in 1 .. Len(t) /\ j \in 1 .. Len(t)
    BY <1>2
  <2>2. i < j => t[j] # t[i]
    BY <1>1, <2>1
  <2>3. j < i => t[i] # t[j]
    BY <1>1, <2>1
  <2>4. QED BY <2>1, <2>2, <2>3
<1>4. Persona!_dedup_cap(t) = Persona!Kept(t, kept)
  BY PersonaCount DEF Persona!_dedup_cap
<1> HIDE DEF last
<1>5. kept \in SUBSET DOMAIN t /\ kept \in SUBSET last /\ kept \in SUBSET Nat
  BY <1>1, <1>2
<1>6. Cardinality(kept) <= RECENT_TOPICS_CAP
  <2>1. CASE kept = {}
    <3>1. PICK A : A = kept
      OBVIOUS
    <3>2. Cardinality(A) = 0
      BY <2>1, <3>1, FS_EmptySet
    <3>3. QED BY <3>1, <3>2, PersonaAssumption
  <2>2. CASE kept # {}
    <3>1. PICK p \in kept : \A q \in kept : p <= q
      BY <1>5, <2>2, LeastExists
    <3>2. kept \in SUBSET From(p)
      BY <1>5, <3>1
    <3>3. Cardinality(From(p)) <= RECENT_TOPICS_CAP
      OBVIOUS
    <3>4. PICK A, B : A = kept /\ B = From(p)
      OBVIOUS
    <3>5. B \in SUBSET last
      BY <3>4
    <3>6. IsFiniteSet(B) /\ A \in SUBSET B
      BY <1>2, <3>2, <3>4, <3>5, FS_Subset
    <3>7. Cardinality(A) <= Cardinality(B) /\ Cardinality(A) \in Nat /\ Cardinality(B) \in Nat
      BY <3>6, FS_Subset, FS_CardinalityType
    <3>8. QED BY <3>3, <3>4, <3>7, PersonaAssumption
  <2>3. QED BY <2>1, <2>2
<1> HIDE DEF kept
<1>7. PICK k : k = Persona!Kept(t, kept)
  OBVIOUS
<1>8. PICK n : n = Cardinality(kept)
  OBVIOUS
<1>9. /\ k \in Seq(Topics) /\ Len(k) = n /\ DOMAIN k = 1 .. n
      /\ \E from \in [1 .. n -> kept] :
            /\ \A i, j \in 1 .. n : from[i] = from[j] => i = j
            /\ \A i \in 1 .. n : k[i] = t[from[i]]
  BY <1>5, <1>7, <1>8, KeptIsThere
<1>10. PICK from \in [1 .. n -> kept] :
          /\ \A i, j \in 1 .. n : from[i] = from[j] => i = j
          /\ \A i \in 1 .. n : k[i] = t[from[i]]
  BY <1>9
<1>11. \A i \in 1 .. n : from[i] \in last
  BY <1>5, <1>10
<1>12. \A i, j \in DOMAIN k : k[i] = k[j] => i = j
  BY <1>3, <1>9, <1>10, <1>11
<1>13. Persona!IsInjective(k)
  BY <1>12 DEF Persona!IsInjective
<1>14. QED BY <1>4, <1>6, <1>7, <1>8, <1>9, <1>13 DEF Topical

LEMMA DroppedIsTopical ==
    ASSUME NEW t, Topical(t), NEW n \in Nat
    PROVE  Topical(SubSeq(t, n + 1, Len(t)))
<1>1. /\ t \in Seq(Topics) /\ Len(t) \in Nat /\ DOMAIN t = 1 .. Len(t) /\ Len(t) <= RECENT_TOPICS_CAP
      /\ \A i, j \in DOMAIN t : t[i] = t[j] => i = j
  BY DEF Topical, Persona!IsInjective
<1>2. PICK s : s = SubSeq(t, n + 1, Len(t))
  OBVIOUS
<1>3. CASE n < Len(t)
  <2>0. \A i \in n + 1 .. Len(t) : t[i] \in Topics
    BY <1>1
  <2>1. /\ s \in Seq(Topics) /\ Len(s) = Len(t) - n /\ DOMAIN s = 1 .. Len(t) - n
        /\ \A i \in 1 .. Len(t) - n : s[i] = t[i + n]
    <3>0. PICK m, l : m = n + 1 /\ l = Len(t)
      OBVIOUS
    <3>a. m \in Int /\ l \in Int /\ m <= l /\ \A i \in m .. l : t[i] \in Topics
      BY <1>1, <1>3, <2>0, <3>0
    <3>b. /\ SubSeq(t, m, l) \in Seq(Topics)
          /\ Len(SubSeq(t, m, l)) = IF m <= l THEN l - m + 1 ELSE 0
          /\ \A i \in 1 .. l - m + 1 : SubSeq(t, m, l)[i] = t[m + i - 1]
      BY <3>a, SubSeqProperties
    <3>1. /\ s \in Seq(Topics) /\ Len(s) = Len(t) - (n + 1) + 1
          /\ \A i \in 1 .. Len(t) - (n + 1) + 1 : s[i] = t[n + 1 + i - 1]
      BY <1>2, <3>0, <3>a, <3>b
    <3>2. Len(t) - (n + 1) + 1 = Len(t) - n /\ \A i \in 1 .. Len(t) - n : n + 1 + i - 1 = i + n
      BY <1>1
    <3>3. QED BY <3>1, <3>2
  <2>2. \A i, j \in DOMAIN s : s[i] = s[j] => i = j
    <3> TAKE i, j \in DOMAIN s
    <3>1. i \in Int /\ j \in Int /\ i + n \in DOMAIN t /\ j + n \in DOMAIN t
      BY <1>1, <1>3, <2>1
    <3>2. s[i] = t[i + n] /\ s[j] = t[j + n]
      BY <2>1
    <3>3. s[i] = s[j] => i + n = j + n
      BY <1>1, <3>1, <3>2
    <3>4. \A a, b \in Int : a + n = b + n => a = b
      OBVIOUS
    <3>5. QED BY <3>1, <3>3, <3>4
  <2>3. Len(s) <= RECENT_TOPICS_CAP
    BY <1>1, <2>1, PersonaAssumption
  <2>4. QED BY <1>2, <2>1, <2>2, <2>3 DEF Topical, Persona!IsInjective
<1>4. CASE ~(n < Len(t))
  <2>1. s \in Seq(Topics) /\ Len(s) = 0 /\ DOMAIN s = {}
    <3>a. PICK m, l : m = n + 1 /\ l = Len(t)
      OBVIOUS
    <3>b. m \in Int /\ l \in Int /\ m > l
      BY <1>1, <1>4, <3>a
    <3>1. s = <<>>
      BY <1>2, <3>a, <3>b, SubSeqEmpty
    <3>0. <<>> \in Seq(Topics) /\ Len(<<>>) = 0
      OBVIOUS
    <3>2. s \in Seq(Topics) /\ Len(s) = 0
      BY <3>0, <3>1
    <3>3. DOMAIN s = 1 .. Len(s)
      BY <3>2
    <3>4. QED BY <3>2, <3>3
  <2>2. QED BY <1>2, <2>1, PersonaAssumption DEF Topical, Persona!IsInjective
<1>5. QED BY <1>1, <1>3, <1>4

LEMMA PersonaStarts ==
    ASSUME Persona!PersonaInit
    PROVE  PersonaInv
<1>1. PersonaTypes
  <2>1. persona_now \in Nat /\ ideal \in 0 .. MaxFatigue /\ row = None
    BY PersonaAssumption DEF Persona!PersonaInit
  <2>2. persona_at \in [Writers -> PersonaPlaces]
    BY DEF Persona!PersonaInit, PersonaPlaces
  <2>3. read \in [Writers -> PersonaReads \cup {None}]
    BY DEF Persona!PersonaInit
  <2>4. stale \subseteq Writers /\ overlapped \in BOOLEAN /\ resurrected \in BOOLEAN
    BY DEF Persona!PersonaInit
  <2>5. QED BY <2>1, <2>2, <2>3, <2>4 DEF PersonaTypes
<1>2. row = None /\ ~resurrected /\ \A w \in Writers : persona_at[w] = "idle"
  BY DEF Persona!PersonaInit
<1>3. QED BY <1>1, <1>2 DEF PersonaInv

\* A statement has written: whoever is between two of its own has been overtaken.
LEMMA PersonaWritten ==
    ASSUME PersonaInv,
           persona_at' \in [Writers -> PersonaPlaces],
           read' \in [Writers -> PersonaReads \cup {None}],
           \A w \in Writers : persona_at'[w] # "idle" =>
               persona_at'[w] = persona_at[w] /\ read'[w] = read[w],
           stale' = {w \in Writers : persona_at'[w] # "idle"},
           persona_now' = persona_now,
           row' \in PersonaRow \cup {None}, row' # None => row'.updated <= persona_now,
           ideal' \in 0 .. MaxFatigue, overlapped' \in BOOLEAN, resurrected' \in BOOLEAN,
           row' # None /\ ~overlapped' =>
               ideal' <= Persona!Clamp(row'.fatigue - (persona_now - row'.updated)),
           resurrected' => overlapped'
    PROVE  PersonaInv'
<1>1. PersonaTypes'
  BY DEF PersonaInv, PersonaTypes
<1>2. ASSUME NEW w \in Writers, persona_at'[w] # "idle"
      PROVE  ReadInv(w)'
  <2>1. /\ ReadInv(w) /\ persona_at'[w] = persona_at[w] /\ read'[w] = read[w] /\ w \in stale'
        /\ persona_now' = persona_now
    BY <1>2 DEF PersonaInv
  <2>2. QED BY <2>1 DEF ReadInv
<1>3. (row # None /\ ~overlapped =>
          ideal <= Persona!Clamp(row.fatigue - (persona_now - row.updated)))'
  BY DEF Persona!Clamp
<1>4. QED BY <1>1, <1>2, <1>3 DEF PersonaInv

LEMMA PersonaTickHolds ==
    ASSUME PersonaInv, Persona!Tick
    PROVE  PersonaInv'
<1>1. /\ persona_now' = persona_now + 1 /\ ideal' = Persona!Clamp(ideal - 1)
      /\ UNCHANGED <<row, persona_at, read, stale, overlapped, resurrected>>
  BY DEF Persona!Tick, Persona!writerVars, Persona!ghostVars
<1>2. PersonaTypes /\ persona_now \in Nat /\ ideal \in 0 .. MaxFatigue
  BY DEF PersonaInv, PersonaTypes
<1>3. ideal - 1 \in Int
  BY <1>2, PersonaAssumption
<1>4. ideal' \in 0 .. MaxFatigue
  BY <1>1, <1>3, Clamped
<1>5. row' # None => row' \in PersonaRow /\ row'.updated \in Nat /\ row'.updated <= persona_now
  BY <1>1, <1>2 DEF PersonaTypes, PersonaRow
<1>6. PersonaTypes'
  <2>1. row' # None => row'.updated <= persona_now'
    BY <1>1, <1>2, <1>5
  <2>2. QED BY <1>1, <1>2, <1>4, <2>1 DEF PersonaTypes
<1>7. ASSUME NEW w \in Writers, persona_at'[w] # "idle" PROVE ReadInv(w)'
  <2>1. ReadInv(w) /\ read[w] \in PersonaReads
    BY <1>1, <1>7 DEF PersonaInv, ReadInv
  <2>2. read[w].when \in Nat /\ read[w].when <= persona_now + 1
    BY <1>2, <2>1 DEF ReadInv, PersonaReads
  <2>3. QED BY <1>1, <2>1, <2>2 DEF ReadInv
<1>8. ASSUME row # None, ~overlapped
      PROVE  ideal' <= Persona!Clamp(row.fatigue - (persona_now' - row.updated))
  <2>1. PICK f, n, u : f = row.fatigue /\ n = persona_now /\ u = row.updated
    OBVIOUS
  <2>2. f \in 0 .. MaxFatigue /\ u \in Nat /\ n \in Nat /\ u <= n
    BY <1>1, <1>2, <1>5, <1>8, <2>1 DEF PersonaRow
  <2>3. ideal <= Persona!Clamp(f - (n - u))
    BY <1>8, <2>1 DEF PersonaInv
  <2>4. /\ f - (n - u) \in Int /\ f - (n - u) <= MaxFatigue /\ Persona!Clamp(f - (n - u)) \in 0 .. MaxFatigue
        /\ f - (n - u) - 1 = f - (n + 1 - u)
    BY <2>2, Clamped, PersonaAssumption
  <2>5. Persona!Clamp(ideal - 1) <= Persona!Clamp(Persona!Clamp(f - (n - u)) - 1)
    BY <1>2, <1>3, <2>3, <2>4, Clamped, PersonaAssumption
  <2>6. Persona!Clamp(Persona!Clamp(f - (n - u)) - 1) = Persona!Clamp(f - (n - u) - 1)
    BY <2>4, Clamped
  <2>7. Persona!Clamp(ideal - 1) <= Persona!Clamp(f - (n + 1 - u))
    BY <2>4, <2>5, <2>6
  <2>8. persona_now' - row.updated = n + 1 - u
    BY <1>1, <2>1, <2>2
  <2>9. QED BY <1>1, <2>1, <2>7, <2>8
<1>9. (row # None /\ ~overlapped =>
          ideal <= Persona!Clamp(row.fatigue - (persona_now - row.updated)))'
  BY <1>1, <1>8 DEF Persona!Clamp
<1>10. resurrected' => overlapped'
  BY <1>1 DEF PersonaInv
<1>11. QED BY <1>6, <1>7, <1>9, <1>10 DEF PersonaInv

\* A row that is there, and the ideal that it stays above.
LEMMA RowIsThere ==
    ASSUME PersonaInv, row # None
    PROVE  /\ row \in PersonaRow /\ row.fatigue \in 0 .. MaxFatigue /\ row.mood \in Persona!Moods
           /\ Topical(row.topics) /\ row.updated \in Nat /\ row.updated <= persona_now
           /\ persona_now \in Nat /\ ideal \in 0 .. MaxFatigue
           /\ ~overlapped => ideal <= row.fatigue
<1>1. /\ row \in PersonaRow /\ row.updated <= persona_now /\ persona_now \in Nat
      /\ ideal \in 0 .. MaxFatigue
  BY DEF PersonaInv, PersonaTypes
<1>2. PICK f, u : f = row.fatigue /\ u = row.updated
  OBVIOUS
<1>3. f \in 0 .. MaxFatigue /\ u \in Nat /\ row.mood \in Persona!Moods /\ Topical(row.topics)
  BY <1>1, <1>2 DEF PersonaRow
<1>4. f \in Int /\ f - (persona_now - u) \in Int /\ f - (persona_now - u) <= f
  BY <1>1, <1>2, <1>3, PersonaAssumption
<1>5. Persona!Clamp(f - (persona_now - u)) <= f /\ Persona!Clamp(f - (persona_now - u)) \in Int
  BY <1>3, <1>4, Clamped, PersonaAssumption
<1>6. ~overlapped => ideal <= f
  BY <1>1, <1>2, <1>3, <1>5, PersonaAssumption DEF PersonaInv
<1>7. QED BY <1>1, <1>2, <1>3, <1>6

\* A writer begins: what it reads is current.
LEMMA BeginHolds ==
    ASSUME PersonaInv, NEW w \in Writers, NEW what \in PersonaPlaces,
           NEW shown \in PersonaRow \cup {None}, Persona!Begins(w, what, shown),
           what \notin {"idle", "pushing", "decaying"},
           what = "topics" => row # None /\ shown = row
    PROVE  PersonaInv'
<1>1. PICK r : r = [row |-> shown, when |-> persona_now, base |-> ideal]
  OBVIOUS
<1>2. /\ persona_at' = [persona_at EXCEPT ![w] = what] /\ read' = [read EXCEPT ![w] = r]
      /\ stale' = stale \ {w} /\ UNCHANGED <<row, persona_now, ideal, overlapped, resurrected>>
  BY <1>1 DEF Persona!Begins, Persona!rowVars, Persona!ghostVars
<1>3. /\ PersonaTypes /\ persona_now \in Nat
      /\ r \in PersonaReads /\ r.row = shown /\ r.when = persona_now /\ r.base = ideal
  BY <1>1 DEF PersonaInv, PersonaTypes, PersonaReads
<1>4. /\ persona_at'[w] = what /\ read'[w] = r
      /\ \A v \in Writers : v # w => persona_at'[v] = persona_at[v] /\ read'[v] = read[v]
      /\ persona_at' \in [Writers -> PersonaPlaces]
      /\ read' \in [Writers -> PersonaReads \cup {None}]
  BY <1>2, <1>3 DEF PersonaTypes
<1>5. PersonaTypes'
  BY <1>2, <1>3, <1>4 DEF PersonaTypes
<1>6. ASSUME NEW v \in Writers, persona_at'[v] # "idle" PROVE ReadInv(v)'
  <2>1. CASE v = w
    <3>1. row # None => /\ row \in PersonaRow /\ row.updated <= persona_now
                        /\ ~overlapped => ideal <= row.fatigue
      BY RowIsThere
    <3>2. persona_now <= persona_now
      BY <1>3
    <3>3. QED BY <1>2, <1>3, <1>4, <2>1, <3>1, <3>2 DEF ReadInv
  <2>2. CASE v # w
    <3>1. ReadInv(v) /\ persona_at'[v] = persona_at[v] /\ read'[v] = read[v]
      BY <1>4, <1>6, <2>2 DEF PersonaInv
    <3>2. v \notin stale' => v \notin stale
      BY <1>2, <2>2
    <3>3. QED BY <1>2, <3>1, <3>2 DEF ReadInv
  <2>3. QED BY <2>1, <2>2
<1>7. (row # None /\ ~overlapped =>
          ideal <= Persona!Clamp(row.fatigue - (persona_now - row.updated)))'
  BY <1>2 DEF PersonaInv, Persona!Clamp
<1>8. QED BY <1>2, <1>5, <1>6, <1>7 DEF PersonaInv

LEMMA ClockHolds ==
    ASSUME PersonaInv, NEW w \in Writers, NEW what \in {"mood", "fatigue", "sweeping"},
           Persona!Clock(w, what)
    PROVE  PersonaInv'
BY BeginHolds DEF Persona!Clock, PersonaPlaces

LEMMA GetHolds ==
    ASSUME PersonaInv, NEW w \in Writers, NEW what \in {"topics", "absent"}, Persona!Get(w, what)
    PROVE  PersonaInv'
<1>1. row \in PersonaRow \cup {None} /\ (what = "topics" => row # None)
  BY DEF PersonaInv, PersonaTypes, Persona!Get
<1>2. QED BY <1>1, BeginHolds DEF Persona!Get, PersonaPlaces

\* A writer reads on.
LEMMA ReadsOn ==
    ASSUME PersonaInv, NEW w \in Writers, NEW to \in PersonaPlaces, NEW r \in PersonaReads \cup {None},
           persona_at' = [persona_at EXCEPT ![w] = to], read' = [read EXCEPT ![w] = r],
           UNCHANGED <<row, persona_now, writes, ideal, stale, overlapped, resurrected>>,
           to # "idle" => ReadInv(w)'
    PROVE  PersonaInv'
<1>1. PersonaTypes
  BY DEF PersonaInv
<1>2. /\ \A v \in Writers : v # w => persona_at'[v] = persona_at[v] /\ read'[v] = read[v]
      /\ persona_at' \in [Writers -> PersonaPlaces] /\ persona_at'[w] = to
      /\ read' \in [Writers -> PersonaReads \cup {None}]
  BY <1>1 DEF PersonaTypes
<1>3. PersonaTypes'
  BY <1>1, <1>2 DEF PersonaTypes
<1>4. ASSUME NEW v \in Writers, persona_at'[v] # "idle" PROVE ReadInv(v)'
  <2>1. CASE v = w
    BY <1>2, <1>4, <2>1
  <2>2. CASE v # w
    <3>1. ReadInv(v) /\ persona_at'[v] = persona_at[v] /\ read'[v] = read[v]
      BY <1>2, <1>4, <2>2 DEF PersonaInv
    <3>2. QED BY <3>1 DEF ReadInv
  <2>3. QED BY <2>1, <2>2
<1>5. (row # None /\ ~overlapped =>
          ideal <= Persona!Clamp(row.fatigue - (persona_now - row.updated)))'
  BY DEF PersonaInv, Persona!Clamp
<1>6. QED BY <1>3, <1>4, <1>5 DEF PersonaInv

LEMMA StampHolds ==
    ASSUME PersonaInv, NEW w \in Writers, Persona!Stamp(w)
    PROVE  PersonaInv'
<1>1. PICK to, r : /\ to = (IF persona_at[w] = "topics" THEN "pushing" ELSE "seeding")
                   /\ r = [read[w] EXCEPT !.when = persona_now]
  OBVIOUS
<1>2. /\ persona_at[w] \in {"topics", "absent"}
      /\ persona_at' = [persona_at EXCEPT ![w] = to] /\ read' = [read EXCEPT ![w] = r]
      /\ UNCHANGED <<row, persona_now, writes, ideal, stale, overlapped, resurrected>>
  BY <1>1 DEF Persona!Stamp, Persona!rowVars, Persona!ghostVars
<1>3. ReadInv(w) /\ PersonaTypes
  BY <1>2 DEF PersonaInv
<1>4. /\ read[w] \in PersonaReads /\ persona_now \in Nat /\ persona_now <= persona_now
      /\ r \in PersonaReads /\ r.row = read[w].row /\ r.when = persona_now
      /\ to \in PersonaPlaces /\ to \in {"pushing", "seeding"}
      /\ to = "pushing" => persona_at[w] = "topics"
  BY <1>1, <1>3 DEF ReadInv, PersonaTypes, PersonaReads, PersonaPlaces
<1>5. persona_at'[w] = to /\ read'[w] = r
  BY <1>2, <1>3 DEF PersonaTypes
<1>6. row # None => row.updated <= persona_now
  BY <1>3 DEF PersonaTypes
<1>7. ReadInv(w)'
  <2>1. read'[w] \in PersonaReads /\ read'[w].when <= persona_now'
    BY <1>2, <1>4, <1>5
  <2>2. persona_at'[w] = "pushing" =>
           /\ read'[w].row \in PersonaRow /\ read'[w].row # None
           /\ w \notin stale => row = read'[w].row
    BY <1>3, <1>4, <1>5 DEF ReadInv
  <2>3. QED BY <1>2, <1>4, <1>5, <1>6, <2>1, <2>2 DEF ReadInv
<1>8. QED BY <1>2, <1>4, <1>7, ReadsOn

LEMMA ListHolds ==
    ASSUME PersonaInv, NEW w \in Writers, Persona!list_all(w)
    PROVE  PersonaInv'
<1>1. PICK to, r : /\ to = (IF row = None THEN "idle" ELSE "decaying")
                   /\ r = IF row = None THEN None ELSE [read[w] EXCEPT !.row = row]
  OBVIOUS
<1>2. /\ persona_at[w] = "sweeping"
      /\ persona_at' = [persona_at EXCEPT ![w] = to] /\ read' = [read EXCEPT ![w] = r]
      /\ UNCHANGED <<row, persona_now, writes, ideal, stale, overlapped, resurrected>>
  BY <1>1 DEF Persona!list_all, Persona!rowVars, Persona!ghostVars
<1>3. ReadInv(w) /\ PersonaTypes
  BY <1>2 DEF PersonaInv
<1>4. to \in PersonaPlaces /\ r \in PersonaReads \cup {None}
  BY <1>1, <1>3 DEF ReadInv, PersonaTypes, PersonaReads, PersonaPlaces
<1>5. persona_at'[w] = to /\ read'[w] = r
  BY <1>2, <1>3, <1>4 DEF PersonaTypes
<1>6. ASSUME to # "idle" PROVE ReadInv(w)'
  <2>1. /\ row # None /\ row \in PersonaRow /\ to = "decaying"
        /\ r \in PersonaReads /\ r.row = row /\ r.when = read[w].when
    BY <1>1, <1>3, <1>6 DEF ReadInv, PersonaTypes, PersonaReads
  <2>2. r.when <= persona_now /\ (w \notin stale => row.updated <= r.when)
    BY <1>3, <2>1 DEF ReadInv
  <2>3. QED BY <1>2, <1>5, <2>1, <2>2 DEF ReadInv
<1>7. QED BY <1>2, <1>4, <1>6, ReadsOn

LEMMA EndsAre ==
    ASSUME PersonaInv, NEW w \in Writers, Persona!Ends(w), Persona!Writes
    PROVE  /\ persona_at' \in [Writers -> PersonaPlaces]
           /\ read' \in [Writers -> PersonaReads \cup {None}]
           /\ \A v \in Writers : persona_at'[v] # "idle" =>
                  persona_at'[v] = persona_at[v] /\ read'[v] = read[v]
           /\ stale' = {v \in Writers : persona_at'[v] # "idle"}
           /\ overlapped' = (overlapped \/ w \in stale) /\ overlapped' \in BOOLEAN
<1>1. /\ persona_at' = [persona_at EXCEPT ![w] = "idle"] /\ read' = [read EXCEPT ![w] = None]
      /\ overlapped' = (overlapped \/ w \in stale)
      /\ stale' = {v \in Writers : persona_at'[v] # "idle"}
  BY DEF Persona!Ends, Persona!Writes
<1>2. PersonaTypes
  BY DEF PersonaInv
<1>3. QED BY <1>1, <1>2 DEF PersonaTypes, PersonaPlaces

\* What a writer puts in, with the stamp of its clock.
LEMMA StampedIsRow ==
    ASSUME PersonaInv, NEW w \in Writers, persona_at[w] # "idle",
           NEW s, s.mood \in Persona!Moods, s.fatigue \in 0 .. MaxFatigue, Topical(s.topics)
    PROVE  /\ Persona!Stamped(w, s) \in PersonaRow
           /\ Persona!Stamped(w, s).updated = read[w].when
           /\ Persona!Stamped(w, s).fatigue = s.fatigue
           /\ read[w].when \in Nat /\ persona_now \in Nat /\ read[w].when <= persona_now
<1>1. read[w].when \in Nat /\ read[w].when <= persona_now /\ persona_now \in Nat
  BY DEF PersonaInv, PersonaTypes, ReadInv, PersonaReads
<1>2. QED BY <1>1 DEF Persona!Stamped, PersonaRow, Topical

\* A younger stamp on the same fatigue leaves it no less to recover.
LEMMA RestampedIsNoFaster ==
    ASSUME PersonaInv, NEW w \in Writers, persona_at[w] # "idle", row # None,
           ~overlapped, w \notin stale
    PROVE  ideal <= Persona!Clamp(row.fatigue - (persona_now - read[w].when))
<1>1. PICK f, n, u, when : f = row.fatigue /\ n = persona_now /\ u = row.updated /\ when = read[w].when
  OBVIOUS
<1>2. ReadInv(w) /\ PersonaTypes
  BY DEF PersonaInv
<1>3. /\ f \in 0 .. MaxFatigue /\ n \in Nat /\ u \in Nat /\ when \in Nat /\ u <= when /\ when <= n
  BY <1>1, <1>2, RowIsThere DEF ReadInv, PersonaReads
<1>4. ideal \in Int /\ ideal <= Persona!Clamp(f - (n - u))
  BY <1>1, <1>2, PersonaAssumption DEF PersonaInv, PersonaTypes
<1>5. f - (n - u) \in Int /\ f - (n - when) \in Int /\ f - (n - u) <= f - (n - when)
  BY <1>3, PersonaAssumption
<1>6. /\ Persona!Clamp(f - (n - u)) <= Persona!Clamp(f - (n - when))
      /\ Persona!Clamp(f - (n - u)) \in Int /\ Persona!Clamp(f - (n - when)) \in Int
  BY <1>5, Clamped, PersonaAssumption
<1>7. \A a, b, c \in Int : a <= b /\ b <= c => a <= c
  OBVIOUS
<1>8. QED BY <1>1, <1>4, <1>6, <1>7

\* A statement that leaves the fatigue alone.
LEMMA RestampHolds ==
    ASSUME PersonaInv, NEW w \in Writers, persona_at[w] # "idle",
           NEW s, row # None => s.mood \in Persona!Moods /\ s.fatigue = row.fatigue /\ Topical(s.topics),
           Persona!Ends(w), Persona!Writes,
           row' = (IF row = None THEN None ELSE Persona!Stamped(w, s)),
           UNCHANGED <<persona_now, ideal, resurrected>>
    PROVE  PersonaInv'
<1>1. /\ overlapped' = (overlapped \/ w \in stale) /\ overlapped' \in BOOLEAN
      /\ (resurrected' => overlapped') /\ resurrected' \in BOOLEAN /\ ideal' \in 0 .. MaxFatigue
  BY EndsAre DEF PersonaInv, PersonaTypes
<1>2. /\ row' \in PersonaRow \cup {None} /\ (row' # None => row'.updated <= persona_now)
      /\ row' # None /\ ~overlapped' =>
             ideal' <= Persona!Clamp(row'.fatigue - (persona_now - row'.updated))
  <2>1. CASE row = None
    BY <2>1
  <2>2. CASE row # None
    <3>1. s.mood \in Persona!Moods /\ s.fatigue = row.fatigue /\ Topical(s.topics)
          /\ s.fatigue \in 0 .. MaxFatigue
      BY <2>2, RowIsThere
    <3>2. /\ row' \in PersonaRow /\ row'.updated = read[w].when /\ row'.fatigue = row.fatigue
          /\ read[w].when <= persona_now
      BY <2>2, <3>1, StampedIsRow
    <3>3. ~overlapped' => ideal' <= Persona!Clamp(row.fatigue - (persona_now - read[w].when))
      BY <1>1, <2>2, RestampedIsNoFaster
    <3>4. QED BY <3>2, <3>3
  <2>3. QED BY <2>1, <2>2
<1>3. QED BY <1>1, <1>2, EndsAre, PersonaWritten

LEMMA MoodHolds ==
    ASSUME PersonaInv, NEW w \in Writers, NEW mood \in Persona!Moods, Persona!update_mood(w, mood)
    PROVE  PersonaInv'
<1>1. PICK s : s = [row EXCEPT !.mood = mood]
  OBVIOUS
<1>2. /\ persona_at[w] = "mood" /\ Persona!Ends(w) /\ Persona!Writes
      /\ row' = IF row = None THEN None ELSE Persona!Stamped(w, s)
      /\ UNCHANGED <<persona_now, ideal, resurrected>>
  BY <1>1 DEF Persona!update_mood
<1>3. row # None => s.mood \in Persona!Moods /\ s.fatigue = row.fatigue /\ Topical(s.topics)
  BY <1>1, RowIsThere DEF PersonaRow
<1>4. QED BY <1>2, <1>3, RestampHolds

LEMMA FatigueHolds ==
    ASSUME PersonaInv, NEW w \in Writers, NEW delta \in Int, Persona!update_fatigue(w, delta)
    PROVE  PersonaInv'
<1>1. PICK s, when, base, here :
          /\ s = [row EXCEPT !.fatigue = Persona!Clamp(row.fatigue + delta)]
          /\ when = read[w].when /\ base = read[w].base /\ here = persona_now
  OBVIOUS
<1>2. /\ persona_at[w] = "fatigue" /\ Persona!Ends(w) /\ Persona!Writes
      /\ row' = (IF row = None THEN None ELSE Persona!Stamped(w, s))
      /\ ideal' = IF row = None THEN ideal
                  ELSE Persona!Clamp(Persona!Clamp(base + delta) - (here - when))
      /\ UNCHANGED <<persona_now, resurrected>>
  BY <1>1 DEF Persona!update_fatigue
<1>3. ReadInv(w) /\ PersonaTypes
  BY <1>2 DEF PersonaInv
<1>4. when \in Nat /\ here \in Nat /\ when <= here /\ base \in 0 .. MaxFatigue /\ base + delta \in Int
  BY <1>1, <1>3, PersonaAssumption DEF ReadInv, PersonaReads, PersonaTypes
<1>5. PICK c : c = Persona!Clamp(base + delta)
  OBVIOUS
<1>6. c \in 0 .. MaxFatigue /\ c - (here - when) \in Int
  BY <1>4, <1>5, Clamped, PersonaAssumption
<1>7. /\ overlapped' = (overlapped \/ w \in stale) /\ overlapped' \in BOOLEAN
      /\ (resurrected' => overlapped') /\ resurrected' \in BOOLEAN
  BY <1>2, EndsAre DEF PersonaInv, PersonaTypes
<1>8. ideal' \in 0 .. MaxFatigue
  BY <1>2, <1>3, <1>5, <1>6, Clamped DEF PersonaTypes
<1>9. /\ row' \in PersonaRow \cup {None} /\ (row' # None => row'.updated <= persona_now)
      /\ row' # None /\ ~overlapped' =>
             ideal' <= Persona!Clamp(row'.fatigue - (persona_now - row'.updated))
  <2>1. CASE row = None
    BY <1>2, <2>1
  <2>2. CASE row # None
    <3>1. PICK f : f = row.fatigue
      OBVIOUS
    <3>2. f \in 0 .. MaxFatigue /\ f + delta \in Int
      BY <2>2, <3>1, RowIsThere, PersonaAssumption
    <3>3. PICK d : d = Persona!Clamp(f + delta)
      OBVIOUS
    <3>4. d \in 0 .. MaxFatigue /\ d - (here - when) \in Int
      BY <1>4, <3>2, <3>3, Clamped, PersonaAssumption
    <3>5. s.mood \in Persona!Moods /\ s.fatigue = d /\ Topical(s.topics)
      BY <1>1, <2>2, <3>1, <3>3, RowIsThere DEF PersonaRow
    <3>6. row' \in PersonaRow /\ row'.updated = when /\ row'.fatigue = d
      BY <1>1, <1>2, <2>2, <3>4, <3>5, StampedIsRow
    <3>7. ASSUME ~overlapped' PROVE ideal' <= Persona!Clamp(d - (here - when))
      <4>1. ~overlapped /\ w \notin stale
        BY <1>7, <3>7
      <4>2. base <= f
        BY <1>1, <1>2, <1>3, <2>2, <3>1, <4>1 DEF ReadInv
      <4>3. base + delta <= f + delta
        BY <1>4, <3>2, <4>2, PersonaAssumption
      <4>4. c <= d
        BY <1>4, <1>5, <3>2, <3>3, <4>3, Clamped
      <4>5. c - (here - when) <= d - (here - when)
        BY <1>4, <1>6, <3>4, <4>4, PersonaAssumption
      <4>6. Persona!Clamp(c - (here - when)) <= Persona!Clamp(d - (here - when))
        BY <1>6, <3>4, <4>5, Clamped
      <4>7. QED BY <1>2, <1>5, <2>2, <4>6
    <3>8. QED BY <1>1, <1>4, <3>6, <3>7
  <2>3. QED BY <2>1, <2>2
<1>10. QED BY <1>2, <1>7, <1>8, <1>9, EndsAre, PersonaWritten

LEMMA PushHolds ==
    ASSUME PersonaInv, NEW w \in Writers, NEW topic \in Topics, Persona!push_recent_topic(w, topic)
    PROVE  PersonaInv'
<1>1. PICK list : list = Persona!_dedup_cap(Append(read[w].row.topics, topic))
  OBVIOUS
<1>2. PICK s : s = [row EXCEPT !.topics = list]
  OBVIOUS
<1>3. /\ persona_at[w] = "pushing" /\ Persona!Ends(w) /\ Persona!Writes
      /\ row' = IF row = None THEN None ELSE Persona!Stamped(w, s)
      /\ UNCHANGED <<persona_now, ideal, resurrected>>
  BY <1>1, <1>2 DEF Persona!push_recent_topic
<1>4. Topical(list)
  <2>1. ReadInv(w)
    BY <1>3 DEF PersonaInv
  <2>2. read[w].row \in PersonaRow
    BY <1>3, <2>1 DEF ReadInv
  <2>3. read[w].row.topics \in Seq(Topics)
    BY <2>2 DEF PersonaRow
  <2>4. Append(read[w].row.topics, topic) \in Seq(Topics)
    BY <2>3
  <2>5. QED BY <1>1, <2>4, DedupIsTopical
<1>5. row # None => s.mood \in Persona!Moods /\ s.fatigue = row.fatigue /\ Topical(s.topics)
  BY <1>2, <1>4, RowIsThere DEF PersonaRow
<1>6. QED BY <1>3, <1>5, RestampHolds

LEMMA SeedHolds ==
    ASSUME PersonaInv, NEW w \in Writers, Persona!seed_from_card(w)
    PROVE  PersonaInv'
<1>1. PICK s, here, when : s = Persona!Card /\ here = persona_now /\ when = read[w].when
  OBVIOUS
<1>2. /\ persona_at[w] = "seeding" /\ Persona!Ends(w) /\ Persona!Writes
      /\ row' = Persona!Stamped(w, s) /\ ideal' = 0
      /\ UNCHANGED <<persona_now, resurrected>>
  BY <1>1 DEF Persona!seed_from_card
<1>3. s.mood \in Persona!Moods /\ s.fatigue = 0 /\ Topical(s.topics)
  <2>1. Topical(<<>>)
    BY PersonaAssumption DEF Topical, Persona!IsInjective
  <2>2. QED BY <1>1, <2>1 DEF Persona!Card, Persona!Moods
<1>4. 0 \in 0 .. MaxFatigue
  BY PersonaAssumption
<1>5. /\ row' \in PersonaRow /\ row'.updated = when /\ row'.fatigue = 0
      /\ when \in Nat /\ here \in Nat /\ when <= here
  BY <1>1, <1>2, <1>3, <1>4, StampedIsRow
<1>6. /\ overlapped' \in BOOLEAN /\ (resurrected' => overlapped') /\ resurrected' \in BOOLEAN
  BY <1>2, EndsAre DEF PersonaInv, PersonaTypes
<1>7. 0 - (here - when) \in Int
  BY <1>5
<1>8. Persona!Clamp(0 - (here - when)) \in 0 .. MaxFatigue
  BY <1>7, Clamped
<1>9. ideal' <= Persona!Clamp(row'.fatigue - (persona_now - row'.updated))
  BY <1>1, <1>2, <1>5, <1>8, PersonaAssumption
<1>10. QED BY <1>1, <1>2, <1>4, <1>5, <1>6, <1>9, EndsAre, PersonaWritten

LEMMA ResetHolds ==
    ASSUME PersonaInv, Persona!reset
    PROVE  PersonaInv'
<1>1. /\ UNCHANGED <<persona_at, read, persona_now, overlapped, resurrected>> /\ row' = None
      /\ ideal' = 0 /\ stale' = {w \in Writers : persona_at'[w] # "idle"}
  BY DEF Persona!reset, Persona!Writes, Persona!ghostVars
<1>2. 0 \in 0 .. MaxFatigue
  BY PersonaAssumption
<1>3. PersonaTypes /\ (resurrected => overlapped)
  BY DEF PersonaInv
<1>4. QED BY <1>1, <1>2, <1>3, PersonaWritten DEF PersonaTypes

\* What decay-once writes: the row it listed, faded to its clock if that is the younger.
LEMMA DecayHolds ==
    ASSUME PersonaInv, NEW w \in Writers, Persona!_run_decay(w)
    PROVE  PersonaInv'
<1>1. PICK s, when, hours :
          /\ s = read[w].row /\ when = read[w].when
          /\ hours = IF when > s.updated THEN when - s.updated ELSE 0
  OBVIOUS
<1>0. PICK aged : aged = Persona!apply_decay(s, hours)
  OBVIOUS
<1>2. /\ persona_at[w] = "decaying" /\ Persona!Ends(w) /\ Persona!Writes
      /\ row' = Persona!Stamped(w, aged)
      /\ resurrected' = (resurrected \/ row = None)
      /\ ideal' = (IF row = None THEN row'.fatigue ELSE ideal)
      /\ persona_now' = persona_now
  BY <1>0, <1>1 DEF Persona!_run_decay
<1>3. /\ s \in PersonaRow /\ s # None /\ when \in Nat /\ when <= persona_now
      /\ w \notin stale => row = s /\ s.updated <= when
  <2>1. ReadInv(w)
    BY <1>2 DEF PersonaInv
  <2>2. QED BY <1>1, <1>2, <2>1 DEF ReadInv, PersonaReads
<1>4. PICK f, u, here : f = s.fatigue /\ u = s.updated /\ here = persona_now
  OBVIOUS
<1>5. /\ f \in 0 .. MaxFatigue /\ f \in Int /\ u \in Nat /\ when <= here /\ here \in Nat
      /\ s.mood \in Persona!Moods /\ Topical(s.topics)
      /\ hours \in Nat /\ (u <= when => hours = when - u) /\ when \in Nat
  <2>1. /\ f \in 0 .. MaxFatigue /\ u \in Nat /\ s.mood \in Persona!Moods /\ Topical(s.topics)
    BY <1>3, <1>4 DEF PersonaRow
  <2>2. here \in Nat
    BY <1>4 DEF PersonaInv, PersonaTypes
  <2>3. hours \in Nat /\ (u <= when => hours = when - u)
    BY <1>1, <1>3, <1>4, <2>1
  <2>4. QED BY <1>3, <1>4, <2>1, <2>2, <2>3, PersonaAssumption
<1>6. f - hours \in Int /\ Persona!Clamp(f - hours) \in 0 .. MaxFatigue
  <2>1. f - hours \in Int
    BY <1>5
  <2>2. QED BY <2>1, Clamped
<1>7. aged.mood \in Persona!Moods /\ aged.fatigue = Persona!Clamp(f - hours) /\ Topical(aged.topics)
  <2>1. CASE hours <= 0
    <3>1. hours = 0 /\ f - hours = f
      BY <1>5, <2>1
    <3>2. aged = s
      BY <1>0, <2>1 DEF Persona!apply_decay
    <3>3. QED BY <1>4, <1>5, <3>1, <3>2, Clamped
  <2>2. CASE ~(hours <= 0)
    <3>1. PICK days, list : days = hours \div Day /\ list = SubSeq(s.topics, days + 1, Len(s.topics))
      OBVIOUS
    <3>a. hours \in Nat /\ Day \in Nat \ {0}
      BY <1>5, PersonaAssumption
    <3>b. \A h \in Nat, d \in Nat \ {0} : h \div d \in Nat
      OBVIOUS
    <3>2. days \in Nat
      BY <3>1, <3>a, <3>b
    <3>3. Topical(list)
      BY <1>5, <3>1, <3>2, DroppedIsTopical
    <3>4. PICK g : g = Persona!Clamp(f - hours)
      OBVIOUS
    <3>5. aged = [s EXCEPT !.fatigue = g,
                            !.mood = IF s.mood = "tired" /\ g < Tired THEN "neutral" ELSE s.mood,
                            !.topics = list]
      BY <1>0, <1>4, <2>2, <3>1, <3>4 DEF Persona!apply_decay
    <3>6. "neutral" \in Persona!Moods
      BY DEF Persona!Moods
    <3>7. aged.fatigue = g /\ aged.topics = list /\ aged.mood \in Persona!Moods
      BY <1>3, <1>5, <3>5, <3>6 DEF PersonaRow
    <3>8. QED BY <3>3, <3>4, <3>7
  <2>3. QED BY <2>1, <2>2
<1>8. /\ row' \in PersonaRow /\ row'.updated = when /\ row'.fatigue = Persona!Clamp(f - hours)
      /\ row'.updated <= persona_now
  BY <1>1, <1>2, <1>3, <1>6, <1>7, StampedIsRow
<1>9. ideal' \in 0 .. MaxFatigue
  BY <1>2, <1>6, <1>8 DEF PersonaInv, PersonaTypes
<1>10. overlapped' = (overlapped \/ w \in stale) /\ overlapped' \in BOOLEAN
  BY <1>2, EndsAre
<1>11. resurrected' \in BOOLEAN /\ (resurrected' => overlapped')
  BY <1>2, <1>3, <1>10 DEF PersonaInv, PersonaTypes
<1>12. ASSUME ~overlapped'
       PROVE  ideal' <= Persona!Clamp(row'.fatigue - (persona_now - row'.updated))
  <2>1. ~overlapped /\ row = s /\ row # None /\ u <= when /\ hours = when - u
    BY <1>3, <1>4, <1>5, <1>10, <1>12
  <2>2. ideal' = ideal /\ ideal <= Persona!Clamp(f - (here - u))
    BY <1>2, <1>4, <2>1 DEF PersonaInv
  <2>3. here - when \in Nat /\ f - hours <= MaxFatigue /\ f - hours - (here - when) = f - (here - u)
    BY <1>5, <2>1, PersonaAssumption
  <2>4. Persona!Clamp(Persona!Clamp(f - hours) - (here - when)) = Persona!Clamp(f - hours - (here - when))
    BY <1>6, <2>3, Clamped
  <2>5. QED BY <1>4, <1>8, <2>2, <2>3, <2>4
<1>13. QED BY <1>2, <1>8, <1>9, <1>10, <1>11, <1>12, EndsAre, PersonaWritten

LEMMA PersonaSteps ==
    ASSUME PersonaInv, Persona!PersonaNext
    PROVE  PersonaInv'
<1>1. \A w \in Writers, what \in {"mood", "fatigue", "sweeping"} : Persona!Clock(w, what) => PersonaInv'
  BY ClockHolds
<1>2. \A w \in Writers, what \in {"topics", "absent"} : Persona!Get(w, what) => PersonaInv'
  BY GetHolds
<1>3. \A w \in Writers : Persona!Stamp(w) \/ Persona!list_all(w) => PersonaInv'
  BY StampHolds, ListHolds
<1>4. \A w \in Writers, mood \in Persona!Moods : Persona!update_mood(w, mood) => PersonaInv'
  BY MoodHolds
<1>5. \A w \in Writers, delta \in {-1, 2} : Persona!update_fatigue(w, delta) => PersonaInv'
  BY FatigueHolds
<1>6. \A w \in Writers, topic \in Topics : Persona!push_recent_topic(w, topic) => PersonaInv'
  BY PushHolds
<1>7. \A w \in Writers : Persona!_run_decay(w) \/ Persona!seed_from_card(w) => PersonaInv'
  BY DecayHolds, SeedHolds
<1>8. QED
  BY <1>1, <1>2, <1>3, <1>4, <1>5, <1>6, <1>7, PersonaTickHolds, ResetHolds DEF Persona!PersonaNext

LEMMA PersonaStay ==
    ASSUME PersonaInv,
           UNCHANGED <<row, persona_now, ideal, persona_at, read, stale, overlapped, resurrected>>
    PROVE  PersonaInv'
<1>1. PersonaTypes'
  BY DEF PersonaInv, PersonaTypes
<1>2. \A w \in Writers : persona_at'[w] # "idle" => ReadInv(w)'
  BY DEF PersonaInv, ReadInv
<1>3. QED BY <1>1, <1>2 DEF PersonaInv, Persona!Clamp

LEMMA PersonaIsSafe ==
    ASSUME PersonaInv
    PROVE  Persona!PersonaTypeOK /\ Persona!RecoversInTime /\ Persona!ResetStays
<1>1. row # None => /\ row.fatigue \in 0 .. MaxFatigue /\ row.mood \in Persona!Moods
                    /\ row.updated \in 0 .. persona_now
                    /\ Persona!IsInjective(row.topics) /\ Len(row.topics) <= RECENT_TOPICS_CAP
  <2>1. SUFFICES ASSUME row # None
                 PROVE  /\ row.fatigue \in 0 .. MaxFatigue /\ row.mood \in Persona!Moods
                        /\ row.updated \in 0 .. persona_now
                        /\ Persona!IsInjective(row.topics) /\ Len(row.topics) <= RECENT_TOPICS_CAP
    OBVIOUS
  <2>2. QED BY <2>1, RowIsThere DEF Topical
<1>2. \A w \in Writers : persona_at[w] # "idle" => read[w].when <= persona_now
  BY DEF PersonaInv, ReadInv
<1>3. row # None /\ ~overlapped => row.fatigue >= ideal
  <2>1. SUFFICES ASSUME row # None, ~overlapped PROVE row.fatigue >= ideal
    OBVIOUS
  <2>2. /\ ideal <= row.fatigue /\ ideal \in 0 .. MaxFatigue /\ row.fatigue \in 0 .. MaxFatigue
    BY <2>1, RowIsThere
  <2>3. QED BY <2>2, PersonaAssumption
<1>4. QED BY <1>1, <1>2, <1>3 DEF PersonaInv, Persona!PersonaTypeOK, Persona!RecoversInTime, Persona!ResetStays

-----------------------------------------------------------------------------
(* What users like.  A run that writes a row has found one of the same     *)
(* value, and what it found stays between the readings of that value.      *)

Clean == [value : TraitValues \ Personal, confidence : {c \in Readings : c >= TraitFloor}]
Reading == [value : TraitValues \ Personal, session : Sessions, confidence : TraitFloor .. 10]
Trait == [id : Nat, value : TraitValues \ Personal, confidence : TraitFloor .. 10,
          first : Nat, last : Nat, sessions : Seq(Sessions)]
Distillation ==
    [at : {"idle", "asking", "reading", "writing", "done"}, session : Sessions \cup {None},
     todo : Seq(Clean), stamp : Nat, found : Trait \cup {None}]

Heard(v, s) == \E x \in observed : x.value = v /\ x.session = s
Bracketed(v, c) ==
    /\ \E x \in observed : x.value = v /\ x.confidence <= c
    /\ \E x \in observed : x.value = v /\ c <= x.confidence

\* What a row says, read by a run or stored.
Founded(v, c, q) ==
    Bracketed(v, c) /\ \A s \in Sessions : Within(q, s) => Heard(v, s)

TraitOk(t) ==
    /\ t \in Trait /\ t.id \in 1 .. ids /\ Persona!IsInjective(t.sessions)
    /\ Founded(t.value, t.confidence, t.sessions)

Settled(t) ==
    /\ \A u \in traits : u.value = t.value => u = t
    /\ \A s \in Sessions : Heard(t.value, s) => Within(t.sessions, s)

TraitRowsInv ==
    /\ ids \in Nat /\ raced \in BOOLEAN /\ observed \in SUBSET Reading
    /\ \A t \in traits : TraitOk(t)
    /\ \A t, u \in traits : t.id = u.id => t = u
    /\ \A x \in observed : \E t \in traits : t.value = x.value
    /\ ~raced => \A t \in traits : Settled(t)

FoundOk(f, v) ==
    /\ f \in Trait /\ f.id <= ids /\ f.value = v /\ Persona!IsInjective(f.sessions)
    /\ \A t \in traits : t.id = f.id => t.value = v /\ Founded(v, f.confidence, f.sessions)

DistillationOk(d) ==
    /\ d.at \in {"asking", "reading", "writing"} => d.session \in Sessions
    /\ d.at \in {"reading", "writing"} => d.todo # <<>>
    /\ d.at = "writing" /\ d.found # None => FoundOk(d.found, Head(d.todo).value)

TraitsInv ==
    /\ TraitRowsInv /\ clock \in Nat
    /\ run \in [Distillations -> Distillation]
    /\ \A r \in Distillations : DistillationOk(run[r])

LEMMA IdleIsOk ==
    /\ Persona!Idle \in Distillation /\ DistillationOk(Persona!Idle)
    /\ [Persona!Idle EXCEPT !.at = "done"] \in Distillation
    /\ DistillationOk([Persona!Idle EXCEPT !.at = "done"])
    /\ \A s \in Sessions : /\ [Persona!Idle EXCEPT !.at = "asking", !.session = s] \in Distillation
                           /\ DistillationOk([Persona!Idle EXCEPT !.at = "asking", !.session = s])
<1>1. <<>> \in Seq(Clean)
  OBVIOUS
<1>2. QED BY <1>1 DEF Persona!Idle, Distillation, DistillationOk

LEMMA TraitsStart ==
    ASSUME Persona!TraitsInit
    PROVE  TraitsInv
<1>1. TraitRowsInv /\ clock \in Nat
  BY DEF Persona!TraitsInit, TraitRowsInv
<1>2. run = [r \in Distillations |-> Persona!Idle]
  BY DEF Persona!TraitsInit
<1>3. QED BY <1>1, <1>2, IdleIsOk DEF TraitsInv

LEMMA TraitRowsStay ==
    ASSUME TraitRowsInv, UNCHANGED <<traits, ids, observed>>, raced' \in BOOLEAN, raced => raced'
    PROVE  TraitRowsInv'
<1>1. \A t : TraitOk(t) => TraitOk(t)'
  BY DEF TraitOk, Founded, Bracketed, Heard
<1>2. \A t : Settled(t) => Settled(t)'
  BY DEF Settled, Heard
<1>3. QED BY <1>1, <1>2 DEF TraitRowsInv

LEMMA TraitsStay ==
    ASSUME TraitsInv, UNCHANGED <<traits, ids, run, clock, observed, raced>>
    PROVE  TraitsInv'
<1>1. TraitRowsInv'
  BY TraitRowsStay DEF TraitsInv, TraitRowsInv
<1>2. \A f, v : FoundOk(f, v) => FoundOk(f, v)'
  BY DEF FoundOk, Founded, Bracketed, Heard
<1>3. \A d : DistillationOk(d) => DistillationOk(d)'
  BY <1>2 DEF DistillationOk
<1>4. QED BY <1>1, <1>3 DEF TraitsInv

\* What a run found stays well founded while rows keep their value and
\* no reading of a value is forgotten that has a row.
LEMMA FoundStays ==
    ASSUME TraitRowsInv, NEW f, NEW v, FoundOk(f, v), ids' \in Nat, ids <= ids',
           \A t \in traits' : t.id <= ids => \E u \in traits : u.id = t.id /\ u.value = t.value,
           \A x \in observed : (\E t \in traits' : t.value = x.value) => x \in observed'
    PROVE  FoundOk(f, v)'
<1>1. /\ f \in Trait /\ f.id \in Nat /\ f.id <= ids /\ f.value = v /\ Persona!IsInjective(f.sessions)
      /\ ids \in Nat
      /\ \A t \in traits : t.id = f.id => t.value = v /\ Founded(v, f.confidence, f.sessions)
  BY DEF FoundOk, TraitRowsInv, Trait
<1>2. f.id <= ids'
  BY <1>1
<1>3. ASSUME NEW t \in traits', t.id = f.id
      PROVE  t.value = v /\ Founded(v, f.confidence, f.sessions)'
  <2>1. PICK u \in traits : u.id = t.id /\ u.value = t.value
    BY <1>1, <1>3
  <2>2. t.value = v /\ Founded(v, f.confidence, f.sessions)
    BY <1>1, <1>3, <2>1
  <2>3. \A x \in observed : x.value = v => x \in observed'
    BY <2>2
  <2>4. \A s : Heard(v, s) => Heard(v, s)'
    BY <2>3 DEF Heard
  <2>5. \A c : Bracketed(v, c) => Bracketed(v, c)'
    BY <2>3 DEF Bracketed
  <2>6. QED BY <2>2, <2>4, <2>5 DEF Founded
<1>4. QED BY <1>1, <1>2, <1>3 DEF FoundOk

\* One run goes on, and the rows are such as FoundStays asks for.
LEMMA RunsGoOn ==
    ASSUME TraitsInv, NEW r \in Distillations, NEW d \in Distillation,
           run' = [run EXCEPT ![r] = d], DistillationOk(d)', clock' \in Nat, TraitRowsInv',
           ids <= ids',
           \A t \in traits' : t.id <= ids => \E u \in traits : u.id = t.id /\ u.value = t.value,
           \A x \in observed : (\E t \in traits' : t.value = x.value) => x \in observed'
    PROVE  TraitsInv'
<1>1. TraitRowsInv /\ ids' \in Nat /\ run \in [Distillations -> Distillation]
  BY DEF TraitsInv, TraitRowsInv
<1>2. \A f, v : FoundOk(f, v) => FoundOk(f, v)'
  BY <1>1, FoundStays
<1>3. \A e : DistillationOk(e) => DistillationOk(e)'
  BY <1>2 DEF DistillationOk
<1>4. /\ run' \in [Distillations -> Distillation] /\ run'[r] = d
      /\ \A q \in Distillations : q # r => run'[q] = run[q]
  BY <1>1
<1>5. \A q \in Distillations : DistillationOk(run[q])
  BY DEF TraitsInv
<1>6. ASSUME NEW q \in Distillations PROVE DistillationOk(run[q])'
  <2>1. CASE q = r
    BY <1>4, <2>1
  <2>2. CASE q # r
    <3>1. PICK e : e = run[q]
      OBVIOUS
    <3>2. DistillationOk(e)'
      BY <1>3, <1>5, <3>1
    <3>3. run'[q] = e
      BY <1>4, <2>2, <3>1
    <3>4. QED BY <3>2, <3>3 DEF DistillationOk
  <2>3. QED BY <2>1, <2>2
<1>7. QED BY <1>4, <1>6 DEF TraitsInv

\* A step that leaves the rows alone.
LEMMA RunMoves ==
    ASSUME TraitsInv, NEW r \in Distillations, NEW d \in Distillation,
           run' = [run EXCEPT ![r] = d], DistillationOk(d), clock' \in Nat,
           UNCHANGED <<traits, ids, observed, raced>>
    PROVE  TraitsInv'
<1>1. TraitRowsInv /\ ids \in Nat
  BY DEF TraitsInv, TraitRowsInv
<1>2. TraitRowsInv'
  BY <1>1, TraitRowsStay DEF TraitRowsInv
<1>3. DistillationOk(d)'
  BY DEF DistillationOk, FoundOk, Founded, Bracketed, Heard
<1>4. ids <= ids'
  BY <1>1
<1>5. /\ \A t \in traits' : t.id <= ids => \E u \in traits : u.id = t.id /\ u.value = t.value
      /\ \A x \in observed : (\E t \in traits' : t.value = x.value) => x \in observed'
  OBVIOUS
<1>6. QED BY <1>2, <1>3, <1>4, <1>5, RunsGoOn

LEMMA ReadRowHolds ==
    ASSUME TraitsInv, NEW r \in Distillations, NEW s \in Sessions, Persona!read_session_turns(r, s)
    PROVE  TraitsInv'
<1>1. PICK d : d = IF Persona!LongEnough(s) THEN [Persona!Idle EXCEPT !.at = "asking", !.session = s]
                   ELSE [Persona!Idle EXCEPT !.at = "done"]
  OBVIOUS
<1>2. run' = [run EXCEPT ![r] = d] /\ UNCHANGED <<traits, ids, clock, observed, raced>>
  BY <1>1 DEF Persona!read_session_turns
<1>3. d \in Distillation /\ DistillationOk(d)
  BY <1>1, IdleIsOk
<1>4. clock' \in Nat
  BY <1>2 DEF TraitsInv
<1>5. QED BY <1>2, <1>3, <1>4, RunMoves

LEMMA FailHolds ==
    ASSUME TraitsInv, NEW r \in Distillations, Persona!Fails(r)
    PROVE  TraitsInv'
<1>1. /\ run' = [run EXCEPT ![r] = [Persona!Idle EXCEPT !.at = "done"]]
      /\ UNCHANGED <<traits, ids, clock, observed, raced>>
  BY DEF Persona!Fails
<1>2. clock' \in Nat
  BY <1>1 DEF TraitsInv
<1>3. QED BY <1>1, <1>2, IdleIsOk, RunMoves

\* The filter.
LEMMA ParsedIsClean ==
    ASSUME NEW a \in Seq(Persona!Entries)
    PROVE  Persona!_parse_llm_response(a) \in Seq(Clean)
<1> DEFINE places == {i \in DOMAIN a : /\ a[i].confidence >= TraitFloor
                                       /\ ~Persona!_trait_value_has_pii(a[i].value)}
<1>1. \A i \in places : a[i] \in Clean
  <2> TAKE i \in places
  <2>1. a[i] \in Persona!Entries /\ a[i].confidence >= TraitFloor /\ a[i].value \notin Personal
    BY DEF Persona!_trait_value_has_pii
  <2>2. QED BY <2>1 DEF Persona!Entries, Clean
<1>2. places \in SUBSET DOMAIN a /\ Persona!_parse_llm_response(a) = Persona!Kept(a, places)
  BY DEF Persona!_parse_llm_response
<1> HIDE DEF places
<1>3. PICK k, n : k = Persona!Kept(a, places) /\ n = Cardinality(places)
  OBVIOUS
<1>4. /\ k \in Seq(Persona!Entries) /\ Len(k) = n /\ DOMAIN k = 1 .. n
      /\ \E from \in [1 .. n -> places] : \A i \in 1 .. n : k[i] = a[from[i]]
  BY <1>2, <1>3, KeptIsThere
<1>5. PICK from \in [1 .. n -> places] : \A i \in 1 .. n : k[i] = a[from[i]]
  BY <1>4
<1>6. \A i \in 1 .. n : k[i] \in Clean
  BY <1>1, <1>5
<1>7. k = [i \in 1 .. n |-> k[i]] /\ n \in Nat
  BY <1>4
<1>8. [i \in 1 .. n |-> k[i]] \in Seq(Clean)
  BY <1>6, <1>7
<1>9. QED BY <1>2, <1>3, <1>7, <1>8

LEMMA AnswersAreEntries == \A a \in Persona!Answers : a \in Seq(Persona!Entries)
<1> DEFINE E == Persona!Entries
<1>1. \A e \in E : <<e>> \in Seq(E)
  OBVIOUS
<1>2. \A e, f \in E : <<e, f>> \in Seq(E)
  OBVIOUS
<1>3. <<>> \in Seq(E)
  OBVIOUS
<1> HIDE DEF E
<1> DEFINE A == {<<e>> : e \in E}
           B == {<<e, f>> : e, f \in E}
           Q == Seq(E)
<1>4. A \subseteq Q
  BY <1>1
<1>5. B \subseteq Q
  BY <1>2
<1>6. <<>> \in Q /\ Persona!Answers = {<<>>} \cup A \cup B
  BY <1>3 DEF Persona!Answers, E
<1> HIDE DEF A, B, Q
<1>7. \A a \in Persona!Answers : a \in Q
  BY <1>4, <1>5, <1>6
<1>8. QED BY <1>7 DEF Q, E

LEMMA AnswerHolds ==
    ASSUME TraitsInv, NEW r \in Distillations, NEW a \in Persona!Answers, Persona!Answered(r, a)
    PROVE  TraitsInv'
<1>1. PICK p, b : p = Persona!_parse_llm_response(a) /\ b = run[r]
  OBVIOUS
<1>2. PICK d : d = IF p = <<>> THEN [Persona!Idle EXCEPT !.at = "done"]
                   ELSE [b EXCEPT !.at = "reading", !.todo = p, !.stamp = clock']
  OBVIOUS
<1>3. /\ b.at = "asking" /\ clock' = clock + 1 /\ run' = [run EXCEPT ![r] = d]
      /\ UNCHANGED <<traits, ids, observed, raced>>
  BY <1>1, <1>2 DEF Persona!Answered, TraitsInv
<1>4. clock' \in Nat
  BY <1>3 DEF TraitsInv
<1>5. p \in Seq(Clean)
  BY <1>1, AnswersAreEntries, ParsedIsClean
<1>6. b \in Distillation /\ b.session \in Sessions
  BY <1>1, <1>3 DEF TraitsInv, DistillationOk
<1>7. d \in Distillation /\ DistillationOk(d)
  <2>1. CASE p = <<>>
    BY <1>2, <2>1, IdleIsOk
  <2>2. CASE p # <<>>
    <3>1. d = [b EXCEPT !.at = "reading", !.todo = p, !.stamp = clock']
      BY <1>2, <2>2
    <3>2. d \in Distillation
      BY <1>4, <1>5, <1>6, <3>1 DEF Distillation
    <3>3. d.at = "reading" /\ d.session = b.session /\ d.todo = p
      BY <1>6, <3>1 DEF Distillation
    <3>4. QED BY <1>6, <2>2, <3>2, <3>3 DEF DistillationOk
  <2>3. QED BY <2>1, <2>2
<1>8. QED BY <1>3, <1>4, <1>7, RunMoves

LEMMA FirstRowIs ==
    ASSUME TraitRowsInv, NEW v
    PROVE  IF Persona!RowsOf(v) = {} THEN Persona!FirstRow(v) = None
           ELSE Persona!FirstRow(v) \in traits /\ Persona!FirstRow(v).value = v
<1>1. PICK R : R = Persona!RowsOf(v)
  OBVIOUS
<1>2. R = {t \in traits : t.value = v}
  BY <1>1 DEF Persona!RowsOf
<1>3. CASE R = {}
  BY <1>1, <1>3 DEF Persona!FirstRow
<1>4. CASE R # {}
  <2> DEFINE I == {t.id : t \in R}
  <2>1. I \in SUBSET Nat /\ I # {}
    BY <1>2, <1>4 DEF TraitRowsInv, TraitOk, Trait
  <2>2. PICK x \in I : \A y \in I : x <= y
    BY <2>1, LeastExists
  <2>3. \E t \in R : \A u \in R : t.id <= u.id
    BY <2>2
  <2>4. (CHOOSE t \in R : \A u \in R : t.id <= u.id) \in R
    BY <2>3
  <2>5. Persona!FirstRow(v) \in R
    BY <1>1, <1>4, <2>4 DEF Persona!FirstRow
  <2>6. QED BY <1>1, <1>2, <1>4, <2>5
<1>5. QED BY <1>3, <1>4

LEMMA RowIsNoNull ==
    ASSUME TraitRowsInv, NEW t \in traits
    PROVE  t # None /\ t \in Trait /\ t.id \in Nat /\ t.id <= ids
<1>1. t \in Trait /\ t.id \in 1 .. ids /\ ids \in Nat
  BY DEF TraitRowsInv, TraitOk
<1>2. \A c \in TraitFloor .. 10 : c \in 0 .. 10
  BY TraitsAssumption
<1>3. t \in [id : Nat, value : TraitValues, confidence : 0 .. 10, first : Nat, last : Nat,
             sessions : Seq(Sessions)]
  BY <1>1, <1>2 DEF Trait
<1>4. QED BY <1>1, <1>3, TraitsAssumption

LEMMA SelectHolds ==
    ASSUME TraitsInv, NEW r \in Distillations, Persona!SelectRow(r)
    PROVE  TraitsInv'
<1>1. PICK b, v : b = run[r] /\ v = Head(b.todo).value
  OBVIOUS
<1>2. PICK f : f = Persona!FirstRow(v)
  OBVIOUS
<1>3. PICK d : d = [b EXCEPT !.at = "writing", !.found = f]
  OBVIOUS
<1>4. /\ run \in [Distillations -> Distillation] /\ TraitRowsInv /\ b \in Distillation
      /\ DistillationOk(b)
  BY <1>1 DEF TraitsInv
<1>5. /\ b.at = "reading" /\ run' = [run EXCEPT ![r] = d]
      /\ UNCHANGED <<traits, ids, clock, observed, raced>>
  BY <1>1, <1>2, <1>3, <1>4 DEF Persona!SelectRow
<1>6. f = None \/ (f \in traits /\ f.value = v)
  BY <1>2, <1>4, FirstRowIs
<1>7. f # None => FoundOk(f, v)
  <2> SUFFICES ASSUME f # None PROVE FoundOk(f, v)
    OBVIOUS
  <2>1. f \in traits /\ f.value = v /\ TraitOk(f) /\ f \in Trait /\ f.id <= ids
    BY <1>4, <1>6, RowIsNoNull DEF TraitRowsInv
  <2>2. \A t \in traits : t.id = f.id => t = f
    BY <1>4, <2>1 DEF TraitRowsInv
  <2>3. QED BY <2>1, <2>2 DEF FoundOk, TraitOk
<1>8. f \in Trait \cup {None}
  BY <1>4, <1>6, RowIsNoNull
<1>9. d \in Distillation /\ d.at = "writing" /\ d.session = b.session /\ d.todo = b.todo /\ d.found = f
  BY <1>3, <1>4, <1>8 DEF Distillation
<1>10. DistillationOk(d)
  BY <1>1, <1>4, <1>5, <1>7, <1>9 DEF DistillationOk
<1>11. clock' \in Nat
  BY <1>5 DEF TraitsInv
<1>12. QED BY <1>5, <1>9, <1>10, <1>11, RunMoves

\* Where a run is after it has written.
LEMMA WrittenIs ==
    ASSUME TraitsInv, NEW r \in Distillations, run[r].at = "writing", Persona!Written(r)
    PROVE  \E b, d : /\ b = run[r] /\ b \in Distillation /\ DistillationOk(b)
                     /\ b.session \in Sessions /\ Head(b.todo) \in Clean
                     /\ d \in Distillation /\ DistillationOk(d)' /\ run' = [run EXCEPT ![r] = d]
                     /\ raced' = (raced \/ Persona!FirstRow(Head(b.todo).value) # b.found)
                     /\ clock' = clock
<1>1. PICK b : b = run[r]
  OBVIOUS
<1>2. PICK d : d = IF Len(b.todo) = 1 THEN [Persona!Idle EXCEPT !.at = "done"]
                   ELSE [b EXCEPT !.at = "reading", !.todo = Tail(b.todo), !.found = None]
  OBVIOUS
<1>3. /\ run \in [Distillations -> Distillation] /\ b \in Distillation /\ DistillationOk(b)
      /\ b.at = "writing"
  BY <1>1 DEF TraitsInv
<1>4. /\ run' = [run EXCEPT ![r] = d] /\ clock' = clock
      /\ raced' = (raced \/ Persona!FirstRow(Head(b.todo).value) # b.found)
  <2>1. run' = [run EXCEPT ![r] = d]
    <3>1. run' = [run EXCEPT ![r] = IF Len(run[r].todo) = 1 THEN [Persona!Idle EXCEPT !.at = "done"]
                                    ELSE [run[r] EXCEPT !.at = "reading", !.todo = Tail(run[r].todo),
                                                        !.found = None]]
      BY DEF Persona!Written
    <3>2. QED BY <1>1, <1>2, <3>1
  <2>2. /\ raced' = (raced \/ Persona!FirstRow(Head(run[r].todo).value) # run[r].found)
        /\ clock' = clock
    BY DEF Persona!Written
  <2>3. QED BY <1>1, <2>1, <2>2
<1>5. b.session \in Sessions /\ b.todo # <<>> /\ b.todo \in Seq(Clean)
  BY <1>3 DEF DistillationOk, Distillation
<1>6. /\ Head(b.todo) \in Clean /\ Tail(b.todo) \in Seq(Clean)
      /\ Len(b.todo) # 1 => Tail(b.todo) # <<>>
  <2>1. PICK q : q = b.todo
    OBVIOUS
  <2>2. q \in Seq(Clean) /\ q # <<>>
    BY <1>5, <2>1
  <2>3. Head(q) \in Clean /\ Tail(q) \in Seq(Clean) /\ Len(Tail(q)) = Len(q) - 1 /\ Len(q) \in Nat
    BY <2>2
  <2>4. Len(q) # 1 => Len(Tail(q)) # 0
    BY <2>3
  <2>5. Len(q) # 1 => Tail(q) # <<>>
    BY <2>4
  <2>6. QED BY <2>1, <2>3, <2>5
<1>7. d \in Distillation /\ DistillationOk(d)'
  <2>1. CASE Len(b.todo) = 1
    <3>1. d = [Persona!Idle EXCEPT !.at = "done"]
      BY <1>2, <2>1
    <3>2. d \in Distillation /\ d.at = "done"
      BY <3>1, IdleIsOk DEF Persona!Idle
    <3>3. QED BY <3>2 DEF DistillationOk
  <2>2. CASE Len(b.todo) # 1
    <3>1. d = [b EXCEPT !.at = "reading", !.todo = Tail(b.todo), !.found = None]
      BY <1>2, <2>2
    <3>2. d \in Distillation /\ d.at = "reading" /\ d.session = b.session /\ d.todo = Tail(b.todo)
      BY <1>3, <1>6, <3>1 DEF Distillation
    <3>3. QED BY <1>5, <1>6, <2>2, <3>2 DEF DistillationOk
  <2>3. QED BY <2>1, <2>2
<1>8. QED BY <1>1, <1>3, <1>4, <1>5, <1>6, <1>7

\* What is observed when a row is written.
LEMMA ObservedIs ==
    ASSUME TraitRowsInv, NEW e \in Clean, NEW s \in Sessions, NEW c, NEW x,
           c = Persona!_clamp_confidence(e.confidence),
           x = [value |-> e.value, session |-> s, confidence |-> c],
           observed' = observed \cup {x}
    PROVE  /\ x \in Reading /\ c \in TraitFloor .. 10 /\ observed' \in SUBSET Reading
           /\ e.value \in TraitValues \ Personal
           /\ x.value = e.value /\ x.session = s /\ x.confidence = c
           /\ \A v, z : Heard(v, z)' <=> Heard(v, z) \/ (v = e.value /\ z = s)
           /\ \A v, k : Bracketed(v, k) => Bracketed(v, k)'
<1>1. e.confidence \in Int /\ e.confidence >= TraitFloor /\ e.value \in TraitValues \ Personal
  BY TraitsAssumption DEF Clean
<1>2. c \in TraitFloor .. 10
  BY <1>1, TraitsAssumption DEF Persona!_clamp_confidence
<1>3. x \in Reading /\ x.value = e.value /\ x.session = s /\ x.confidence = c
  BY <1>1, <1>2 DEF Reading
<1>4. observed' \in SUBSET Reading
  BY <1>3 DEF TraitRowsInv
<1>5. \A v, z : Heard(v, z)' <=> Heard(v, z) \/ (v = e.value /\ z = s)
  BY <1>3 DEF Heard
<1>6. \A v, k : Bracketed(v, k) => Bracketed(v, k)'
  BY DEF Bracketed
<1>7. QED BY <1>1, <1>2, <1>3, <1>4, <1>5, <1>6

LEMMA InsertTraitHolds ==
    ASSUME TraitsInv, NEW r \in Distillations, Persona!InsertRow(r)
    PROVE  TraitsInv'
<1>1. PICK b, d : /\ b = run[r] /\ b \in Distillation /\ DistillationOk(b)
                  /\ b.session \in Sessions /\ Head(b.todo) \in Clean
                  /\ d \in Distillation /\ DistillationOk(d)' /\ run' = [run EXCEPT ![r] = d]
                  /\ raced' = (raced \/ Persona!FirstRow(Head(b.todo).value) # b.found)
                  /\ clock' = clock
  BY WrittenIs DEF Persona!InsertRow
<1>2. PICK e, s, v : e = Head(b.todo) /\ s = b.session /\ v = e.value
  OBVIOUS
<1>3. PICK c : c = Persona!_clamp_confidence(e.confidence)
  OBVIOUS
<1>4. PICK x, t : /\ x = [value |-> e.value, session |-> s, confidence |-> c]
                  /\ t = [id |-> ids + 1, value |-> e.value, confidence |-> c,
                          first |-> b.stamp, last |-> b.stamp, sessions |-> <<s>>]
  OBVIOUS
<1>5. /\ b.found = None /\ traits' = traits \cup {t} /\ ids' = ids + 1 /\ observed' = observed \cup {x}
  BY <1>1, <1>2, <1>3, <1>4 DEF Persona!InsertRow, Persona!Observe
<1>6. /\ TraitRowsInv /\ ids \in Nat /\ raced \in BOOLEAN /\ e \in Clean /\ s \in Sessions
      /\ b.stamp \in Nat /\ clock \in Nat
  BY <1>1, <1>2 DEF TraitsInv, TraitRowsInv, Distillation
<1>7. /\ x \in Reading /\ c \in TraitFloor .. 10 /\ observed' \in SUBSET Reading
      /\ v \in TraitValues \ Personal
      /\ x.value = v /\ x.session = s /\ x.confidence = c
      /\ \A w, z : Heard(w, z)' <=> Heard(w, z) \/ (w = v /\ z = s)
      /\ \A w, k : Bracketed(w, k) => Bracketed(w, k)'
  BY <1>2, <1>3, <1>4, <1>5, <1>6, ObservedIs
<1>8. /\ t.id = ids + 1 /\ t.value = v /\ t.confidence = c /\ t.sessions = <<s>> /\ t \in Trait
      /\ Persona!IsInjective(<<s>>) /\ \A z : Within(<<s>>, z) <=> z = s
  <2>1. <<s>> \in Seq(Sessions) /\ DOMAIN <<s>> = {1} /\ <<s>>[1] = s
    BY <1>6
  <2>2. t.id = ids + 1 /\ t.value = v /\ t.confidence = c /\ t.sessions = <<s>> /\ t \in Trait
    BY <1>2, <1>4, <1>6, <1>7, <2>1 DEF Trait
  <2>3. QED BY <2>1, <2>2 DEF Persona!IsInjective, Within
<1>9. \A u \in traits : TraitOk(u) /\ u.id \in Nat /\ u.id <= ids
  BY <1>6, RowIsNoNull DEF TraitRowsInv
<1>10. \A u \in traits : TraitOk(u)'
  <2> TAKE u \in traits
  <2>1. TraitOk(u) /\ u.id \in 1 .. ids + 1
    BY <1>6, <1>9 DEF TraitOk
  <2>2. Founded(u.value, u.confidence, u.sessions)'
    BY <1>7, <2>1 DEF TraitOk, Founded
  <2>3. QED BY <1>5, <2>1, <2>2 DEF TraitOk
<1>11. TraitOk(t)'
  <2>1. ids + 1 \in 1 .. ids + 1 /\ c <= c
    BY <1>6, <1>7, TraitsAssumption
  <2>2. x \in observed'
    BY <1>5
  <2>3. Bracketed(v, c)'
    BY <1>7, <2>1, <2>2 DEF Bracketed
  <2>4. Founded(v, c, <<s>>)'
    BY <1>7, <1>8, <2>3 DEF Founded
  <2>5. QED BY <1>5, <1>8, <2>1, <2>4 DEF TraitOk
<1>12. \A u, w \in traits' : u.id = w.id => u = w
  <2>1. \A u \in traits : u.id # ids + 1
    BY <1>6, <1>9
  <2>2. \A u, w \in traits : u.id = w.id => u = w
    BY <1>6 DEF TraitRowsInv
  <2>3. QED BY <1>5, <1>8, <2>1, <2>2
<1>13. \A y \in observed' : \E u \in traits' : u.value = y.value
  BY <1>5, <1>6, <1>7, <1>8 DEF TraitRowsInv
<1>14. ASSUME ~raced', NEW u \in traits' PROVE Settled(u)'
  <2>1. ~raced /\ Persona!FirstRow(v) = None
    BY <1>1, <1>2, <1>5, <1>14
  <2>2. \A w \in traits : w.value # v
    <3>1. Persona!RowsOf(v) = {}
      BY <1>6, <2>1, FirstRowIs, RowIsNoNull
    <3>2. QED BY <3>1 DEF Persona!RowsOf
  <2>3. \A z : ~Heard(v, z)
    BY <1>6, <2>2 DEF Heard, TraitRowsInv
  <2>4. CASE u = t
    <3>1. \A w \in traits' : w.value = v => w = t
      BY <1>5, <2>2
    <3>2. \A z \in Sessions : Heard(v, z)' => Within(<<s>>, z)
      BY <1>7, <1>8, <2>3
    <3>3. QED BY <1>8, <2>4, <3>1, <3>2 DEF Settled
  <2>5. CASE u # t
    <3>1. u \in traits /\ u.value # v /\ Settled(u)
      BY <1>5, <1>6, <2>1, <2>2, <2>5 DEF TraitRowsInv
    <3>2. \A w \in traits' : w.value = u.value => w = u
      BY <1>5, <1>8, <3>1 DEF Settled
    <3>3. \A z \in Sessions : Heard(u.value, z)' => Within(u.sessions, z)
      BY <1>7, <3>1 DEF Settled
    <3>4. QED BY <3>2, <3>3 DEF Settled
  <2>6. QED BY <2>4, <2>5
<1>15. raced' \in BOOLEAN /\ ids' \in Nat /\ ids <= ids' /\ clock' \in Nat
  <2>1. raced' \in BOOLEAN
    BY <1>1
  <2>2. ids' \in Nat /\ ids <= ids'
    BY <1>5, <1>6
  <2>3. clock' \in Nat
    BY <1>1, <1>6
  <2>4. QED BY <2>1, <2>2, <2>3
<1>16. \A u \in traits' : TraitOk(u)'
  BY <1>5, <1>10, <1>11
<1>17. TraitRowsInv'
  BY <1>7, <1>12, <1>13, <1>14, <1>15, <1>16 DEF TraitRowsInv
<1>18. \A u \in traits' : u.id <= ids => \E w \in traits : w.id = u.id /\ w.value = u.value
  <2>1. ~(ids + 1 <= ids)
    BY <1>6
  <2>2. QED BY <1>5, <1>8, <2>1
<1>19. \A y \in observed : (\E u \in traits' : u.value = y.value) => y \in observed'
  BY <1>5
<1>20. QED BY <1>1, <1>15, <1>17, <1>18, <1>19, RunsGoOn

LEMMA NotedIs ==
    ASSUME NEW q \in Seq(Sessions), NEW s \in Sessions, Persona!IsInjective(q)
    PROVE  /\ Persona!Noted(q, s) \in Seq(Sessions) /\ Persona!IsInjective(Persona!Noted(q, s))
           /\ \A z : Within(Persona!Noted(q, s), z) <=> Within(q, z) \/ z = s
<1>1. CASE Within(q, s)
  <2>1. Persona!Noted(q, s) = q
    BY <1>1 DEF Persona!Noted, Persona!ToSet, Within
  <2>2. QED BY <1>1, <2>1
<1>2. CASE ~Within(q, s)
  <2>1. PICK p : p = Append(q, s)
    OBVIOUS
  <2>2. Persona!Noted(q, s) = p
    BY <1>2, <2>1 DEF Persona!Noted, Persona!ToSet, Within
  <2>3. /\ p \in Seq(Sessions) /\ DOMAIN q = 1 .. Len(q) /\ DOMAIN p = 1 .. Len(q) + 1
        /\ Len(q) \in Nat /\ p[Len(q) + 1] = s
        /\ \A i \in DOMAIN q : i \in DOMAIN p /\ p[i] = q[i]
        /\ \A z : Within(p, z) <=> Within(q, z) \/ z = s
    BY <2>1, AppendedTo
  <2>4. \A i \in DOMAIN p : i \in DOMAIN q \/ i = Len(q) + 1
    BY <2>3
  <2>5. \A i \in DOMAIN q : q[i] # s
    BY <1>2 DEF Within
  <2>6. \A i, j \in DOMAIN p : p[i] = p[j] => i = j
    BY <2>3, <2>4, <2>5 DEF Persona!IsInjective
  <2>7. QED BY <2>2, <2>3, <2>6 DEF Persona!IsInjective
<1>3. QED BY <1>1, <1>2

\* The new confidence is between the old one and what was read, cut to ten.
LEMMA WeighedIs ==
    ASSUME NEW old \in TraitFloor .. 10, NEW new \in Int, new >= TraitFloor
    PROVE  LET c == Persona!_clamp_confidence(new) IN
           /\ Persona!Weighed(old, new) \in TraitFloor .. 10
           /\ old <= Persona!Weighed(old, new) \/ c <= Persona!Weighed(old, new)
           /\ Persona!Weighed(old, new) <= old \/ Persona!Weighed(old, new) <= c
<1>1. PICK w : w = (7 * old + 3 * new) \div 10
  OBVIOUS
<1>2. old \in Int /\ TraitFloor \in Int /\ 0 <= TraitFloor /\ TraitFloor <= old /\ old <= 10
  BY TraitsAssumption
<1>3. w \in Int /\ 10 * w <= 7 * old + 3 * new /\ 7 * old + 3 * new < 10 * w + 10
  BY <1>1, <1>2
<1>4. (old <= w \/ new <= w) /\ (w <= old \/ w <= new) /\ w >= TraitFloor
  BY <1>2, <1>3
<1>5. PICK c, k : c = Persona!_clamp_confidence(new) /\ k = Persona!Weighed(old, new)
  OBVIOUS
<1>6. /\ c = IF new > 10 THEN 10 ELSE IF new < 0 THEN 0 ELSE new
      /\ k = IF w > 10 THEN 10 ELSE IF w < 0 THEN 0 ELSE w
  BY <1>1, <1>5 DEF Persona!_clamp_confidence, Persona!Weighed
<1>7. k \in TraitFloor .. 10 /\ (old <= k \/ c <= k) /\ (k <= old \/ k <= c)
  BY <1>2, <1>3, <1>4, <1>6
<1>8. QED BY <1>5, <1>7

LEMMA UpdateHolds ==
    ASSUME TraitsInv, NEW r \in Distillations, Persona!UpdateRow(r)
    PROVE  TraitsInv'
<1>1. PICK b, d : /\ b = run[r] /\ b \in Distillation /\ DistillationOk(b)
                  /\ b.session \in Sessions /\ Head(b.todo) \in Clean
                  /\ d \in Distillation /\ DistillationOk(d)' /\ run' = [run EXCEPT ![r] = d]
                  /\ raced' = (raced \/ Persona!FirstRow(Head(b.todo).value) # b.found)
                  /\ clock' = clock
  BY WrittenIs DEF Persona!UpdateRow
<1>2. PICK e, s, v, f : e = Head(b.todo) /\ s = b.session /\ v = e.value /\ f = b.found
  OBVIOUS
<1>3. PICK c, k, q, hit : /\ c = Persona!_clamp_confidence(e.confidence)
                          /\ k = Persona!Weighed(f.confidence, e.confidence)
                          /\ q = Persona!Noted(f.sessions, s)
                          /\ hit = {t \in traits : t.id = f.id}
  OBVIOUS
<1>4. PICK x : x = [value |-> e.value, session |-> s, confidence |-> c]
  OBVIOUS
<1>5. /\ f # None /\ b.at = "writing" /\ ids' = ids
      /\ traits' = (traits \ hit) \cup
             {[t EXCEPT !.confidence = k, !.last = b.stamp, !.sessions = q] : t \in hit}
      /\ IF hit = {} THEN observed' = observed ELSE observed' = observed \cup {x}
  BY <1>1, <1>2, <1>3, <1>4 DEF Persona!UpdateRow, Persona!Observe
<1>6. /\ TraitRowsInv /\ ids \in Nat /\ raced \in BOOLEAN /\ e \in Clean /\ s \in Sessions
      /\ b.stamp \in Nat /\ clock \in Nat
  BY <1>1, <1>2 DEF TraitsInv, TraitRowsInv, Distillation
<1>7. /\ f \in Trait /\ f.id <= ids /\ f.value = v /\ Persona!IsInjective(f.sessions)
      /\ \A t \in traits : t.id = f.id => t.value = v /\ Founded(v, f.confidence, f.sessions)
  BY <1>1, <1>2, <1>5 DEF DistillationOk, FoundOk
<1>8. raced' \in BOOLEAN /\ (raced => raced') /\ ids' \in Nat /\ ids <= ids' /\ clock' \in Nat
  <2>1. raced' \in BOOLEAN /\ (raced => raced')
    BY <1>1
  <2>0. ids' = ids /\ ids \in Nat
    BY <1>5, <1>6
  <2>2. ids' \in Nat /\ ids <= ids'
    BY <2>0
  <2>3. clock' \in Nat
    BY <1>1, <1>6
  <2>4. QED BY <2>1, <2>2, <2>3
<1>9. CASE hit = {}
  <2>1. traits' = traits /\ observed' = observed
    BY <1>5, <1>9
  <2>2. TraitRowsInv'
    BY <1>5, <1>6, <1>8, <2>1, TraitRowsStay
  <2>3. /\ \A t \in traits' : t.id <= ids => \E u \in traits : u.id = t.id /\ u.value = t.value
        /\ \A y \in observed : (\E t \in traits' : t.value = y.value) => y \in observed'
    BY <2>1
  <2>4. QED BY <1>1, <1>8, <2>2, <2>3, RunsGoOn
<1>10. ASSUME NEW t \in hit PROVE TraitsInv'
  <2>1. /\ t \in traits /\ t.id = f.id /\ t.value = v /\ Founded(v, f.confidence, f.sessions)
        /\ TraitOk(t) /\ t \in Trait /\ hit = {t} /\ hit # {}
    <3>1. t \in traits /\ t.id = f.id
      BY <1>3, <1>10
    <3>2. \A u \in hit : u = t
      BY <1>3, <1>6, <3>1 DEF TraitRowsInv
    <3>3. QED BY <1>6, <1>7, <1>10, <3>1, <3>2 DEF TraitRowsInv, TraitOk
  <2>2. PICK t2 : t2 = [t EXCEPT !.confidence = k, !.last = b.stamp, !.sessions = q]
    OBVIOUS
  <2>3. traits' = (traits \ {t}) \cup {t2} /\ observed' = observed \cup {x}
    BY <1>5, <2>1, <2>2
  <2>4. /\ x \in Reading /\ c \in TraitFloor .. 10 /\ observed' \in SUBSET Reading
        /\ v \in TraitValues \ Personal
        /\ x.value = v /\ x.session = s /\ x.confidence = c
        /\ \A w, z : Heard(w, z)' <=> Heard(w, z) \/ (w = v /\ z = s)
        /\ \A w, n : Bracketed(w, n) => Bracketed(w, n)'
    BY <1>2, <1>3, <1>4, <1>6, <2>3, ObservedIs
  <2>5. PICK old, new : old = f.confidence /\ new = e.confidence
    OBVIOUS
  <2>6. /\ old \in TraitFloor .. 10 /\ new \in Int /\ new >= TraitFloor
        /\ k = Persona!Weighed(old, new) /\ c = Persona!_clamp_confidence(new)
    BY <1>3, <1>6, <1>7, <2>5, TraitsAssumption DEF Trait, Clean
  <2>7. /\ k \in TraitFloor .. 10 /\ (old <= k \/ c <= k) /\ (k <= old \/ k <= c)
    BY <2>6, WeighedIs
  <2>8. /\ q \in Seq(Sessions) /\ Persona!IsInjective(q)
        /\ \A z : Within(q, z) <=> Within(f.sessions, z) \/ z = s
    <3>1. f.sessions \in Seq(Sessions)
      BY <1>7 DEF Trait
    <3>2. QED BY <1>3, <1>6, <1>7, <3>1, NotedIs
  <2>9. /\ t2.id = t.id /\ t2.value = v /\ t2.confidence = k /\ t2.sessions = q /\ t2 \in Trait
    BY <1>6, <2>1, <2>2, <2>7, <2>8 DEF Trait
  <2>10. Bracketed(v, k)'
    <3>1. PICK lo \in observed : lo.value = v /\ lo.confidence <= old
      BY <2>1, <2>5 DEF Founded, Bracketed
    <3>2. PICK hi \in observed : hi.value = v /\ old <= hi.confidence
      BY <2>1, <2>5 DEF Founded, Bracketed
    <3>3. PICK l, h : l = lo.confidence /\ h = hi.confidence
      OBVIOUS
    <3>4. l \in Int /\ h \in Int /\ old \in Int /\ k \in Int /\ c \in Int
      BY <1>6, <2>4, <2>6, <2>7, <3>3, TraitsAssumption DEF TraitRowsInv, Reading
    <3>5. (l <= k \/ c <= k) /\ (k <= h \/ k <= c)
      BY <2>7, <3>1, <3>2, <3>3, <3>4
    <3>6. lo \in observed' /\ hi \in observed' /\ x \in observed'
      BY <2>3
    <3>7. \E y \in observed' : y.value = v /\ y.confidence <= k
      BY <2>4, <3>1, <3>3, <3>5, <3>6
    <3>8. \E y \in observed' : y.value = v /\ k <= y.confidence
      BY <2>4, <3>2, <3>3, <3>5, <3>6
    <3>9. QED BY <3>7, <3>8 DEF Bracketed
  <2>11. TraitOk(t2)'
    <3>1. \A z \in Sessions : Within(q, z) => Heard(v, z)'
      BY <2>1, <2>4, <2>8 DEF Founded
    <3>2. t2.id \in 1 .. ids'
      BY <1>5, <2>1, <2>9 DEF TraitOk
    <3>3. QED BY <2>8, <2>9, <2>10, <3>1, <3>2 DEF TraitOk, Founded
  <2>12. \A u \in traits : TraitOk(u)'
    <3> TAKE u \in traits
    <3>1. TraitOk(u)
      BY <1>6 DEF TraitRowsInv
    <3>2. Founded(u.value, u.confidence, u.sessions)'
      BY <2>4, <3>1 DEF TraitOk, Founded
    <3>3. QED BY <1>5, <3>1, <3>2 DEF TraitOk
  <2>13. \A u, w \in traits' : u.id = w.id => u = w
    <3>1. \A u, w \in traits : u.id = w.id => u = w
      BY <1>6 DEF TraitRowsInv
    <3>2. QED BY <2>1, <2>3, <2>9, <3>1
  <2>14. \A y \in observed' : \E u \in traits' : u.value = y.value
    <3>1. \A y \in observed : \E u \in traits : u.value = y.value
      BY <1>6 DEF TraitRowsInv
    <3>2. QED BY <2>1, <2>3, <2>4, <2>9, <3>1
  <2>15. ASSUME ~raced', NEW u \in traits' PROVE Settled(u)'
    <3>1. ~raced /\ Persona!FirstRow(v) = f
      BY <1>1, <1>2, <2>15
    <3>2. f \in traits
      BY <1>5, <1>6, <3>1, FirstRowIs
    <3>3. f = t /\ Settled(t)
      BY <1>6, <2>1, <3>1, <3>2 DEF TraitRowsInv
    <3>4. CASE u = t2
      <4>1. \A w \in traits' : w.value = v => w = t2
        BY <2>1, <2>3, <3>3 DEF Settled
      <4>2. \A z \in Sessions : Heard(v, z)' => Within(q, z)
        BY <2>1, <2>4, <2>8, <3>3 DEF Settled
      <4>3. QED BY <2>9, <3>4, <4>1, <4>2 DEF Settled
    <3>5. CASE u # t2
      <4>1. u \in traits /\ u # t /\ u.value # v /\ Settled(u)
        BY <1>6, <2>1, <2>3, <3>1, <3>3, <3>5 DEF TraitRowsInv, Settled
      <4>2. \A w \in traits' : w.value = u.value => w = u
        BY <2>3, <2>9, <4>1 DEF Settled
      <4>3. \A z \in Sessions : Heard(u.value, z)' => Within(u.sessions, z)
        BY <2>4, <4>1 DEF Settled
      <4>4. QED BY <4>2, <4>3 DEF Settled
    <3>6. QED BY <3>4, <3>5
  <2>16. \A u \in traits' : TraitOk(u)'
    BY <2>3, <2>11, <2>12
  <2>17. TraitRowsInv'
    BY <1>8, <2>4, <2>13, <2>14, <2>15, <2>16 DEF TraitRowsInv
  <2>18. \A u \in traits' : u.id <= ids => \E w \in traits : w.id = u.id /\ w.value = u.value
    BY <2>1, <2>3, <2>9
  <2>19. \A y \in observed : (\E u \in traits' : u.value = y.value) => y \in observed'
    BY <2>3
  <2>20. QED BY <1>1, <1>8, <2>17, <2>18, <2>19, RunsGoOn
<1>11. QED BY <1>9, <1>10

LEMMA PruneHolds ==
    ASSUME TraitsInv, Persona!prune_low_confidence
    PROVE  TraitsInv'
<1>1. /\ traits' = {t \in traits : t.confidence >= PruneFloor}
      /\ observed' = {x \in observed : \E t \in traits' : t.value = x.value}
      /\ UNCHANGED <<ids, run, clock, raced>>
  BY DEF Persona!prune_low_confidence
<1>2. TraitRowsInv /\ clock \in Nat
  BY DEF TraitsInv
<1>3. traits' \subseteq traits /\ observed' \subseteq observed
  BY <1>1
<1>4. ASSUME NEW v, \E t \in traits' : t.value = v
      PROVE  /\ \A z : Heard(v, z)' <=> Heard(v, z)
             /\ \A c : Bracketed(v, c) => Bracketed(v, c)'
  <2>1. \A x : x.value = v => (x \in observed' <=> x \in observed)
    BY <1>1, <1>4
  <2>2. QED BY <1>3, <2>1 DEF Heard, Bracketed
<1>5. \A t \in traits' : TraitOk(t)'
  <2> TAKE t \in traits'
  <2>1. TraitOk(t)
    BY <1>2, <1>3 DEF TraitRowsInv
  <2>2. Founded(t.value, t.confidence, t.sessions)'
    BY <1>4, <2>1 DEF TraitOk, Founded
  <2>3. QED BY <1>1, <2>1, <2>2 DEF TraitOk
<1>6. ~raced' => \A t \in traits' : Settled(t)'
  BY <1>1, <1>2, <1>3, <1>4 DEF TraitRowsInv, Settled
<1>7. TraitRowsInv'
  BY <1>1, <1>2, <1>3, <1>5, <1>6 DEF TraitRowsInv
<1>8. \A x \in observed : (\E t \in traits' : t.value = x.value) => x \in observed'
  BY <1>1
<1>9. \A t \in traits' : \E u \in traits : u.id = t.id /\ u.value = t.value
  BY <1>3
<1>10. ids' \in Nat /\ ids <= ids'
  BY <1>1, <1>2 DEF TraitRowsInv
<1>11. \A f, v : FoundOk(f, v) => FoundOk(f, v)'
  BY <1>2, <1>8, <1>9, <1>10, FoundStays
<1>12. \A d : DistillationOk(d) => DistillationOk(d)'
  BY <1>11 DEF DistillationOk
<1>13. QED BY <1>1, <1>7, <1>12 DEF TraitsInv

LEMMA TraitsSteps ==
    ASSUME TraitsInv, Persona!TraitsNext
    PROVE  TraitsInv'
<1>1. \A s \in Sessions : Persona!AddTurn(s) => TraitsInv'
  BY TraitsStay DEF Persona!AddTurn
<1>2. \A r \in Distillations, s \in Sessions : Persona!read_session_turns(r, s) => TraitsInv'
  BY ReadRowHolds
<1>3. \A r \in Distillations, a \in Persona!Answers : Persona!Answered(r, a) => TraitsInv'
  BY AnswerHolds
<1>4. \A r \in Distillations : /\ Persona!Fails(r) => TraitsInv'
                               /\ Persona!SelectRow(r) => TraitsInv'
                               /\ Persona!InsertRow(r) => TraitsInv'
                               /\ Persona!UpdateRow(r) => TraitsInv'
  BY FailHolds, SelectHolds, InsertTraitHolds, UpdateHolds
<1>5. QED BY <1>1, <1>2, <1>3, <1>4, PruneHolds DEF Persona!TraitsNext

\* The least and the greatest of some readings.
LEMMA Extremes ==
    ASSUME NEW S \in SUBSET (TraitFloor .. 10), S # {}
    PROVE  /\ Persona!Min(S) \in S /\ \A y \in S : Persona!Min(S) <= y
           /\ Persona!Max(S) \in S /\ \A y \in S : Persona!Max(S) >= y
<1>1. \A y \in S : y \in Nat /\ 10 - y \in Nat
  BY TraitsAssumption
<1>2. \E x \in S : \A y \in S : x <= y
  BY <1>1, LeastExists
<1>3. \E x \in S : \A y \in S : x >= y
  <2> DEFINE D == {10 - y : y \in S}
  <2>1. D \in SUBSET Nat /\ D # {}
    BY <1>1
  <2>2. PICK z \in D : \A w \in D : z <= w
    BY <2>1, LeastExists
  <2>3. PICK x \in S : z = 10 - x
    OBVIOUS
  <2>4. \A y \in S : 10 - x <= 10 - y
    BY <2>2, <2>3
  <2>5. \A y \in S : x >= y
    BY <1>1, <2>4
  <2>6. QED BY <2>5
<1>4. QED BY <1>2, <1>3 DEF Persona!Min, Persona!Max

LEMMA TraitsAreSafe ==
    ASSUME TraitsInv
    PROVE  Persona!TraitsTypeOK /\ Persona!WeighedReadings /\ Persona!SessionsAreKept
<1>1. TraitRowsInv
  BY DEF TraitsInv
<1>2. Persona!TraitsTypeOK
  <2>1. \A t \in traits : t.id \in 1 .. ids /\ t.value \in TraitValues /\ Persona!IsInjective(t.sessions)
    BY <1>1 DEF TraitRowsInv, TraitOk, Trait
  <2>2. \A r \in Distillations : run[r].at \in {"idle", "asking", "reading", "writing", "done"}
    BY DEF TraitsInv, Distillation
  <2>3. QED BY <2>1, <2>2 DEF Persona!TraitsTypeOK
<1>3. ASSUME NEW t \in traits
      PROVE  /\ t.value \notin Personal
             /\ Persona!ReadingsOf(t.value) # {}
             /\ t.confidence \in TraitFloor .. 10
             /\ t.confidence \in Persona!Min(Persona!ReadingsOf(t.value)) ..
                                 Persona!Max(Persona!ReadingsOf(t.value))
  <2>1. PICK S : S = Persona!ReadingsOf(t.value)
    OBVIOUS
  <2>2. S = {x.confidence : x \in {y \in observed : y.value = t.value}}
    BY <2>1 DEF Persona!ReadingsOf
  <2>3. TraitOk(t) /\ t \in Trait
    BY <1>1 DEF TraitRowsInv, TraitOk
  <2>4. PICK c : c = t.confidence
    OBVIOUS
  <2>5. c \in TraitFloor .. 10 /\ t.value \notin Personal
    BY <2>3, <2>4 DEF Trait
  <2>6. S \in SUBSET (TraitFloor .. 10)
    BY <1>1, <2>2 DEF TraitRowsInv, Reading
  <2>7. (\E lo \in S : lo <= c) /\ (\E hi \in S : c <= hi)
    BY <2>2, <2>3, <2>4 DEF TraitOk, Founded, Bracketed
  <2>8. PICK l, h : l = Persona!Min(S) /\ h = Persona!Max(S)
    OBVIOUS
  <2>9. l \in S /\ h \in S /\ \A y \in S : l <= y /\ h >= y
    BY <2>6, <2>7, <2>8, Extremes
  <2>10. \A y \in S : y \in Int
    BY <2>6, TraitsAssumption
  <2>11. c \in Int /\ l \in Int /\ h \in Int /\ l <= c /\ c <= h
    BY <2>5, <2>7, <2>9, <2>10, TraitsAssumption
  <2>12. QED BY <2>1, <2>4, <2>5, <2>7, <2>8, <2>11
<1>4. Persona!WeighedReadings
  BY <1>3 DEF Persona!WeighedReadings
<1>5. ASSUME NEW t \in traits
      PROVE  LET seenIn == {x.session : x \in {p \in observed : p.value = t.value}} IN
             /\ Persona!ToSet(t.sessions) \subseteq seenIn
             /\ ~raced => Persona!RowsOf(t.value) = {t} /\ Persona!ToSet(t.sessions) = seenIn
  <2> DEFINE seenIn == {x.session : x \in {p \in observed : p.value = t.value}}
  <2>1. TraitOk(t) /\ t.sessions \in Seq(Sessions)
    BY <1>1 DEF TraitRowsInv, TraitOk, Trait
  <2>2. \A z : z \in seenIn <=> Heard(t.value, z)
    BY DEF Heard
  <2>3. \A z : z \in Persona!ToSet(t.sessions) <=> Within(t.sessions, z)
    BY DEF Persona!ToSet, Within
  <2>4. \A z : Heard(t.value, z) => z \in Sessions
    BY <1>1 DEF Heard, TraitRowsInv, Reading
  <2>5. \A z : Within(t.sessions, z) => z \in Sessions
    BY <2>1 DEF Within
  <2> HIDE DEF seenIn
  <2>6. Persona!ToSet(t.sessions) \subseteq seenIn
    BY <2>1, <2>2, <2>3, <2>5 DEF TraitOk, Founded
  <2>7. ASSUME ~raced
        PROVE  Persona!RowsOf(t.value) = {t} /\ Persona!ToSet(t.sessions) = seenIn
    <3>1. Settled(t)
      BY <1>1, <2>7 DEF TraitRowsInv
    <3>2. Persona!RowsOf(t.value) = {t}
      BY <3>1 DEF Settled, Persona!RowsOf
    <3>3. seenIn \subseteq Persona!ToSet(t.sessions)
      BY <2>2, <2>3, <2>4, <3>1 DEF Settled
    <3>4. QED BY <2>6, <3>2, <3>3
  <2>8. QED BY <2>6, <2>7 DEF seenIn
<1>6. Persona!SessionsAreKept
  BY <1>5 DEF Persona!SessionsAreKept
<1>7. QED BY <1>2, <1>4, <1>6

-----------------------------------------------------------------------------
(* The knowledge base.  A key that anything was derived under belongs to   *)
(* the chunk it was derived from or to none: ids only grow.                *)

Vectors == [key : Nat, of : Kb!AllTexts]
EpaRows == [id : Nat, of : Kb!AllTexts]
RebuildRun ==
    [at : {"idle", "rows", "rename", "done", "failed"}, file : 0 .. Len(KbFiles), piece : Nat,
     id : Nat, index : SUBSET Vectors]

\* No chunk has this key and another text.
Own(k, text) == k \in Nat /\ k <= lastId.chunks /\ \A c \in chunks : c.id = k => c.text = text

\* The texts of the files before the nth and the first p of that.
Read(n, p, text) ==
    \E i \in DOMAIN KbFiles : \E j \in DOMAIN KbFiles[i].pieces :
        KbFiles[i].pieces[j] = text /\ (i < n \/ (i = n /\ j <= p))

Mirrors(S) == S = {[key |-> c.id, of |-> c.text] : c \in chunks}

RebuildOk(b, solo) ==
    /\ b.at = "idle" => b = Kb!Waiting
    /\ \A v \in b.index : Own(v.key, v.of)
    /\ b.at = "rows" /\ b.file > 0 => b.piece <= Len(KbFiles[b.file].pieces)
    /\ solo /\ b.at = "rows" =>
           Mirrors(b.index) /\ \A text : (\E c \in chunks : c.text = text) <=> Read(b.file, b.piece, text)
    /\ solo /\ b.at = "rename" =>
           Mirrors(saved) /\ \A text : (\E c \in chunks : c.text = text) <=> Read(Len(KbFiles) + 1, 0, text)

ChunksInv ==
    /\ lastId \in [files : Nat, chunks : Nat]
    /\ \A c \in chunks : /\ c.id \in 1 .. lastId.chunks /\ Kb!FileThere(c.file)
                         /\ c.text \in Kb!AllTexts
    /\ \A c, d \in chunks : c.id = d.id => c = d

DerivedInv ==
    /\ \A e \in epa : (\E c \in chunks : c.id = e.id) /\ Own(e.id, e.of)
    /\ index # None => \A v \in index : Own(v.key, v.of)
    /\ saved # None => \A v \in saved : Own(v.key, v.of)
    /\ backfill \in [at : {"idle", "writing"}, rows : SUBSET EpaRows]
    /\ \A e \in backfill.rows : Own(e.id, e.of)

StoreInv ==
    /\ ChunksInv /\ DerivedInv
    /\ rebuild \in [Rebuilds -> RebuildRun] /\ alone \in [Rebuilds -> BOOLEAN]
    /\ \A r \in Rebuilds : RebuildOk(rebuild[r], alone[r])

\* Chunks go, and come under ids that were not given before.
OnlyNew ==
    /\ lastId' \in [files : Nat, chunks : Nat] /\ lastId.chunks <= lastId'.chunks
    /\ \A c \in chunks' : c \in chunks \/ c.id > lastId.chunks

LEMMA SourceIs ==
    /\ Len(KbFiles) \in Nat /\ DOMAIN KbFiles = 1 .. Len(KbFiles)
    /\ \A i \in DOMAIN KbFiles :
          /\ Len(KbFiles[i].pieces) \in Nat
          /\ DOMAIN KbFiles[i].pieces = 1 .. Len(KbFiles[i].pieces)
          /\ \A j \in DOMAIN KbFiles[i].pieces : KbFiles[i].pieces[j] \in Kb!AllTexts
<1>1. Len(KbFiles) \in Nat /\ DOMAIN KbFiles = 1 .. Len(KbFiles)
  <2>1. PICK S : S = {KbFiles[i] : i \in DOMAIN KbFiles}
    OBVIOUS
  <2>2. KbFiles \in Seq(S)
    BY <2>1, StoreAssumption
  <2>3. QED BY <2>2
<1>2. ASSUME NEW i \in DOMAIN KbFiles
      PROVE  /\ Len(KbFiles[i].pieces) \in Nat
             /\ DOMAIN KbFiles[i].pieces = 1 .. Len(KbFiles[i].pieces)
             /\ \A j \in DOMAIN KbFiles[i].pieces : KbFiles[i].pieces[j] \in Kb!AllTexts
  <2>1. PICK p, S : p = KbFiles[i].pieces /\ S = {KbFiles[i].pieces[j] : j \in DOMAIN KbFiles[i].pieces}
    OBVIOUS
  <2>2. p \in Seq(S)
    BY <2>1, StoreAssumption
  <2>3. Len(p) \in Nat /\ DOMAIN p = 1 .. Len(p)
    BY <2>2
  <2>4. ASSUME NEW j \in DOMAIN p PROVE p[j] \in Kb!AllTexts
    <3>1. p[j] \in Kb!ToSet(p)
      BY DEF Kb!ToSet
    <3>2. Kb!ToSet(p) \in {Kb!ToSet(KbFiles[n].pieces) : n \in DOMAIN KbFiles}
      BY <2>1
    <3>3. QED BY <3>1, <3>2 DEF Kb!AllTexts
  <2>5. QED BY <2>1, <2>3, <2>4
<1>3. QED BY <1>1, <1>2

LEMMA OwnStays ==
    ASSUME ChunksInv, OnlyNew
    PROVE  \A k, text : Own(k, text) => Own(k, text)'
<1> TAKE k, text
<1> HAVE Own(k, text)
<1>1. lastId.chunks \in Nat /\ lastId'.chunks \in Nat /\ lastId.chunks <= lastId'.chunks
      /\ k \in Nat /\ k <= lastId.chunks
  BY DEF ChunksInv, OnlyNew, Own
<1>2. k <= lastId'.chunks
  BY <1>1
<1>3. ASSUME NEW c \in chunks', c.id = k PROVE c.text = text
  <2>1. ~(c.id > lastId.chunks)
    BY <1>1, <1>3
  <2>2. c \in chunks
    BY <2>1 DEF OnlyNew
  <2>3. QED BY <1>3, <2>2 DEF Own
<1>4. QED BY <1>1, <1>2, <1>3 DEF Own

\* An index on disk is the old one, the one that was saved, or made of what is its own.
LEMMA DerivedStays ==
    ASSUME ChunksInv, DerivedInv, OnlyNew,
           \A e \in epa' : e \in epa /\ \E c \in chunks' : c.id = e.id,
           index' = index \/ (index' = saved /\ saved # None),
           saved' = saved \/ saved' = None \/ \A v \in saved' : Own(v.key, v.of)',
           backfill' = backfill
    PROVE  DerivedInv'
<1>1. \A k, text : Own(k, text) => Own(k, text)'
  BY OwnStays
<1>2. \A e \in epa' : (\E c \in chunks' : c.id = e.id) /\ Own(e.id, e.of)'
  BY <1>1 DEF DerivedInv
<1>3. index' # None => \A v \in index' : Own(v.key, v.of)'
  BY <1>1 DEF DerivedInv
<1>4. saved' # None => \A v \in saved' : Own(v.key, v.of)'
  BY <1>1 DEF DerivedInv
<1>5. /\ backfill' \in [at : {"idle", "writing"}, rows : SUBSET EpaRows]
      /\ \A e \in backfill'.rows : Own(e.id, e.of)'
  BY <1>1 DEF DerivedInv
<1>6. QED BY <1>2, <1>3, <1>4, <1>5 DEF DerivedInv

\* A rebuild that does nothing meanwhile, and is no longer alone if what it made changed.
LEMMA OthersStay ==
    ASSUME StoreInv, OnlyNew, NEW o \in Rebuilds, rebuild'[o] = rebuild[o], alone'[o] \in BOOLEAN,
           alone'[o] => alone[o] /\ (~Kb!Underway(o) \/ UNCHANGED <<chunks, saved>>)
    PROVE  RebuildOk(rebuild[o], alone[o])'
<1>1. PICK b, solo, later : b = rebuild[o] /\ solo = alone[o] /\ later = alone'[o]
  OBVIOUS
<1>2. ChunksInv /\ RebuildOk(b, solo)
  BY <1>1 DEF StoreInv
<1>3. \A v \in b.index : Own(v.key, v.of)'
  BY <1>2, OwnStays DEF RebuildOk
<1>4. later /\ b.at \in {"rows", "rename"} => solo /\ UNCHANGED <<chunks, saved>>
  BY <1>1 DEF Kb!Underway, Kb!At
<1>5. RebuildOk(b, later)'
  BY <1>2, <1>3, <1>4 DEF RebuildOk, Mirrors
<1>6. QED BY <1>1, <1>5 DEF RebuildOk

LEMMA RebuildGoes ==
    ASSUME StoreInv, OnlyNew, ChunksInv', DerivedInv', NEW r \in Rebuilds, NEW b \in RebuildRun,
           rebuild' = [rebuild EXCEPT ![r] = b], alone' \in [Rebuilds -> BOOLEAN],
           \A o \in Rebuilds : o # r /\ alone'[o] =>
               alone[o] /\ (~Kb!Underway(o) \/ UNCHANGED <<chunks, saved>>),
           \A solo : solo = alone'[r] => RebuildOk(b, solo)'
    PROVE  StoreInv'
<1>1. /\ rebuild' \in [Rebuilds -> RebuildRun] /\ rebuild'[r] = b
      /\ \A o \in Rebuilds : o # r => rebuild'[o] = rebuild[o]
  BY DEF StoreInv
<1>2. ASSUME NEW o \in Rebuilds PROVE RebuildOk(rebuild[o], alone[o])'
  <2>1. CASE o = r
    BY <1>1, <2>1 DEF RebuildOk
  <2>2. CASE o # r
    BY <1>1, <2>2, OthersStay
  <2>3. QED BY <2>1, <2>2
<1>3. QED BY <1>1, <1>2 DEF StoreInv

LEMMA RebuildsStay ==
    ASSUME StoreInv, OnlyNew, ChunksInv', DerivedInv', rebuild' = rebuild,
           alone' \in [Rebuilds -> BOOLEAN],
           \A o \in Rebuilds : alone'[o] =>
               alone[o] /\ (~Kb!Underway(o) \/ UNCHANGED <<chunks, saved>>)
    PROVE  StoreInv'
<1>1. \A o \in Rebuilds : RebuildOk(rebuild[o], alone[o])'
  BY OthersStay
<1>2. QED BY <1>1 DEF StoreInv

LEMMA Disturbed ==
    ASSUME StoreInv, NEW r \in Rebuilds, Kb!Disturbs(r)
    PROVE  /\ alone' \in [Rebuilds -> BOOLEAN] /\ alone'[r] = alone[r]
           /\ \A o \in Rebuilds : o # r /\ alone'[o] => alone[o] /\ ~Kb!Underway(o)
<1>1. alone \in [Rebuilds -> BOOLEAN] /\ alone' = [o \in Rebuilds |-> alone[o] /\ (o = r \/ ~Kb!Underway(o))]
  BY DEF StoreInv, Kb!Disturbs
<1>2. QED BY <1>1

LEMMA Beside ==
    ASSUME StoreInv, Kb!ByAnother
    PROVE  /\ alone' \in [Rebuilds -> BOOLEAN]
           /\ \A o \in Rebuilds : alone'[o] => alone[o] /\ ~Kb!Underway(o)
<1>1. alone' = [o \in Rebuilds |-> alone[o] /\ ~Kb!Underway(o)]
  BY DEF Kb!ByAnother
<1>2. QED BY <1>1

-----------------------------------------------------------------------------
(* The statements.                                                         *)

LEMMA Same ==
    ASSUME ChunksInv, UNCHANGED <<kb_files, chunks, lastId>>
    PROVE  ChunksInv' /\ OnlyNew
<1>1. lastId.chunks \in Nat
  BY DEF ChunksInv
<1>2. QED BY <1>1 DEF ChunksInv, OnlyNew, Kb!FileThere

LEMMA FileIsInserted ==
    ASSUME ChunksInv, NEW path, Kb!insert_file(path), UNCHANGED chunks
    PROVE  ChunksInv' /\ OnlyNew
<1>1. /\ lastId \in [files : Nat, chunks : Nat] /\ lastId' = [lastId EXCEPT !.files = lastId.files + 1]
      /\ kb_files \subseteq kb_files'
  BY DEF ChunksInv, Kb!insert_file
<1>2. lastId' \in [files : Nat, chunks : Nat] /\ lastId'.chunks = lastId.chunks /\ lastId.chunks \in Nat
  BY <1>1
<1>3. \A f : Kb!FileThere(f) => Kb!FileThere(f)'
  BY <1>1 DEF Kb!FileThere
<1>4. QED BY <1>2, <1>3 DEF ChunksInv, OnlyNew

LEMMA ChunkIsInserted ==
    ASSUME ChunksInv, NEW home, NEW text \in Kb!AllTexts, Kb!FileThere(home),
           Kb!insert_chunk(home, text), UNCHANGED kb_files
    PROVE  /\ ChunksInv' /\ OnlyNew
           /\ \E n, c : /\ n = Kb!NextChunk /\ n \in Nat /\ Own(n, text)'
                        /\ c.id = n /\ c.text = text /\ chunks' = chunks \cup {c}
<1>1. PICK n, c : n = lastId.chunks /\ c = [id |-> n + 1, file |-> home, text |-> text]
  OBVIOUS
<1>2. /\ n \in Nat /\ lastId \in [files : Nat, chunks : Nat]
      /\ chunks' = chunks \cup {c} /\ lastId' = [lastId EXCEPT !.chunks = n + 1]
      /\ Kb!NextChunk = n + 1
  BY <1>1 DEF ChunksInv, Kb!insert_chunk, Kb!NextChunk
<1>3. lastId' \in [files : Nat, chunks : Nat] /\ lastId'.chunks = n + 1 /\ n + 1 \in Nat /\ n <= n + 1 /\ n + 1 > n
  BY <1>2
<1>4. c.id = n + 1 /\ c.file = home /\ c.text = text
  BY <1>1
<1>5. \A d \in chunks : d.id \in 1 .. n + 1 /\ d.id # n + 1
  BY <1>1, <1>2 DEF ChunksInv
<1>6. \A f : Kb!FileThere(f) => Kb!FileThere(f)'
  BY DEF Kb!FileThere
<1>7. ChunksInv'
  <2>1. \A d \in chunks' : /\ d.id \in 1 .. lastId'.chunks /\ Kb!FileThere(d.file)'
                           /\ d.text \in Kb!AllTexts
    <3>1. n + 1 \in 1 .. n + 1
      BY <1>2
    <3>2. QED BY <1>2, <1>3, <1>4, <1>5, <1>6, <3>1 DEF ChunksInv
  <2>2. \A d, e \in chunks' : d.id = e.id => d = e
    BY <1>2, <1>4, <1>5 DEF ChunksInv
  <2>3. QED BY <1>3, <2>1, <2>2 DEF ChunksInv
<1>8. OnlyNew
  BY <1>1, <1>2, <1>3, <1>4 DEF OnlyNew
<1>9. Own(n + 1, text)'
  <2>1. n + 1 <= lastId'.chunks
    BY <1>2, <1>3
  <2>2. \A d \in chunks' : d.id = n + 1 => d.text = text
    BY <1>2, <1>4, <1>5
  <2>3. QED BY <1>3, <2>1, <2>2 DEF Own
<1>10. PICK k : k = n + 1
  OBVIOUS
<1>11. k = Kb!NextChunk /\ k \in Nat /\ Own(k, text)' /\ c.id = k /\ c.text = text /\ chunks' = chunks \cup {c}
  BY <1>2, <1>3, <1>4, <1>9, <1>10
<1>12. QED BY <1>7, <1>8, <1>11

LEMMA Cascaded ==
    ASSUME ChunksInv, NEW left, Kb!Cascade(left), UNCHANGED lastId
    PROVE  /\ ChunksInv' /\ OnlyNew /\ chunks' \subseteq chunks
           /\ \A e \in epa' : e \in epa /\ \E c \in chunks' : c.id = e.id
<1>1. /\ \A c \in chunks' : c \in chunks /\ \E f \in kb_files' : f.id = c.file
      /\ \A e \in epa' : e \in epa /\ \E c \in chunks' : c.id = e.id
  BY DEF Kb!Cascade
<1>2. lastId.chunks \in Nat /\ lastId.chunks <= lastId'.chunks
  BY DEF ChunksInv
<1>3. \A c \in chunks' : Kb!FileThere(c.file)'
  BY <1>1 DEF Kb!FileThere
<1>4. QED BY <1>1, <1>2, <1>3 DEF ChunksInv, OnlyNew

\* What is left of a rebuild that is over.
LEMMA OverIsOk ==
    ASSUME NEW place \in {"done", "failed"}
    PROVE  /\ [Kb!Waiting EXCEPT !.at = place] \in RebuildRun
           /\ \A solo : RebuildOk([Kb!Waiting EXCEPT !.at = place], solo)'
<1>1. 0 \in 0 .. Len(KbFiles)
  BY SourceIs
<1>2. PICK b : b = [Kb!Waiting EXCEPT !.at = place]
  OBVIOUS
<1>3. b = [at |-> place, file |-> 0, piece |-> 0, id |-> 0, index |-> {}]
  BY <1>2 DEF Kb!Waiting
<1>4. b \in RebuildRun /\ b.at = place /\ b.index = {}
  BY <1>1, <1>3 DEF RebuildRun
<1>5. QED BY <1>2, <1>4 DEF RebuildOk

-----------------------------------------------------------------------------
(* The rebuild.                                                            *)

LEMMA StoreStarts ==
    ASSUME Kb!StoreInit
    PROVE  StoreInv
<1>1. Kb!Waiting \in RebuildRun
  <2>1. 0 \in 0 .. Len(KbFiles)
    BY SourceIs
  <2>2. QED BY <2>1 DEF Kb!Waiting, RebuildRun
<1>2. ChunksInv /\ DerivedInv
  BY DEF Kb!StoreInit, Kb!Loaded, ChunksInv, DerivedInv
<1>3. rebuild = [r \in Rebuilds |-> Kb!Waiting] /\ alone = [r \in Rebuilds |-> TRUE]
  BY DEF Kb!StoreInit
<1>4. \A solo : RebuildOk(Kb!Waiting, solo)
  BY DEF RebuildOk, Kb!Waiting
<1>5. QED BY <1>1, <1>2, <1>3, <1>4 DEF StoreInv

LEMMA StoreStay ==
    ASSUME StoreInv,
           UNCHANGED <<kb_files, chunks, lastId, epa, index, saved, rebuild, backfill, alone>>
    PROVE  StoreInv'
<1>1. ChunksInv' /\ OnlyNew
  BY Same DEF StoreInv
<1>2. DerivedInv'
  BY <1>1, DerivedStays DEF StoreInv, DerivedInv
<1>3. alone' \in [Rebuilds -> BOOLEAN]
  BY DEF StoreInv
<1>4. QED BY <1>1, <1>2, <1>3, RebuildsStay

LEMMA TruncateHolds ==
    ASSUME StoreInv, NEW r \in Rebuilds, Kb!TruncateFiles(r)
    PROVE  StoreInv'
<1>1. PICK left : left = [files |-> {}, without |-> {}]
  OBVIOUS
<1>2. PICK b : b = [Kb!Waiting EXCEPT !.at = "rows"]
  OBVIOUS
<1>3. /\ Kb!At(r, "idle") /\ Kb!Cascade(left) /\ Kb!Goes(r, "rows") /\ Kb!Disturbs(r)
      /\ UNCHANGED <<lastId, index, saved, backfill>>
  BY <1>1 DEF Kb!TruncateFiles, Kb!OthersKeep
<1>4. ChunksInv /\ DerivedInv /\ rebuild[r] = Kb!Waiting
  BY <1>3 DEF StoreInv, RebuildOk, Kb!At
<1>5. rebuild' = [rebuild EXCEPT ![r] = b]
  BY <1>2, <1>3, <1>4 DEF Kb!Goes, StoreInv
<1>6. ChunksInv' /\ OnlyNew /\ \A e \in epa' : e \in epa /\ \E c \in chunks' : c.id = e.id
  BY <1>3, <1>4, Cascaded
<1>7. chunks' = {}
  BY <1>1, <1>3 DEF Kb!Cascade
<1>8. DerivedInv'
  BY <1>3, <1>4, <1>6, DerivedStays
<1>9. b = [at |-> "rows", file |-> 0, piece |-> 0, id |-> 0, index |-> {}]
  BY <1>2 DEF Kb!Waiting
<1>10. 0 \in 0 .. Len(KbFiles) /\ \A i \in DOMAIN KbFiles : i \in Nat /\ i > 0
  BY SourceIs
<1>11. b \in RebuildRun /\ b.at = "rows" /\ b.file = 0 /\ b.piece = 0 /\ b.index = {}
  BY <1>9, <1>10 DEF RebuildRun
<1>12. \A text : ~Read(0, 0, text)
  BY <1>10 DEF Read
<1>13. Mirrors(b.index)'
  BY <1>7, <1>11 DEF Mirrors
<1>14. \A solo : RebuildOk(b, solo)'
  BY <1>7, <1>11, <1>12, <1>13 DEF RebuildOk, Read
<1>15. QED BY <1>3, <1>5, <1>6, <1>8, <1>11, <1>14, Disturbed, RebuildGoes

\* A rebuild that is over changes no row.
LEMMA FailHoldsHere ==
    ASSUME StoreInv, NEW r \in Rebuilds, NEW place \in {"done", "failed"}, Kb!Over(r, place),
           UNCHANGED <<kb_files, chunks, lastId, epa, backfill>>,
           UNCHANGED <<index, saved>> \/ (index' = saved /\ saved # None /\ saved' = None),
           Kb!Disturbs(r) \/ UNCHANGED <<alone, saved>>
    PROVE  StoreInv'
<1>1. PICK b : b = [Kb!Waiting EXCEPT !.at = place]
  OBVIOUS
<1>2. rebuild' = [rebuild EXCEPT ![r] = b]
  BY <1>1 DEF Kb!Over
<1>3. ChunksInv /\ DerivedInv /\ ChunksInv' /\ OnlyNew
  BY Same DEF StoreInv
<1>4. \A e \in epa' : e \in epa /\ \E c \in chunks' : c.id = e.id
  BY <1>3 DEF DerivedInv
<1>5. DerivedInv'
  BY <1>3, <1>4, DerivedStays
<1>6. b \in RebuildRun /\ \A solo : RebuildOk(b, solo)'
  BY <1>1, OverIsOk
<1>7. /\ alone' \in [Rebuilds -> BOOLEAN]
      /\ \A o \in Rebuilds : o # r /\ alone'[o] =>
             alone[o] /\ (~Kb!Underway(o) \/ UNCHANGED <<chunks, saved>>)
  <2>1. CASE Kb!Disturbs(r)
    BY <2>1, Disturbed
  <2>2. CASE UNCHANGED <<alone, saved>>
    BY <2>2 DEF StoreInv
  <2>3. QED BY <2>1, <2>2
<1>8. QED BY <1>2, <1>3, <1>5, <1>6, <1>7, RebuildGoes

LEMMA FileHolds ==
    ASSUME StoreInv, NEW r \in Rebuilds, Kb!FileInserted(r)
    PROVE  StoreInv'
<1>1. PICK b, path, id : /\ b = rebuild[r] /\ path = KbFiles[rebuild[r].file + 1].path
                         /\ id = lastId.files + 1
  OBVIOUS
<1>2. PICK d : d = [b EXCEPT !.file = b.file + 1, !.piece = 0, !.id = id]
  OBVIOUS
<1>3. rebuild \in [Rebuilds -> RebuildRun] /\ b \in RebuildRun
  BY <1>1 DEF StoreInv
<1>4. /\ b.at = "rows" /\ ~Kb!HasPiece(r) /\ b.file < Len(KbFiles)
      /\ Kb!Disturbs(r) /\ UNCHANGED <<chunks, epa, index, saved, backfill>>
  BY <1>1 DEF Kb!FileInserted, Kb!At, Kb!OthersKeep
<1>5. CASE ~Kb!PathFree(path)
  <2>1. Kb!Over(r, "failed") /\ UNCHANGED <<kb_files, lastId>>
    BY <1>1, <1>5 DEF Kb!FileInserted, Kb!Fails
  <2>2. QED BY <1>4, <2>1, FailHoldsHere
<1>6. CASE Kb!PathFree(path)
  <2>1. Kb!insert_file(path) /\ rebuild' = [rebuild EXCEPT ![r] = d]
    BY <1>1, <1>2, <1>3, <1>6 DEF Kb!FileInserted
  <2>2. ChunksInv /\ DerivedInv /\ ChunksInv' /\ OnlyNew /\ lastId \in [files : Nat, chunks : Nat]
    BY <1>4, <2>1, FileIsInserted DEF StoreInv, ChunksInv
  <2>3. \A e \in epa' : e \in epa /\ \E c \in chunks' : c.id = e.id
    BY <1>4, <2>2 DEF DerivedInv
  <2>4. DerivedInv'
    BY <1>4, <2>2, <2>3, DerivedStays
  <2>5. PICK n, p, len : n = b.file /\ p = b.piece /\ len = Len(KbFiles)
    OBVIOUS
  <2>6. n \in 0 .. len /\ p \in Nat /\ len \in Nat /\ n < len /\ id \in Nat
    BY <1>1, <1>3, <1>4, <2>2, <2>5, SourceIs DEF RebuildRun
  <2>7. d \in RebuildRun /\ d.at = "rows" /\ d.file = n + 1 /\ d.piece = 0 /\ d.index = b.index
    <3>1. n + 1 \in 0 .. len /\ 0 \in Nat
      BY <2>6
    <3>2. QED BY <1>2, <1>3, <1>4, <2>5, <2>6, <3>1 DEF RebuildRun
  <2>8. \A solo : solo = alone[r] => RebuildOk(b, solo)
    BY <1>1 DEF StoreInv
  <2>9. n > 0 => ~(p < Len(KbFiles[n].pieces)) /\ p <= Len(KbFiles[n].pieces) /\ n \in DOMAIN KbFiles
    <3>1. n > 0 => n \in DOMAIN KbFiles
      BY <2>5, <2>6, SourceIs
    <3>2. n > 0 => ~(p < Len(KbFiles[n].pieces))
      BY <1>1, <1>4, <2>5 DEF Kb!HasPiece
    <3>3. n > 0 => p <= Len(KbFiles[n].pieces)
      BY <1>4, <2>5, <2>8 DEF RebuildOk
    <3>4. QED BY <3>1, <3>2, <3>3
  <2>10. \A text : Read(n + 1, 0, text) <=> Read(n, p, text)
    <3>1. ASSUME NEW i \in DOMAIN KbFiles, NEW j \in DOMAIN KbFiles[i].pieces
          PROVE  (i < n + 1 \/ (i = n + 1 /\ j <= 0)) <=> (i < n \/ (i = n /\ j <= p))
      <4>1. i \in Nat /\ i > 0 /\ j \in Nat /\ j > 0 /\ j <= Len(KbFiles[i].pieces)
            /\ Len(KbFiles[i].pieces) \in Nat
        BY SourceIs
      <4>2. i = n => j <= p
        BY <2>6, <2>9, <4>1
      <4>3. QED BY <2>6, <4>1, <4>2
    <3>2. QED BY <3>1 DEF Read
  <2>11. \A solo : solo = alone[r] => RebuildOk(d, solo)'
    <3> TAKE solo
    <3> HAVE solo = alone[r]
    <3>1. \A v \in d.index : Own(v.key, v.of)'
      BY <2>2, <2>7, <2>8, OwnStays DEF RebuildOk
    <3>2. d.piece <= Len(KbFiles[d.file].pieces)
      <4>1. n + 1 \in DOMAIN KbFiles
        BY <2>5, <2>6, SourceIs
      <4>2. Len(KbFiles[n + 1].pieces) \in Nat
        BY <4>1, SourceIs
      <4>3. QED BY <2>7, <4>2
    <3>3. solo => /\ Mirrors(d.index)'
                  /\ \A text : (\E c \in chunks' : c.text = text) <=> Read(d.file, d.piece, text)
      <4>1. solo => Mirrors(b.index) /\ \A text : (\E c \in chunks : c.text = text) <=> Read(n, p, text)
        BY <1>4, <2>5, <2>8 DEF RebuildOk
      <4>2. QED BY <1>4, <2>7, <2>10, <4>1 DEF Mirrors
    <3>4. QED BY <2>7, <3>1, <3>2, <3>3 DEF RebuildOk, Read
  <2>12. QED BY <1>4, <2>1, <2>2, <2>4, <2>7, <2>11, Disturbed, RebuildGoes
<1>7. QED BY <1>5, <1>6

LEMMA PieceHolds ==
    ASSUME StoreInv, NEW r \in Rebuilds, Kb!PieceInserted(r)
    PROVE  StoreInv'
<1>1. PICK b, text : /\ b = rebuild[r]
                     /\ text = KbFiles[rebuild[r].file].pieces[rebuild[r].piece + 1]
  OBVIOUS
<1>2. rebuild \in [Rebuilds -> RebuildRun] /\ b \in RebuildRun
  BY <1>1 DEF StoreInv
<1>3. /\ b.at = "rows" /\ b.file > 0 /\ b.piece < Len(KbFiles[b.file].pieces)
      /\ Kb!Disturbs(r) /\ UNCHANGED <<kb_files, epa, index, saved, backfill>>
  BY <1>1 DEF Kb!PieceInserted, Kb!HasPiece, Kb!At, Kb!OthersKeep
<1>4. CASE ~Kb!FileThere(b.id)
  <2>1. Kb!Over(r, "failed") /\ UNCHANGED <<chunks, lastId>>
    BY <1>1, <1>4 DEF Kb!PieceInserted, Kb!Fails
  <2>2. QED BY <1>3, <2>1, FailHoldsHere
<1>5. CASE Kb!FileThere(b.id)
  <2>1. PICK n, p, len : n = b.file /\ p = b.piece /\ len = Len(KbFiles[b.file].pieces)
    OBVIOUS
  <2>2. n \in DOMAIN KbFiles /\ n \in Nat /\ p \in Nat /\ len \in Nat /\ p < len /\ p + 1 \in DOMAIN KbFiles[n].pieces
    <3>1. n \in 0 .. Len(KbFiles) /\ n > 0 /\ p \in Nat
      BY <1>2, <1>3, <2>1 DEF RebuildRun
    <3>2. n \in DOMAIN KbFiles /\ n \in Nat
      BY <3>1, SourceIs
    <3>3. len \in Nat /\ DOMAIN KbFiles[n].pieces = 1 .. len
      BY <2>1, <3>2, SourceIs
    <3>4. QED BY <1>3, <2>1, <3>1, <3>2, <3>3
  <2>3. text = KbFiles[n].pieces[p + 1] /\ text \in Kb!AllTexts
    BY <1>1, <2>1, <2>2, SourceIs
  <2>4. Kb!insert_chunk(b.id, text)
    BY <1>1, <1>5 DEF Kb!PieceInserted
  <2>5. ChunksInv /\ DerivedInv
    BY DEF StoreInv
  <2>6. /\ ChunksInv' /\ OnlyNew
        /\ \E k, c : /\ k = Kb!NextChunk /\ k \in Nat /\ Own(k, text)'
                     /\ c.id = k /\ c.text = text /\ chunks' = chunks \cup {c}
    BY <1>3, <1>5, <2>3, <2>4, <2>5, ChunkIsInserted
  <2>7. PICK k, c : /\ k = Kb!NextChunk /\ k \in Nat /\ Own(k, text)'
                    /\ c.id = k /\ c.text = text /\ chunks' = chunks \cup {c}
    BY <2>6
  <2>8. PICK v : v = [key |-> k, of |-> text]
    OBVIOUS
  <2>9. v.key = k /\ v.of = text /\ v \in Vectors
    BY <2>3, <2>7, <2>8 DEF Vectors
  <2>10. PICK d : d = [b EXCEPT !.piece = p + 1, !.index = b.index \cup {v}]
    OBVIOUS
  <2>11. rebuild' = [rebuild EXCEPT ![r] = d]
    BY <1>1, <1>2, <1>5, <2>1, <2>7, <2>8, <2>10 DEF Kb!PieceInserted
  <2>12. \A e \in epa' : e \in epa /\ \E x \in chunks' : x.id = e.id
    BY <1>3, <2>5, <2>7 DEF DerivedInv
  <2>13. DerivedInv'
    BY <1>3, <2>5, <2>6, <2>12, DerivedStays
  <2>14. /\ d \in RebuildRun /\ d.at = "rows" /\ d.file = n /\ d.piece = p + 1
         /\ d.index = b.index \cup {v}
    <3>1. p + 1 \in Nat /\ b.index \cup {v} \in SUBSET Vectors
      BY <1>2, <2>2, <2>9 DEF RebuildRun
    <3>2. QED BY <1>2, <1>3, <2>1, <2>10, <3>1 DEF RebuildRun
  <2>15. \A solo : solo = alone[r] => RebuildOk(b, solo)
    BY <1>1 DEF StoreInv
  <2>16. \A x : Read(n, p + 1, x) <=> Read(n, p, x) \/ x = text
    <3>1. ASSUME NEW i \in DOMAIN KbFiles, NEW j \in DOMAIN KbFiles[i].pieces
          PROVE  (i < n \/ (i = n /\ j <= p + 1)) <=> ((i < n \/ (i = n /\ j <= p)) \/ (i = n /\ j = p + 1))
      <4>1. i \in Nat /\ j \in Nat
        BY SourceIs
      <4>2. QED BY <2>2, <4>1
    <3>2. QED BY <2>2, <2>3, <3>1 DEF Read
  <2>17. \A solo : solo = alone[r] => RebuildOk(d, solo)'
    <3> TAKE solo
    <3> HAVE solo = alone[r]
    <3>1. \A w \in d.index : Own(w.key, w.of)'
      BY <2>5, <2>6, <2>7, <2>9, <2>14, <2>15, OwnStays DEF RebuildOk
    <3>2. d.piece <= Len(KbFiles[d.file].pieces)
      BY <2>1, <2>2, <2>14
    <3>3. ASSUME solo
          PROVE  /\ Mirrors(d.index)'
                 /\ \A x : (\E y \in chunks' : y.text = x) <=> Read(d.file, d.piece, x)
      <4>1. Mirrors(b.index) /\ \A x : (\E y \in chunks : y.text = x) <=> Read(n, p, x)
        BY <1>3, <2>1, <2>15, <3>3 DEF RebuildOk
      <4>2. v = [key |-> c.id, of |-> c.text]
        BY <2>7, <2>8
      <4>3. {[key |-> y.id, of |-> y.text] : y \in chunks'} =
                {[key |-> y.id, of |-> y.text] : y \in chunks} \cup {v}
        BY <2>7, <4>2
      <4>4. Mirrors(d.index)'
        BY <2>14, <4>1, <4>3 DEF Mirrors
      <4>5. \A x : (\E y \in chunks' : y.text = x) <=> Read(n, p, x) \/ x = text
        BY <2>7, <4>1
      <4>6. QED BY <2>14, <2>16, <4>4, <4>5
    <3>4. QED BY <2>14, <3>1, <3>2, <3>3 DEF RebuildOk, Read
  <2>18. QED BY <1>3, <2>6, <2>11, <2>13, <2>14, <2>17, Disturbed, RebuildGoes
<1>6. QED BY <1>4, <1>5

LEMMA SavedHolds ==
    ASSUME StoreInv, NEW r \in Rebuilds, Kb!IndexSaved(r)
    PROVE  StoreInv'
<1>1. PICK b, d : b = rebuild[r] /\ d = [b EXCEPT !.at = "rename"]
  OBVIOUS
<1>2. rebuild \in [Rebuilds -> RebuildRun] /\ b \in RebuildRun
  BY <1>1 DEF StoreInv
<1>3. /\ b.at = "rows" /\ ~Kb!HasPiece(r) /\ b.file = Len(KbFiles)
      /\ saved' = b.index /\ rebuild' = [rebuild EXCEPT ![r] = d]
      /\ Kb!Disturbs(r) /\ UNCHANGED <<kb_files, chunks, lastId, epa, index, backfill>>
  BY <1>1, <1>2 DEF Kb!IndexSaved, Kb!At, Kb!OthersKeep, Kb!Goes
<1>4. ChunksInv /\ DerivedInv /\ ChunksInv' /\ OnlyNew
  BY <1>3, Same DEF StoreInv
<1>5. \A solo : solo = alone[r] => RebuildOk(b, solo)
  BY <1>1 DEF StoreInv
<1>6. \A v \in b.index : Own(v.key, v.of)'
  BY <1>4, <1>5, OwnStays DEF RebuildOk
<1>7. \A e \in epa' : e \in epa /\ \E x \in chunks' : x.id = e.id
  BY <1>3, <1>4 DEF DerivedInv
<1>8. DerivedInv'
  BY <1>3, <1>4, <1>6, <1>7, DerivedStays
<1>9. d \in RebuildRun /\ d.at = "rename" /\ d.index = b.index
  BY <1>1, <1>2 DEF RebuildRun
<1>10. PICK n, p : n = b.file /\ p = b.piece
  OBVIOUS
<1>11. n \in Nat /\ p \in Nat /\ n = Len(KbFiles)
       /\ (n > 0 => ~(p < Len(KbFiles[n].pieces)) /\ n \in DOMAIN KbFiles)
  <2>1. n \in Nat /\ p \in Nat /\ n = Len(KbFiles)
    BY <1>2, <1>3, <1>10, SourceIs DEF RebuildRun
  <2>2. n > 0 => n \in DOMAIN KbFiles
    BY <2>1, SourceIs
  <2>3. n > 0 => ~(p < Len(KbFiles[n].pieces))
    BY <1>1, <1>3, <1>10 DEF Kb!HasPiece
  <2>4. QED BY <2>1, <2>2, <2>3
<1>12. \A text : Read(n + 1, 0, text) <=> Read(n, p, text)
  <2>1. ASSUME NEW i \in DOMAIN KbFiles, NEW j \in DOMAIN KbFiles[i].pieces
        PROVE  (i < n + 1 \/ (i = n + 1 /\ j <= 0)) <=> (i < n \/ (i = n /\ j <= p))
    <3>1. i \in Nat /\ i > 0 /\ j \in Nat /\ j > 0 /\ j <= Len(KbFiles[i].pieces)
          /\ Len(KbFiles[i].pieces) \in Nat
      BY SourceIs
    <3>2. i = n => j <= p
      BY <1>11, <3>1
    <3>3. QED BY <1>11, <3>1, <3>2
  <2>2. QED BY <2>1 DEF Read
<1>13. \A solo : solo = alone[r] => RebuildOk(d, solo)'
  <2> TAKE solo
  <2> HAVE solo = alone[r]
  <2>1. solo => Mirrors(b.index) /\ \A text : (\E c \in chunks : c.text = text) <=> Read(n, p, text)
    BY <1>3, <1>5, <1>10 DEF RebuildOk
  <2>2. solo => /\ Mirrors(saved)'
                /\ \A text : (\E c \in chunks' : c.text = text) <=> Read(Len(KbFiles) + 1, 0, text)
    BY <1>3, <1>11, <1>12, <2>1 DEF Mirrors
  <2>3. QED BY <1>6, <1>9, <2>2 DEF RebuildOk, Read
<1>14. QED BY <1>3, <1>4, <1>8, <1>9, <1>13, Disturbed, RebuildGoes

LEMMA RenamedHolds ==
    ASSUME StoreInv, NEW r \in Rebuilds, Kb!IndexRenamed(r) \/ Kb!RebuildStops(r)
    PROVE  StoreInv'
<1>1. CASE Kb!RebuildStops(r)
  <2>1. /\ Kb!Over(r, "failed")
        /\ UNCHANGED <<kb_files, chunks, lastId, epa, index, saved, backfill, alone>>
    BY <1>1 DEF Kb!RebuildStops, Kb!OthersKeep, Kb!Fails
  <2>2. QED BY <2>1, FailHoldsHere
<1>2. CASE Kb!IndexRenamed(r)
  <2>1. Kb!Disturbs(r) /\ UNCHANGED <<kb_files, chunks, lastId, epa, backfill>>
    BY <1>2 DEF Kb!IndexRenamed, Kb!OthersKeep
  <2>2. CASE saved = None
    <3>1. Kb!Over(r, "failed") /\ UNCHANGED <<index, saved>>
      BY <1>2, <2>2 DEF Kb!IndexRenamed, Kb!Fails
    <3>2. QED BY <2>1, <3>1, FailHoldsHere
  <2>3. CASE saved # None
    <3>1. Kb!Over(r, "done") /\ index' = saved /\ saved' = None
      BY <1>2, <2>3 DEF Kb!IndexRenamed
    <3>2. QED BY <2>1, <2>3, <3>1, FailHoldsHere
  <2>4. QED BY <2>2, <2>3
<1>3. QED BY <1>1, <1>2

-----------------------------------------------------------------------------
(* The memory host and the backfill.                                       *)

LEMMA HostHolds ==
    ASSUME StoreInv, NEW d \in Docs,
           Kb!UpsertFile(d) \/ Kb!UpsertChunk(d) \/ Kb!UpsertFails(d) \/ Kb!delete(d)
    PROVE  StoreInv'
<1>1. ChunksInv /\ DerivedInv
  BY DEF StoreInv
<1>2. ASSUME Kb!ByAnother, ChunksInv', OnlyNew, UNCHANGED <<index, saved, rebuild, backfill>>,
             \A e \in epa' : e \in epa /\ \E c \in chunks' : c.id = e.id
      PROVE  StoreInv'
  <2>1. DerivedInv'
    BY <1>1, <1>2, DerivedStays
  <2>2. QED BY <1>2, <2>1, Beside, RebuildsStay
<1>3. CASE Kb!UpsertFile(d)
  <2>1. Kb!insert_file(d) /\ Kb!ByAnother /\ UNCHANGED <<chunks, epa, index, saved, rebuild, backfill>>
    BY <1>3 DEF Kb!UpsertFile
  <2>2. ChunksInv' /\ OnlyNew
    BY <1>1, <2>1, FileIsInserted
  <2>3. \A e \in epa' : e \in epa /\ \E c \in chunks' : c.id = e.id
    BY <1>1, <2>1 DEF DerivedInv
  <2>4. QED BY <1>2, <2>1, <2>2, <2>3
<1>4. CASE Kb!UpsertChunk(d)
  <2>1. Kb!ByAnother /\ UNCHANGED <<kb_files, epa, index, saved, rebuild, backfill>>
    BY <1>4 DEF Kb!UpsertChunk
  <2>2. ChunksInv' /\ OnlyNew /\ chunks \subseteq chunks'
    <3>1. CASE Kb!FileThere(doc[d].file)
      <4>1. Kb!insert_chunk(doc[d].file, d)
        BY <1>4, <3>1 DEF Kb!UpsertChunk
      <4>2. d \in Kb!AllTexts
        BY DEF Kb!AllTexts
      <4>3. QED BY <1>1, <2>1, <3>1, <4>1, <4>2, ChunkIsInserted
    <3>2. CASE ~Kb!FileThere(doc[d].file)
      <4>1. UNCHANGED <<chunks, lastId>>
        BY <1>4, <3>2 DEF Kb!UpsertChunk
      <4>2. QED BY <1>1, <2>1, <4>1, Same
    <3>3. QED BY <3>1, <3>2
  <2>3. \A e \in epa' : e \in epa /\ \E c \in chunks' : c.id = e.id
    BY <1>1, <2>1, <2>2 DEF DerivedInv
  <2>4. QED BY <1>2, <2>1, <2>2, <2>3
<1>5. CASE Kb!UpsertFails(d)
  BY <1>5, StoreStay DEF Kb!UpsertFails
<1>6. CASE Kb!delete(d)
  <2>1. PICK left : left = [files |-> kb_files,
                            without |-> {c.id : c \in {x \in chunks : x.text = d}}]
    OBVIOUS
  <2>2. Kb!Cascade(left) /\ Kb!ByAnother /\ UNCHANGED <<lastId, index, saved, rebuild, backfill>>
    BY <1>6, <2>1 DEF Kb!delete
  <2>3. ChunksInv' /\ OnlyNew /\ \A e \in epa' : e \in epa /\ \E c \in chunks' : c.id = e.id
    BY <1>1, <2>2, Cascaded
  <2>4. QED BY <1>2, <2>2, <2>3
<1>7. QED BY <1>3, <1>4, <1>5, <1>6

LEMMA BackfillHolds ==
    ASSUME StoreInv, Kb!_load_chunks \/ Kb!_flush_batch
    PROVE  StoreInv'
<1>1. UNCHANGED <<kb_files, chunks, lastId, index, saved, rebuild, alone>>
  BY DEF Kb!_load_chunks, Kb!_flush_batch
<1>2. ChunksInv /\ DerivedInv /\ ChunksInv' /\ OnlyNew
  BY <1>1, Same DEF StoreInv
<1>3. \A k, text : Own(k, text) <=> Own(k, text)'
  BY <1>1 DEF Own
<1>4. /\ \A e \in epa' : (\E c \in chunks' : c.id = e.id) /\ Own(e.id, e.of)
      /\ backfill' \in [at : {"idle", "writing"}, rows : SUBSET EpaRows]
      /\ \A e \in backfill'.rows : Own(e.id, e.of)
  <2>1. CASE Kb!_load_chunks
    <3>1. PICK R : R = {[id |-> c.id, of |-> c.text] : c \in {x \in chunks : x.text \notin Docs}}
      OBVIOUS
    <3>2. epa' = epa /\ backfill' = [at |-> "writing", rows |-> R]
      BY <2>1, <3>1 DEF Kb!_load_chunks
    <3>3. \A e \in R : e \in EpaRows /\ Own(e.id, e.of)
      <4>1. ASSUME NEW e \in R PROVE e \in EpaRows /\ Own(e.id, e.of)
        <5>1. PICK c \in chunks : e = [id |-> c.id, of |-> c.text]
          BY <3>1
        <5>2. c.id \in 1 .. lastId.chunks /\ lastId.chunks \in Nat /\ c.text \in Kb!AllTexts
          BY <1>2 DEF ChunksInv
        <5>3. c.id \in Nat /\ c.id <= lastId.chunks
          BY <5>2
        <5>4. \A x \in chunks : x.id = c.id => x.text = c.text
          BY <1>2 DEF ChunksInv
        <5>5. e.id = c.id /\ e.of = c.text /\ e \in EpaRows
          BY <5>1, <5>2, <5>3 DEF EpaRows
        <5>6. QED BY <5>3, <5>4, <5>5 DEF Own
      <4>2. QED BY <4>1
    <3>4. QED BY <1>1, <1>2, <3>2, <3>3 DEF DerivedInv
  <2>2. CASE Kb!_flush_batch
    <3>1. /\ backfill \in [at : {"idle", "writing"}, rows : SUBSET EpaRows]
          /\ \A e \in backfill.rows : Own(e.id, e.of)
      BY <1>2 DEF DerivedInv
    <3>2. PICK row0, R : row0 = Kb!FirstLoaded /\ R = backfill.rows
      OBVIOUS
    <3>3. CASE R = {} \/ \A c \in chunks : c.id # row0.id
      <4>1. backfill' = Kb!Loaded /\ epa' = epa
        BY <2>2, <3>2, <3>3 DEF Kb!_flush_batch
      <4>2. QED BY <1>1, <1>2, <4>1 DEF DerivedInv, Kb!Loaded
    <3>4. CASE ~(R = {} \/ \A c \in chunks : c.id # row0.id)
      <4>1. epa' = Kb!EpaRow(row0) /\ backfill' = [backfill EXCEPT !.rows = R \ {row0}]
        BY <2>2, <3>2, <3>4 DEF Kb!_flush_batch
      <4>2. row0 \in R
        <5> DEFINE I == {e.id : e \in R}
        <5>1. I \in SUBSET Nat /\ I # {}
          BY <3>1, <3>2, <3>4 DEF EpaRows
        <5>2. PICK n \in I : \A m \in I : n <= m
          BY <5>1, LeastExists
        <5>3. \E e \in R : \A o \in R : e.id <= o.id
          BY <5>2
        <5>4. QED BY <3>2, <5>3 DEF Kb!FirstLoaded
      <4>3. \A e \in epa' : e \in epa \/ e = row0
        BY <4>1 DEF Kb!EpaRow
      <4>4. \A e \in epa' : (\E c \in chunks' : c.id = e.id) /\ Own(e.id, e.of)
        BY <1>1, <1>2, <3>1, <3>2, <3>4, <4>2, <4>3 DEF DerivedInv
      <4>5. backfill'.rows = R \ {row0} /\ backfill'.at = backfill.at
            /\ backfill' \in [at : {"idle", "writing"}, rows : SUBSET EpaRows]
        BY <3>1, <3>2, <4>1
      <4>6. QED BY <3>1, <3>2, <4>4, <4>5
    <3>5. QED BY <3>3, <3>4
  <2>3. QED BY <2>1, <2>2
<1>5. DerivedInv'
  BY <1>1, <1>2, <1>3, <1>4 DEF DerivedInv
<1>6. alone' \in [Rebuilds -> BOOLEAN]
  BY <1>1 DEF StoreInv
<1>7. QED BY <1>1, <1>2, <1>5, <1>6, RebuildsStay

LEMMA StoreSteps ==
    ASSUME StoreInv, Kb!StoreNext
    PROVE  StoreInv'
<1>1. \A r \in Rebuilds : /\ Kb!TruncateFiles(r) => StoreInv'
                          /\ Kb!FileInserted(r) => StoreInv'
                          /\ Kb!PieceInserted(r) => StoreInv'
  BY TruncateHolds, FileHolds, PieceHolds
<1>2. \A r \in Rebuilds : /\ Kb!IndexSaved(r) => StoreInv'
                          /\ Kb!IndexRenamed(r) \/ Kb!RebuildStops(r) => StoreInv'
  BY SavedHolds, RenamedHolds
<1>3. \A d \in Docs : Kb!UpsertFile(d) \/ Kb!UpsertChunk(d) \/ Kb!UpsertFails(d) \/ Kb!delete(d)
                          => StoreInv'
  BY HostHolds
<1>4. QED BY <1>1, <1>2, <1>3, BackfillHolds DEF Kb!StoreNext

LEMMA StoreIsSafe ==
    ASSUME StoreInv
    PROVE  /\ \A c \in chunks : c.id \in 1 .. lastId.chunks /\ Kb!FileThere(c.file) /\ c.text \in Kb!AllTexts
           /\ \A e \in epa : \E c \in chunks : c.id = e.id
           /\ Kb!DerivedIsItsOwn /\ Kb!RebuildAgrees
<1>1. ChunksInv /\ DerivedInv
  BY DEF StoreInv
<1>2. Kb!DerivedIsItsOwn
  BY <1>1 DEF Kb!DerivedIsItsOwn, DerivedInv, Own
<1>3. ASSUME NEW r \in Rebuilds, Kb!At(r, "rename"), alone[r]
      PROVE  /\ saved = {[key |-> c.id, of |-> c.text] : c \in chunks}
             /\ {c.text : c \in chunks} = UNION {Kb!ToSet(KbFiles[i].pieces) : i \in DOMAIN KbFiles}
  <2>1. PICK b, solo : b = rebuild[r] /\ solo = alone[r]
    OBVIOUS
  <2>2. solo /\ b.at = "rename" /\ RebuildOk(b, solo)
    BY <1>3, <2>1 DEF StoreInv, Kb!At
  <2>3. Mirrors(saved) /\ \A text : (\E c \in chunks : c.text = text) <=> Read(Len(KbFiles) + 1, 0, text)
    BY <2>2 DEF RebuildOk
  <2>4. \A text : Read(Len(KbFiles) + 1, 0, text) <=>
            \E i \in DOMAIN KbFiles : \E j \in DOMAIN KbFiles[i].pieces : KbFiles[i].pieces[j] = text
    <3>1. \A i \in DOMAIN KbFiles : i < Len(KbFiles) + 1
      BY SourceIs
    <3>2. QED BY <3>1 DEF Read
  <2>5. \A text : text \in UNION {Kb!ToSet(KbFiles[i].pieces) : i \in DOMAIN KbFiles} <=>
            \E i \in DOMAIN KbFiles : \E j \in DOMAIN KbFiles[i].pieces : KbFiles[i].pieces[j] = text
    BY DEF Kb!ToSet
  <2>6. PICK U : U = UNION {Kb!ToSet(KbFiles[i].pieces) : i \in DOMAIN KbFiles}
    OBVIOUS
  <2>7. \A text : text \in U <=> \E c \in chunks : c.text = text
    BY <2>3, <2>4, <2>5, <2>6
  <2>8. {c.text : c \in chunks} = U
    BY <2>7
  <2>9. QED BY <2>3, <2>6, <2>8 DEF Mirrors
<1>4. Kb!RebuildAgrees
  BY <1>3 DEF Kb!RebuildAgrees
<1>5. QED BY <1>1, <1>2, <1>4 DEF ChunksInv, DerivedInv
=============================================================================
