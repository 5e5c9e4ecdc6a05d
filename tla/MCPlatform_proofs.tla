-------------------------- MODULE MCPlatform_proofs ---------------------------
(***************************************************************************)
(* What holds of the parts that were put together, for all values of the   *)
(* constants: the invariants of BackgroundTasks_proofs and of              *)
(* StorageTasks_proofs, and that of the variable files.                    *)
(***************************************************************************)
EXTENDS MCPlatform, BackgroundTasks_proofs, StorageTasks_proofs

-----------------------------------------------------------------------------
(* The variable files.  A copy that has not slipped is what its file says, *)
(* or the next tick of the watcher sees that it is not.                    *)

FileOf == [text : Texts, mtime : Nat]
Fresh(s) == files[s] # None /\ cache[s] = files[s].text

FileTypes ==
    /\ mtime \in Nat /\ watching \in BOOLEAN
    /\ files \in [Stems -> FileOf \cup {None}]
    /\ cache \in [Stems -> Texts \cup {None}]
    /\ snapshot \in [Stems -> Nat \cup {None}]
    /\ slipped \subseteq {s \in Stems : cache[s] # None}

\* No snapshot is ahead of the clock, so that an edit shows in the next one; and a copy that
\* has not slipped is what the file says, or is about to be evicted, watched or not.
FilesInv ==
    /\ FileTypes
    /\ \A s \in Stems : snapshot[s] # None => snapshot[s] <= mtime
    /\ \A s \in Stems : files[s] # None => files[s].mtime <= mtime
    /\ \A s \in Stems : s \notin slipped /\ cache[s] # None => Prompt!Changed(s) \/ Fresh(s)

TimeOf(s) == IF files[s] = None THEN None ELSE files[s].mtime

LEMMA ChangedIs ==
    ASSUME NEW s \in Stems
    PROVE  Prompt!Changed(s) <=> snapshot[s] # None /\ TimeOf(s) # snapshot[s]
BY DEF Prompt!Changed, Prompt!snapshot_mtimes, TimeOf

LEMMA ChangedIsNext ==
    ASSUME NEW s \in Stems
    PROVE  Prompt!Changed(s)' <=> snapshot'[s] # None /\ TimeOf(s)' # snapshot'[s]
BY DEF Prompt!Changed, Prompt!snapshot_mtimes, TimeOf

LEMMA FilesStart ==
    ASSUME Prompt!Init
    PROVE  FilesInv
BY DEF Prompt!Init, Prompt!FileInit, FilesInv, FileTypes

LEMMA EditHolds ==
    ASSUME FilesInv, NEW s \in Stems, NEW t \in Texts, Prompt!EditFile(s, t)
    PROVE  FilesInv'
<1>1. /\ mtime' = mtime + 1 /\ UNCHANGED <<cache, snapshot, watching>>
      /\ files' = [files EXCEPT ![s] = [text |-> t, mtime |-> mtime + 1]]
      /\ slipped' = IF cache[s] # None /\ Prompt!Unseen(s) THEN slipped \cup {s} ELSE slipped
  BY DEF Prompt!EditFile, Prompt!Changes
<1>2. /\ FileTypes
      /\ \A r \in Stems : snapshot[r] # None => snapshot[r] <= mtime
      /\ \A r \in Stems : files[r] # None => files[r].mtime <= mtime
      /\ \A r \in Stems : r \notin slipped /\ cache[r] # None => Prompt!Changed(r) \/ Fresh(r)
  BY DEF FilesInv
<1>3. PICK f : f = [text |-> t, mtime |-> mtime + 1]
  OBVIOUS
<1>4. f \in FileOf /\ f.mtime = mtime + 1 /\ mtime \in Nat
  BY <1>2, <1>3 DEF FileOf, FileTypes
<1>5. /\ files'[s] = f /\ (\A r \in Stems : r # s => files'[r] = files[r])
      /\ files' \in [Stems -> FileOf \cup {None}]
  BY <1>1, <1>2, <1>3, <1>4 DEF FileTypes
<1>6. slipped \subseteq slipped' /\ slipped' \subseteq {r \in Stems : cache'[r] # None}
  BY <1>1, <1>2 DEF FileTypes
<1>7. FileTypes'
  BY <1>1, <1>2, <1>4, <1>5, <1>6 DEF FileTypes
<1>8. \A r \in Stems : snapshot'[r] # None => snapshot'[r] \in Nat /\ snapshot[r] <= mtime /\ snapshot'[r] <= mtime'
  BY <1>1, <1>2, <1>4 DEF FileTypes
<1>9. \A r \in Stems : files'[r] # None => files'[r].mtime <= mtime'
  BY <1>1, <1>2, <1>4, <1>5 DEF FileTypes, FileOf
<1>10. ASSUME NEW r \in Stems, r \notin slipped', cache'[r] # None
       PROVE  Prompt!Changed(r)' \/ Fresh(r)'
  <2>1. CASE r # s
    <3>1. files'[r] = files[r] /\ cache'[r] = cache[r] /\ snapshot'[r] = snapshot[r] /\ r \notin slipped
      BY <1>1, <1>5, <1>6, <1>10, <2>1
    <3>2. Prompt!Changed(r) \/ Fresh(r)
      BY <1>1, <1>2, <1>10, <3>1
    <3>3. TimeOf(r)' = TimeOf(r) /\ (Fresh(r) => Fresh(r)')
      BY <3>1 DEF TimeOf, Fresh
    <3>4. QED BY <3>1, <3>2, <3>3, ChangedIs, ChangedIsNext
  <2>2. CASE r = s
    <3>1. ~Prompt!Unseen(s)
      BY <1>1, <1>10, <2>2
    <3>2. snapshot'[s] # None /\ snapshot'[s] \in Nat /\ snapshot'[s] <= mtime
      BY <1>1, <1>8, <3>1 DEF Prompt!Unseen
    <3>3. TimeOf(s)' = None \/ TimeOf(s)' = mtime + 1
      BY <1>4, <1>5 DEF TimeOf
    <3>4. TimeOf(s)' # snapshot'[s]
      BY <1>4, <3>2, <3>3
    <3>5. QED BY <2>2, <3>2, <3>4, ChangedIsNext
  <2>3. QED BY <2>1, <2>2
<1>11. QED BY <1>7, <1>8, <1>9, <1>10 DEF FilesInv

LEMMA RemoveHolds ==
    ASSUME FilesInv, NEW s \in Stems, Prompt!RemoveFile(s)
    PROVE  FilesInv'
<1>1. /\ files[s] # None /\ UNCHANGED <<cache, snapshot, watching, mtime>>
      /\ files' = [files EXCEPT ![s] = None]
      /\ slipped' = IF cache[s] # None /\ Prompt!Unseen(s) THEN slipped \cup {s} ELSE slipped
  BY DEF Prompt!RemoveFile, Prompt!Changes
<1>2. /\ FileTypes
      /\ \A r \in Stems : snapshot[r] # None => snapshot[r] <= mtime
      /\ \A r \in Stems : files[r] # None => files[r].mtime <= mtime
      /\ \A r \in Stems : r \notin slipped /\ cache[r] # None => Prompt!Changed(r) \/ Fresh(r)
  BY DEF FilesInv
<1>3. /\ files'[s] = None /\ (\A r \in Stems : r # s => files'[r] = files[r])
      /\ files' \in [Stems -> FileOf \cup {None}]
  BY <1>1, <1>2 DEF FileTypes
<1>4. slipped \subseteq slipped' /\ slipped' \subseteq {r \in Stems : cache'[r] # None}
  BY <1>1, <1>2 DEF FileTypes
<1>5. FileTypes'
  BY <1>1, <1>2, <1>3, <1>4 DEF FileTypes
<1>6. /\ \A r \in Stems : snapshot'[r] # None => snapshot'[r] <= mtime'
      /\ \A r \in Stems : files'[r] # None => files'[r].mtime <= mtime'
  BY <1>1, <1>2, <1>3
<1>7. ASSUME NEW r \in Stems, r \notin slipped', cache'[r] # None
      PROVE  Prompt!Changed(r)' \/ Fresh(r)'
  <2>1. CASE r # s
    <3>1. files'[r] = files[r] /\ cache'[r] = cache[r] /\ snapshot'[r] = snapshot[r] /\ r \notin slipped
      BY <1>1, <1>3, <1>4, <1>7, <2>1
    <3>2. Prompt!Changed(r) \/ Fresh(r)
      BY <1>1, <1>2, <1>7, <3>1
    <3>3. TimeOf(r)' = TimeOf(r) /\ (Fresh(r) => Fresh(r)')
      BY <3>1 DEF TimeOf, Fresh
    <3>4. QED BY <3>1, <3>2, <3>3, ChangedIs, ChangedIsNext
  <2>2. CASE r = s
    <3>1. ~Prompt!Unseen(s)
      BY <1>1, <1>7, <2>2
    <3>2. snapshot'[s] # None /\ TimeOf(s)' = None
      BY <1>1, <1>3, <3>1 DEF Prompt!Unseen, TimeOf
    <3>3. QED BY <2>2, <3>2, ChangedIsNext
  <2>3. QED BY <2>1, <2>2
<1>8. QED BY <1>5, <1>6, <1>7 DEF FilesInv

LEMMA ResolveHolds ==
    ASSUME FilesInv, NEW k \in Prompt!Keys, NEW m, Prompt!resolve(k, m)
    PROVE  FilesInv'
<1>1. PICK s \in Stems : s = StemOf[k]
  BY FilesAssumption DEF Prompt!Keys
<1>2. /\ cache' = [cache EXCEPT ![s] = Prompt!Found(s)]
      /\ slipped' = IF cache[s] = None THEN slipped \ {s} ELSE slipped
      /\ UNCHANGED <<files, snapshot, watching, mtime>>
  BY <1>1 DEF Prompt!resolve, Prompt!load
<1>3. /\ FileTypes
      /\ \A r \in Stems : snapshot[r] # None => snapshot[r] <= mtime
      /\ \A r \in Stems : files[r] # None => files[r].mtime <= mtime
      /\ \A r \in Stems : r \notin slipped /\ cache[r] # None => Prompt!Changed(r) \/ Fresh(r)
  BY DEF FilesInv
<1>4. /\ files[s] # None => files[s] \in FileOf /\ files[s].text \in Texts
      /\ cache[s] \in Texts \cup {None} /\ slipped \subseteq {r \in Stems : cache[r] # None}
      /\ cache \in [Stems -> Texts \cup {None}]
  BY <1>3 DEF FileTypes, FileOf
<1>5. Prompt!Found(s) \in Texts \cup {None}
  BY <1>4 DEF Prompt!Found
<1>6. /\ cache'[s] = Prompt!Found(s) /\ (\A r \in Stems : r # s => cache'[r] = cache[r])
      /\ cache' \in [Stems -> Texts \cup {None}]
  BY <1>2, <1>4, <1>5
<1>7. cache[s] # None => cache'[s] = cache[s] /\ slipped' = slipped
  BY <1>2, <1>6 DEF Prompt!Found
<1>8. slipped' \subseteq {r \in Stems : cache'[r] # None} /\ slipped \subseteq slipped' \cup {s}
  BY <1>2, <1>4, <1>6, <1>7
<1>9. FileTypes'
  BY <1>2, <1>3, <1>6, <1>8 DEF FileTypes
<1>10. /\ \A r \in Stems : snapshot'[r] # None => snapshot'[r] <= mtime'
       /\ \A r \in Stems : files'[r] # None => files'[r].mtime <= mtime'
  BY <1>2, <1>3
<1>11. ASSUME NEW r \in Stems, r \notin slipped', cache'[r] # None
       PROVE  Prompt!Changed(r)' \/ Fresh(r)'
  <2>1. TimeOf(r)' = TimeOf(r) /\ snapshot' = snapshot /\ files' = files
    BY <1>2 DEF TimeOf
  <2>2. CASE r # s \/ cache[s] # None
    <3>1. cache'[r] = cache[r] /\ r \notin slipped
      BY <1>6, <1>7, <1>8, <1>11, <2>2
    <3>2. Prompt!Changed(r) \/ Fresh(r)
      BY <1>3, <1>11, <3>1
    <3>3. Fresh(r) => Fresh(r)'
      BY <2>1, <3>1 DEF Fresh
    <3>4. QED BY <2>1, <3>2, <3>3, ChangedIs, ChangedIsNext
  <2>3. CASE r = s /\ cache[s] = None
    <3>1. files[s] # None /\ cache'[s] = files[s].text
      BY <1>6, <1>11, <2>3 DEF Prompt!Found
    <3>2. QED BY <2>1, <2>3, <3>1 DEF Fresh
  <2>4. QED BY <2>2, <2>3
<1>12. QED BY <1>9, <1>10, <1>11 DEF FilesInv

LEMMA WatcherHolds ==
    ASSUME FilesInv, Prompt!start_watching \/ Prompt!stop_watching \/ Prompt!_tick
    PROVE  FilesInv'
<1>1. /\ FileTypes
      /\ \A r \in Stems : snapshot[r] # None => snapshot[r] <= mtime
      /\ \A r \in Stems : files[r] # None => files[r].mtime <= mtime
      /\ \A r \in Stems : r \notin slipped /\ cache[r] # None => Prompt!Changed(r) \/ Fresh(r)
  BY DEF FilesInv
<1>2. /\ Prompt!snapshot_mtimes \in [Stems -> Nat \cup {None}]
      /\ \A s \in Stems : Prompt!snapshot_mtimes[s] = TimeOf(s)
      /\ \A s \in Stems : TimeOf(s) # None => TimeOf(s) <= mtime
  <2>1. \A s \in Stems : files[s] # None => files[s] \in FileOf /\ files[s].mtime \in Nat
    BY <1>1 DEF FileTypes, FileOf
  <2>2. QED BY <1>1, <2>1 DEF Prompt!snapshot_mtimes, TimeOf
<1>3. UNCHANGED <<files, mtime>> /\ watching' \in BOOLEAN
  BY <1>1 DEF Prompt!start_watching, Prompt!stop_watching, Prompt!_tick, FileTypes
<1>4. \A s \in Stems : TimeOf(s)' = TimeOf(s)
  BY <1>3 DEF TimeOf
<1>5. ASSUME snapshot' = Prompt!snapshot_mtimes,
             cache' \in [Stems -> Texts \cup {None}], slipped' \subseteq {s \in Stems : cache'[s] # None},
             \A s \in Stems : s \notin slipped' /\ cache'[s] # None => Fresh(s)'
      PROVE  FilesInv'
  <2>1. FileTypes'
    BY <1>1, <1>2, <1>3, <1>5 DEF FileTypes
  <2>2. /\ \A s \in Stems : snapshot'[s] # None => snapshot'[s] <= mtime'
        /\ \A s \in Stems : files'[s] # None => files'[s].mtime <= mtime'
    BY <1>1, <1>2, <1>3, <1>5
  <2>3. QED BY <1>5, <2>1, <2>2 DEF FilesInv
<1>6. CASE Prompt!start_watching
  <2>1. /\ snapshot' = Prompt!snapshot_mtimes /\ cache' = cache
        /\ slipped' = slipped \cup {s \in Stems : cache[s] # None /\ Prompt!Changed(s)}
    BY <1>6 DEF Prompt!start_watching
  <2>2. cache' \in [Stems -> Texts \cup {None}] /\ slipped' \subseteq {s \in Stems : cache'[s] # None}
    BY <1>1, <2>1 DEF FileTypes
  <2>3. ASSUME NEW s \in Stems, s \notin slipped', cache'[s] # None PROVE Fresh(s)'
    <3>1. s \notin slipped /\ ~Prompt!Changed(s) /\ cache[s] # None
      BY <2>1, <2>3
    <3>2. Fresh(s)
      BY <1>1, <3>1
    <3>3. QED BY <1>3, <2>1, <3>2 DEF Fresh
  <2>4. QED BY <1>5, <2>1, <2>2, <2>3
<1>7. CASE Prompt!stop_watching
  <2>1. UNCHANGED <<files, cache, snapshot, mtime, slipped>>
    BY <1>7 DEF Prompt!stop_watching
  <2>2. \A s \in Stems : (Prompt!Changed(s) => Prompt!Changed(s)') /\ (Fresh(s) => Fresh(s)')
    BY <1>4, <2>1, ChangedIs, ChangedIsNext DEF Fresh
  <2>3. FileTypes'
    BY <1>1, <1>3, <2>1 DEF FileTypes
  <2>4. QED BY <1>1, <2>1, <2>2, <2>3 DEF FilesInv
<1>8. CASE Prompt!_tick
  <2>1. /\ snapshot' = Prompt!snapshot_mtimes
        /\ cache' = [s \in Stems |-> IF Prompt!Changed(s) THEN None ELSE cache[s]]
        /\ slipped' = {s \in slipped : ~Prompt!Changed(s)}
    BY <1>8 DEF Prompt!_tick
  <2>2. cache' \in [Stems -> Texts \cup {None}] /\ slipped' \subseteq {s \in Stems : cache'[s] # None}
    BY <1>1, <2>1 DEF FileTypes
  <2>3. ASSUME NEW s \in Stems, s \notin slipped', cache'[s] # None PROVE Fresh(s)'
    <3>1. ~Prompt!Changed(s) /\ cache'[s] = cache[s]
      BY <2>1, <2>3
    <3>2. s \notin slipped
      BY <2>1, <2>3, <3>1
    <3>3. Fresh(s)
      BY <1>1, <2>3, <3>1, <3>2
    <3>4. QED BY <1>3, <3>1, <3>3 DEF Fresh
  <2>4. QED BY <1>5, <2>1, <2>2, <2>3
<1>9. QED BY <1>6, <1>7, <1>8

LEMMA FilesSteps ==
    ASSUME FilesInv, Prompt!FileNext
    PROVE  FilesInv'
BY EditHolds, RemoveHolds, ResolveHolds, WatcherHolds DEF Prompt!FileNext

LEMMA FilesAreSafe == FilesInv => Prompt!FileTypeOK /\ Prompt!ServesTheFile
<1> SUFFICES ASSUME FilesInv PROVE Prompt!FileTypeOK /\ Prompt!ServesTheFile
  OBVIOUS
<1>1. Prompt!FileTypeOK
  BY DEF FilesInv, FileTypes, Prompt!FileTypeOK
<1>2. \A s \in Stems : s \notin slipped /\ cache[s] # None =>
        Prompt!Changed(s) \/ (files[s] # None /\ cache[s] = files[s].text)
  BY DEF FilesInv, Fresh
<1>3. \A k \in SarKeys \ (FixedKeys \cup TarKeys), m \in Prompt!Models :
          Prompt!resolved(k, m) # "" => k \in DOMAIN Gates /\ m \in Gates[k]
  BY DEF Prompt!resolved
<1>4. QED BY <1>1, <1>2, <1>3 DEF Prompt!ServesTheFile

-----------------------------------------------------------------------------
(* All of them.                                                            *)

BackgroundInv ==
    /\ Inv
    /\ machine = "telegram" => TelegramInv
    /\ machine = "canvas" => CanvasInv
    /\ machine = "index" => IndexInv
    /\ machine = "migration" => MigrationInv
    /\ machine = "bucket" => BucketInv
    /\ machine = "session" => SessionInv
    /\ machine = "persona" => PersonaInv
    /\ machine = "traits" => TraitsInv
    /\ machine = "store" => StoreInv /\ faded.decay_score = Full /\ kb_clock = 0

LEMMA BackgroundStarts ==
    ASSUME BackgroundInit
    PROVE  BackgroundInv
<1>1. /\ Inv /\ TelegramInv /\ CanvasInv /\ IndexInv /\ BucketInv /\ SessionInv
      /\ (machine = "migration" => MigrationInv)
  BY InitHolds, TelegramStarts, CanvasStarts, IndexStarts, MigrationStarts, BucketStarts, SessionStarts
     DEF BackgroundInit
<1>2. PersonaInv /\ TraitsInv
  BY PersonaStarts, TraitsStart DEF BackgroundInit, Persona!Init
<1>3. StoreInv /\ faded.decay_score = Full /\ kb_clock = 0
  BY StoreStarts DEF BackgroundInit, Kb!Init, Kb!DecayInit
<1>4. QED BY <1>1, <1>2, <1>3 DEF BackgroundInv

\* A machine that takes a step is the chosen one, and the observer is itself or stays.
LEMMA BackgroundSteps ==
    ASSUME BackgroundInv, BackgroundNext
    PROVE  BackgroundInv'
<1>1. machine' = machine
  BY DEF BackgroundNext, Steps
<1>2. [Next]_vars
  <2>1. CASE Steps("observer") /\ Next
    BY <2>1
  <2>2. CASE ~(Steps("observer") /\ Next)
    BY <2>2 DEF BackgroundNext, Steps
  <2>3. QED BY <2>1, <2>2
<1>3. Inv'
  BY <1>2, StepHolds DEF BackgroundInv
<1>4. machine = "telegram" => TelegramInv'
  BY TelegramSteps DEF BackgroundInv, BackgroundNext, Steps
<1>5. machine = "canvas" => CanvasInv'
  BY CanvasSteps DEF BackgroundInv, BackgroundNext, Steps
<1>6. machine = "index" => IndexInv'
  BY IndexSteps DEF BackgroundInv, BackgroundNext, Steps
<1>7. machine = "migration" => MigrationInv'
  BY MigrationSteps DEF BackgroundInv, BackgroundNext, Steps
<1>8. machine = "bucket" => BucketInv'
  BY BucketSteps DEF BackgroundInv, BackgroundNext, Steps
<1>9. machine = "session" => SessionInv'
  BY SessionSteps DEF BackgroundInv, BackgroundNext, Steps
<1>10. machine = "persona" => PersonaInv'
  BY PersonaSteps DEF BackgroundInv, BackgroundNext, Steps
<1>11. machine = "traits" => TraitsInv'
  BY TraitsSteps DEF BackgroundInv, BackgroundNext, Steps
<1>12. machine = "store" => StoreInv'
  BY StoreSteps DEF BackgroundInv, BackgroundNext, Steps
<1>13. machine = "store" => UNCHANGED <<faded, kb_clock>>
  BY DEF BackgroundNext, Steps, decayVars
<1>14. machine = "store" => faded'.decay_score = Full /\ kb_clock' = 0
  BY <1>13 DEF BackgroundInv
<1>15. QED BY <1>1, <1>3, <1>4, <1>5, <1>6, <1>7, <1>8, <1>9, <1>10, <1>11, <1>12, <1>14
           DEF BackgroundInv

-----------------------------------------------------------------------------
(* Whoever takes a step, the others stay where they are.                   *)

LEMMA TelegramStays ==
    ASSUME TelegramInv, UNCHANGED telegramVars
    PROVE  TelegramInv'
<1>1. TelegramTypes' /\ PollInv'
  BY DEF TelegramInv, TelegramTypes, PollInv, From, Seen, Upd, telegramVars
<1>2. ReplyInv'
  BY DEF TelegramInv, ReplyInv, Carried, Flies, InHands, Has, NoRepeats, Upd, telegramVars
<1>3. QED BY <1>1, <1>2 DEF TelegramInv

LEMMA CanvasStays ==
    ASSUME CanvasInv, UNCHANGED canvasVars
    PROVE  CanvasInv'
<1>1. CanvasTypes' /\ (reaped => ~open)'
  BY DEF CanvasInv, CanvasTypes, canvasVars
<1>2. ASSUME NEW s \in Streams PROVE StreamInv(s)' /\ EndInv(s)' /\ AccountInv(s)'
  <2>1. StreamInv(s)' /\ EndInv(s)'
    BY DEF CanvasInv, StreamInv, EndInv, canvasVars
  <2>2. AccountInv(s)'
    BY DEF CanvasInv, AccountInv, Counted, Chained, InHandFrom, canvasVars
  <2>3. QED BY <2>1, <2>2
<1>3. QED BY <1>1, <1>2 DEF CanvasInv

LEMMA IndexStays ==
    ASSUME IndexInv, UNCHANGED indexVars
    PROVE  IndexInv'
<1>1. IndexTypes' /\ PlaceInv'
  BY DEF IndexInv, IndexTypes, PlaceInv, indexVars
<1>2. FlagInv'
  BY DEF IndexInv, FlagInv, Coming, indexVars
<1>3. KeptInv'
  BY DEF IndexInv, KeptInv, AtWork, KeyKept, indexVars
<1>4. QED BY <1>1, <1>2, <1>3 DEF IndexInv

LEMMA MigrationStays ==
    ASSUME MigrationInv, UNCHANGED migrationVars
    PROVE  MigrationInv'
BY DEF MigrationInv, Claims, Believed, Migration!TypeOK, Migration!TagsSurviveUpgrades, migrationVars

LEMMA BucketStays ==
    ASSUME BucketInv, UNCHANGED bucketVars
    PROVE  BucketInv'
<1>1. time' \in 0 .. BucketTime /\ Buckets(state, time)' /\ Buckets(unswept, time)'
  BY DEF BucketInv, Buckets, bucketVars
<1>2. \A k \in BucketKeys : (Level(state, k, time) = Level(unswept, k, time))'
  BY DEF BucketInv, Level, bucketVars
<1>3. SpentInv' /\ Windows'
  BY DEF BucketInv, SpentInv, Windows, Level, bucketVars
<1>4. QED BY <1>1, <1>2, <1>3 DEF BucketInv

LEMMA SessionStays ==
    ASSUME SessionInv, UNCHANGED sessionVars
    PROVE  SessionInv'
<1>1. RowInv(session_rows, log)'
  BY DEF SessionInv, RowInv, Place, Greater, sessionVars
<1>2. \A t \in Turns, x \in Rows : (x \in Tried(t) => Recorded(x))'
  BY DEF SessionInv, Tried, Recorded, Within, sessionVars
<1>3. \A u \in Turns, t \in Turns, x \in Rows : (t \in before[u].told /\ x[1] = t => Known(u, x))'
  BY DEF SessionInv, Known, sessionVars
<1>4. QED BY <1>1, <1>2, <1>3 DEF SessionInv, sessionVars

LEMMA FilesStay ==
    ASSUME FilesInv, UNCHANGED filesVars
    PROVE  FilesInv'
<1>1. \A s \in Stems : (Prompt!Changed(s) => Prompt!Changed(s)') /\ (Fresh(s) => Fresh(s)')
  <2>1. \A s \in Stems : TimeOf(s)' = TimeOf(s) /\ snapshot'[s] = snapshot[s]
    BY DEF TimeOf, filesVars
  <2>2. \A s \in Stems : Fresh(s) => Fresh(s)'
    BY DEF Fresh, filesVars
  <2>3. QED BY <2>1, <2>2, ChangedIs, ChangedIsNext
<1>2. FileTypes'
  BY DEF FilesInv, FileTypes, filesVars
<1>3. QED BY <1>1, <1>2 DEF FilesInv, filesVars

LEMMA PersonaStays == ASSUME PersonaInv, UNCHANGED personaVars PROVE PersonaInv'
BY PersonaStay DEF personaVars

LEMMA TraitsAreStill == ASSUME TraitsInv, UNCHANGED traitsVars PROVE TraitsInv'
BY TraitsStay DEF traitsVars

LEMMA StoreStays == ASSUME StoreInv, UNCHANGED storeVars PROVE StoreInv'
BY StoreStay DEF storeVars

LEMMA BackgroundStays ==
    ASSUME BackgroundInv, UNCHANGED backgroundVars
    PROVE  BackgroundInv'
<1>1. /\ machine' = machine /\ UNCHANGED vars /\ UNCHANGED telegramVars /\ UNCHANGED canvasVars
      /\ UNCHANGED indexVars /\ UNCHANGED migrationVars /\ UNCHANGED bucketVars /\ UNCHANGED sessionVars
      /\ UNCHANGED personaVars /\ UNCHANGED traitsVars /\ UNCHANGED storeVars
      /\ faded' = faded /\ kb_clock' = kb_clock
  BY DEF backgroundVars, decayVars
<1>2. Inv'
  BY <1>1, StepHolds DEF BackgroundInv
<1>3. QED
  BY <1>1, <1>2, TelegramStays, CanvasStays, IndexStays, MigrationStays, BucketStays, SessionStays,
     PersonaStays, TraitsAreStill, StoreStays
     DEF BackgroundInv

PlatformInv == BackgroundInv /\ (machine = "files" => FilesInv)

LEMMA PlatformStarts == MCInit => PlatformInv
BY BackgroundStarts, FilesStart DEF MCInit, PlatformInv

LEMMA PlatformSteps == PlatformInv /\ [MCNext]_allVars => PlatformInv'
<1> SUFFICES ASSUME PlatformInv, [MCNext]_allVars PROVE PlatformInv'
  OBVIOUS
<1>1. CASE BackgroundNext /\ UNCHANGED otherVars
  <2>1. BackgroundInv' /\ machine' = machine
    BY <1>1, BackgroundSteps DEF PlatformInv, BackgroundNext, Steps
  <2>2. machine = "files" => FilesInv'
    BY <1>1, FilesStay DEF PlatformInv, otherVars
  <2>3. QED BY <2>1, <2>2 DEF PlatformInv
<1>2. CASE UNCHANGED backgroundVars /\ machine = "files" /\ Prompt!FileNext
  <2>1. BackgroundInv' /\ machine' = machine
    BY <1>2, BackgroundStays DEF PlatformInv, backgroundVars
  <2>2. FilesInv'
    BY <1>2, FilesSteps DEF PlatformInv
  <2>3. QED BY <2>1, <2>2 DEF PlatformInv
<1>3. CASE UNCHANGED backgroundVars /\ (machine = "files" => UNCHANGED filesVars)
  <2>1. BackgroundInv' /\ machine' = machine
    BY <1>3, BackgroundStays DEF PlatformInv, backgroundVars
  <2>2. machine = "files" => FilesInv'
    BY <1>3, FilesStay DEF PlatformInv
  <2>3. QED BY <2>1, <2>2 DEF PlatformInv
<1>4. QED BY <1>1, <1>2, <1>3 DEF MCNext, AnswerSteps, allVars, otherVars

THEOREM PlatformHolds == MCSpec => []PlatformInv
BY PlatformStarts, PlatformSteps, PTL DEF MCSpec

\* However polls, replies and restarts, frames and clients, checks and sweeps, edits and
\* ticks of the watcher are interleaved, and for any number of them: what is promised of
\* the parts that face the world holds (telegram/service.rs, canvas.rs, token_bucket.rs,
\* hot_reload.py).
THEOREM FrontEndsAlwaysHold == MCSpec => []FrontEndsHold
<1>1. ASSUME PlatformInv PROVE FrontEndsHold
  <2>1. machine = "observer" => TypeOK
    BY <1>1 DEF PlatformInv, BackgroundInv, Inv, BusInv, PipeInv, PipeTypeOK, TypeOK
  <2>2. machine = "telegram" => Telegram!TypeOK /\ Telegram!ForgottenWasTaken
                                /\ Telegram!OncePerLife /\ Telegram!NoneIsDropped
    BY <1>1, TelegramIsSafe DEF PlatformInv, BackgroundInv
  <2>3. machine = "canvas" => Canvas!TypeOK /\ Canvas!StreamsAccount /\ Canvas!EndIsTheEnd
    BY <1>1, CanvasIsSafe DEF PlatformInv, BackgroundInv
  <2>4. machine = "bucket" => Bucket!TypeOK /\ Bucket!SweepIsInvisible /\ Bucket!WindowBudget
    BY <1>1, BucketIsSafe DEF PlatformInv, BackgroundInv
  <2>5. machine = "files" => Prompt!FileTypeOK /\ Prompt!ServesTheFile
    BY <1>1, FilesAreSafe DEF PlatformInv
  <2>6. QED BY <2>1, <2>2, <2>3, <2>4, <2>5 DEF FrontEndsHold
<1>2. QED BY <1>1, PlatformHolds, PTL

\* However writers, savers, sweeps and evictions of an index, migrators of a schema, turns
\* and trims of a session, writers of a persona, distillations and prunes, rebuilds,
\* upserts and backfills are interleaved, and for any number of them: what was stored is
\* there and is what it says (usearch_index.rs, migration.rs, session_sqlite.rs,
\* corlinman-persona, distiller.py, vector.rs, epa_backfill.py).
THEOREM StorageAlwaysHolds == MCSpec => []StorageHolds
<1>1. ASSUME PlatformInv PROVE StorageHolds
  <2>1. machine = "index" => Index!TypeOK /\ Index!DirtyIsSeen /\ Index!MarkedKeysLast
    BY <1>1, IndexIsSafe DEF PlatformInv, BackgroundInv
  <2>2. machine = "migration" => Migration!TypeOK /\ Migration!VersionIsNotAhead
                                 /\ Migration!TagsSurviveUpgrades
    BY <1>1, MigrationIsSafe DEF PlatformInv, BackgroundInv
  <2>3. machine = "session" => Session!TypeOK /\ Session!NumbersFollowAppends
                               /\ Session!NewestSurvive /\ Session!ReadYourTurns
    BY <1>1, SessionIsSafe DEF PlatformInv, BackgroundInv
  <2>4. machine = "persona" => Persona!PersonaTypeOK /\ Persona!RecoversInTime /\ Persona!ResetStays
    BY <1>1, PersonaIsSafe DEF PlatformInv, BackgroundInv
  <2>5. machine = "traits" => Persona!TraitsTypeOK /\ Persona!WeighedReadings /\ Persona!SessionsAreKept
    BY <1>1, TraitsAreSafe DEF PlatformInv, BackgroundInv
  <2>6. machine = "store" => Kb!TypeOK /\ Kb!DerivedIsItsOwn /\ Kb!RebuildAgrees
    <3> SUFFICES ASSUME machine = "store" PROVE Kb!TypeOK /\ Kb!DerivedIsItsOwn /\ Kb!RebuildAgrees
      OBVIOUS
    <3>1. StoreInv /\ faded.decay_score = Full /\ kb_clock = 0
      BY <1>1 DEF PlatformInv, BackgroundInv
    <3>2. faded.decay_score \in 0 .. Full /\ kb_clock \in 0 .. DecayTime
      BY <3>1, DecayAssumption
    <3>3. QED BY <3>1, <3>2, StoreIsSafe DEF Kb!TypeOK
  <2>7. QED BY <2>1, <2>2, <2>3, <2>4, <2>5, <2>6 DEF StorageHolds
<1>2. QED BY <1>1, PlatformHolds, PTL

\* The observer among the other parts is the observer: none of them writes what it reads,
\* so that every signal is accounted for and the newest one kept there too (observer.rs).
THEOREM PlatformObserves == MCSpec => Spec /\ []SignalsAreAccounted /\ NewestSurvives
<1>1. MCInit => Init
  BY DEF MCInit, BackgroundInit
<1>2. [MCNext]_allVars => [Next]_vars
  <2> SUFFICES ASSUME [MCNext]_allVars PROVE [Next]_vars
    OBVIOUS
  <2>1. CASE UNCHANGED backgroundVars
    BY <2>1 DEF backgroundVars
  <2>2. CASE BackgroundNext
    BY <2>2 DEF BackgroundNext, Steps
  <2>3. QED BY <2>1, <2>2 DEF MCNext, AnswerSteps, allVars
<1>3. MCSpec => Spec
  BY <1>1, <1>2, PTL DEF MCSpec, Spec
<1>4. QED BY <1>3, SignalsStayAccounted, NewestIsKept, PTL
=============================================================================
