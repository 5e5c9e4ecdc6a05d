--------------------------- MODULE BackgroundTasks ---------------------------
(***************************************************************************)
(* The evolution observer, and the other parts in which a task goes on     *)
(* beside the requests: the Telegram poller, the canvas streams, the index *)
(* cache, schema migrations, the buckets of rate limits, the rows of       *)
(* sessions, personas and what users like, and the knowledge base.  They   *)
(* share no state with one another: a behaviour is that of one of them,    *)
(* chosen at the start.                                                    *)
(***************************************************************************)
EXTENDS EvolutionObserver

CONSTANTS
    MaxUpdates, MaxLives, Dispatched, ReplyRoom,                    \* Telegram
    Streams, MaxFrames, MaxTime, Lifetimes, CanvasCapacity,         \* canvas
    Clients, MaxInstances, MaxFailures,                             \* index
    Chunks, Tags, Migrators,                                        \* migration
    Senders, Group, GroupPerMin, SenderPerMin, Minute, StaleAfter, BucketTime,  \* bucket
    Turns, KeepLast,                                                \* session
    Writers, Topics, MaxFatigue, Tired, Day, RECENT_TOPICS_CAP, MaxHours, MaxWrites,  \* persona
    Distillations, Sessions, MinTurns, TraitValues, Personal, Readings, TraitFloor,
    PruneFloor,                                                     \* traits
    KbFiles, Rebuilds, Docs, MaxBackfills,                          \* store
    Full, FloorScore, RecallBoost, Threshold, Cooling, DecayTime    \* decay

ASSUME TelegramAssumption ==
    /\ MaxUpdates \in Nat /\ MaxLives \in Nat \ {0} /\ ReplyRoom \in Nat
    /\ Dispatched \subseteq 1 .. MaxUpdates
    /\ \A u \in 1 .. MaxUpdates : u # None
ASSUME CanvasAssumption == MaxFrames \in Nat /\ MaxTime \in Nat /\ CanvasCapacity \in Nat \ {0}
ASSUME IndexAssumption == MaxInstances \in Nat
ASSUME BucketAssumption ==
    /\ Minute \in Nat \ {0} /\ GroupPerMin \in Nat /\ SenderPerMin \in Nat
    /\ StaleAfter \in Nat /\ StaleAfter >= Minute /\ BucketTime \in Nat
ASSUME SessionAssumption == KeepLast \in Nat
ASSUME PersonaAssumption ==
    MaxFatigue \in Nat /\ RECENT_TOPICS_CAP \in Nat /\ Day \in Nat \ {0} /\ MaxHours \in Nat
ASSUME TraitsAssumption ==
    /\ Readings \subseteq Int /\ TraitFloor \in 0 .. 10
    /\ None \notin [id : Nat, value : TraitValues, confidence : 0 .. 10, first : Nat, last : Nat,
                    sessions : Seq(Sessions)]
ASSUME StoreAssumption ==
    /\ KbFiles \in Seq({KbFiles[i] : i \in DOMAIN KbFiles})
    /\ \A i \in DOMAIN KbFiles :
          KbFiles[i].pieces \in Seq({KbFiles[i].pieces[j] : j \in DOMAIN KbFiles[i].pieces})
ASSUME DecayAssumption == Full \in Nat /\ DecayTime \in Nat

VARIABLES
    machine,
    latest, confirmed, response, life, stopping, poller, offset, batch, handler, replies,
    sender, outgoing, takes, sends, gone,
    now, open, expires, frames, janitor, reaped, stream, canvas_joined, position, holds,
    pipe, told,
    file, entry, loaded, keys, dirty, wake, saver, client, using, marks, sweeper, victim,
    failed, excused,
    version, schema, nodes, rows, migration_at, current, goal, initially, lowered, crossed,
    time, state, unswept, taken,
    session_rows, turn, streamed, number, newest, trimming, history, log, lost, before,
    row, persona_now, persona_at, read, stale, writes, ideal, overlapped, resurrected,
    traits, ids, turns, run, clock, observed, raced,
    kb_files, chunks, lastId, epa, index, saved, rebuild, doc, backfill, backfills, alone,
    kb_clock, faded, listed, prior

Telegram == INSTANCE TelegramChannel WITH Nil <- None
Canvas == INSTANCE Canvas WITH joined <- canvas_joined, Capacity <- CanvasCapacity
Index == INSTANCE IndexCache
Migration == INSTANCE SchemaMigration WITH at <- migration_at
Bucket == INSTANCE TokenBucket WITH MaxTime <- BucketTime
Session == INSTANCE ChatSession WITH rows <- session_rows
Persona == INSTANCE PersonaStore WITH
    now <- persona_now, at <- persona_at, Null <- None, Runs <- Distillations,
    Values <- TraitValues, Floor <- TraitFloor
Kb == INSTANCE KnowledgeBase WITH
    files <- kb_files, clock <- kb_clock, Source <- KbFiles, Null <- None,
    MaxTime <- DecayTime

telegramVars ==
    <<latest, confirmed, response, life, stopping, poller, offset, batch, handler, replies,
      sender, outgoing, takes, sends, gone>>
canvasVars ==
    <<now, open, expires, frames, janitor, reaped, stream, canvas_joined, position, holds,
      pipe, told>>
indexVars ==
    <<file, entry, loaded, keys, dirty, wake, saver, client, using, marks, sweeper, victim,
      failed, excused>>
migrationVars ==
    <<version, schema, nodes, rows, migration_at, current, goal, initially, lowered, crossed>>
bucketVars == <<time, state, unswept, taken>>
sessionVars ==
    <<session_rows, turn, streamed, number, newest, trimming, history, log, lost, before>>
personaVars ==
    <<row, persona_now, persona_at, read, stale, writes, ideal, overlapped, resurrected>>
traitsVars == <<traits, ids, turns, run, clock, observed, raced>>
storeVars ==
    <<kb_files, chunks, lastId, epa, index, saved, rebuild, doc, backfill, backfills, alone>>
decayVars == <<kb_clock, faded, listed, prior>>
backgroundVars ==
    <<machine, vars, telegramVars, canvasVars, indexVars, migrationVars, bucketVars, sessionVars,
      personaVars, traitsVars, storeVars, decayVars>>

\* Where a machine may start in several states, it does only when it is the chosen one.
BackgroundInit ==
    /\ Init /\ Telegram!Init /\ Canvas!Init /\ Index!Init
    /\ (machine # "migration" => version = 0) /\ Migration!Init
    /\ Bucket!Init /\ Session!Init /\ Persona!Init /\ Kb!Init

\* The machine that was chosen takes a step, and the others stay where they began.
Steps(m) ==
    /\ machine = m /\ UNCHANGED machine
    /\ m # "observer" => UNCHANGED vars
    /\ m # "telegram" => UNCHANGED telegramVars
    /\ m # "canvas" => UNCHANGED canvasVars
    /\ m # "index" => UNCHANGED indexVars
    /\ m # "migration" => UNCHANGED migrationVars
    /\ m # "bucket" => UNCHANGED bucketVars
    /\ m # "session" => UNCHANGED sessionVars
    /\ m # "persona" => UNCHANGED personaVars
    /\ m # "traits" => UNCHANGED traitsVars
    /\ m # "store" => UNCHANGED storeVars
    /\ m # "decay" => UNCHANGED decayVars

BackgroundNext ==
    \/ Steps("observer") /\ Next
    \/ Steps("telegram") /\ Telegram!Next
    \/ Steps("canvas") /\ Canvas!Next
    \/ Steps("index") /\ Index!Next
    \/ Steps("migration") /\ Migration!Next
    \/ Steps("bucket") /\ Bucket!Next
    \/ Steps("session") /\ Session!Next
    \/ Steps("persona") /\ Persona!PersonaNext
    \/ Steps("traits") /\ Persona!TraitsNext
    \/ Steps("store") /\ Kb!StoreNext
    \/ Steps("decay") /\ Kb!DecayNext
=============================================================================
