---------------------------- MODULE KnowledgeBase ----------------------------
(***************************************************************************)
(* What fills the knowledge base: `corlinman vector rebuild` (vector.rs),  *)
(* the memory host that writes a file row and then a chunk                 *)
(* (local_sqlite.rs), and the backfill of EPA rows (epa_backfill.py); and  *)
(* how chunks fade (decay.rs).  SQLite runs one statement at a time, with  *)
(* foreign keys on; the vector index is a file that a rebuild writes anew. *)
(***************************************************************************)
EXTENDS Integers, Sequences, SequencesExt

CONSTANTS
    Source,         \* the markdown files, in order: [path, pieces]
    Rebuilds,       \* runs of the command, numbered in the order they begin
    Docs,           \* what is upserted by memory hosts
    MaxBackfills,
    Null

VARIABLES
    files,          \* [id, path]
    chunks,         \* [id, file, text]
    lastId,         \* AUTOINCREMENT: of files and of chunks
    epa,            \* rows of chunk_epa: [id, of], of being the text it was made from
    index,          \* knowledge_base.usearch: [key, of], or Null
    saved,          \* knowledge_base.usearch.new
    rebuild,
    doc,            \* where each upsert is
    backfill,
    backfills,
    alone           \* no statement of another came between those of this rebuild (history)

baseVars ==
    <<files, chunks, lastId, epa, index, saved, rebuild, doc, backfill, backfills, alone>>

\* How many files it has begun, and how many pieces of the last of them are stored.
Waiting == [at |-> "idle", file |-> 0, piece |-> 0, id |-> 0, index |-> {}]
Loaded == [at |-> "idle", rows |-> {}]

StoreInit ==
    /\ files = {} /\ chunks = {} /\ lastId = [files |-> 0, chunks |-> 0]
    /\ epa = {} /\ index = Null /\ saved = Null
    /\ rebuild = [r \in Rebuilds |-> Waiting]
    /\ doc = [d \in Docs |-> [at |-> "idle", file |-> 0]]
    /\ backfill = Loaded /\ backfills = 0
    /\ alone = [r \in Rebuilds |-> TRUE]

-----------------------------------------------------------------------------
(* Statements.                                                             *)

NextChunk == lastId.chunks + 1

insert_file(path) ==
    /\ files' = files \cup {[id |-> lastId.files + 1, path |-> path]}
    /\ lastId' = [lastId EXCEPT !.files = @ + 1]
PathFree(path) == \A f \in files : f.path # path
insert_chunk(file, text) ==
    /\ chunks' = chunks \cup {[id |-> NextChunk, file |-> file, text |-> text]}
    /\ lastId' = [lastId EXCEPT !.chunks = NextChunk]
FileThere(file) == \E f \in files : f.id = file

\* ON DELETE CASCADE.
Cascade(left) ==
    /\ chunks' = {c \in chunks : c.file \in {f.id : f \in left.files} /\ c.id \notin left.without}
    /\ files' = left.files
    /\ epa' = {e \in epa : \E c \in chunks' : c.id = e.id}

-----------------------------------------------------------------------------
(* rebuild --confirm.                                                      *)

At(r, place) == rebuild[r].at = place
Goes(r, place) == rebuild' = [rebuild EXCEPT ![r].at = place]
Over(r, place) == rebuild' = [rebuild EXCEPT ![r] = [Waiting EXCEPT !.at = place]]
Underway(r) == rebuild[r].at \notin {"idle", "done", "failed"}
\* Rows change: no other rebuild is alone.
Disturbs(r) == alone' = [o \in Rebuilds |-> alone[o] /\ (o = r \/ ~Underway(o))]
OthersKeep == UNCHANGED <<doc, backfill, backfills>>

TruncateFiles(r) ==
    /\ At(r, "idle") /\ \A o \in Rebuilds : o < r => ~At(o, "idle")
    /\ Cascade([files |-> {}, without |-> {}])
    /\ Goes(r, "rows") /\ Disturbs(r)
    /\ OthersKeep /\ UNCHANGED <<lastId, index, saved>>

Fails(r) == Over(r, "failed")

HasPiece(r) ==
    rebuild[r].file > 0 /\ rebuild[r].piece < Len(Source[rebuild[r].file].pieces)

\* files.path is unique.
FileInserted(r) ==
    LET entry == Source[rebuild[r].file + 1] IN
    /\ At(r, "rows") /\ ~HasPiece(r) /\ rebuild[r].file < Len(Source)
    /\ IF PathFree(entry.path)
       THEN /\ insert_file(entry.path)
            /\ rebuild' = [rebuild EXCEPT ![r].file = @ + 1, ![r].piece = 0, ![r].id = lastId.files + 1]
       ELSE UNCHANGED <<files, lastId>> /\ Fails(r)
    /\ Disturbs(r) /\ OthersKeep /\ UNCHANGED <<chunks, epa, index, saved>>

\* The row, and its vector in an index in memory.
PieceInserted(r) ==
    LET text == Source[rebuild[r].file].pieces[rebuild[r].piece + 1] IN
    /\ At(r, "rows") /\ HasPiece(r)
    /\ IF FileThere(rebuild[r].id)
       THEN /\ insert_chunk(rebuild[r].id, text)
            /\ rebuild' = [rebuild EXCEPT ![r].piece = @ + 1,
                                          ![r].index = @ \cup {[key |-> NextChunk, of |-> text]}]
       ELSE UNCHANGED <<chunks, lastId>> /\ Fails(r)
    /\ Disturbs(r) /\ OthersKeep /\ UNCHANGED <<files, epa, index, saved>>

IndexSaved(r) ==
    /\ At(r, "rows") /\ ~HasPiece(r) /\ rebuild[r].file = Len(Source)
    /\ saved' = rebuild[r].index /\ Goes(r, "rename")
    /\ Disturbs(r) /\ OthersKeep /\ UNCHANGED <<files, chunks, lastId, epa, index>>

\* Another rebuild may have taken the file away.
IndexRenamed(r) ==
    /\ At(r, "rename")
    /\ IF saved = Null THEN Fails(r) /\ UNCHANGED <<index, saved>>
       ELSE Over(r, "done") /\ index' = saved /\ saved' = Null
    /\ Disturbs(r) /\ OthersKeep /\ UNCHANGED <<files, chunks, lastId, epa>>

\* The process is killed, or a statement fails.
RebuildStops(r) ==
    /\ Underway(r) /\ Fails(r)
    /\ OthersKeep /\ UNCHANGED <<files, chunks, lastId, epa, index, saved, alone>>

-----------------------------------------------------------------------------
(* LocalSqliteHost::upsert and delete.                                     *)

DocAt(d, place) == doc[d].at = place
ByAnother == alone' = [o \in Rebuilds |-> alone[o] /\ ~Underway(o)]

\* A path that no other upsert has.
UpsertFile(d) ==
    /\ DocAt(d, "idle")
    /\ insert_file(d) /\ doc' = [doc EXCEPT ![d] = [at |-> "chunk", file |-> lastId.files + 1]]
    /\ ByAnother /\ UNCHANGED <<chunks, epa, index, saved, rebuild, backfill, backfills>>

\* When it fails the file row stays.
UpsertChunk(d) ==
    /\ DocAt(d, "chunk")
    /\ IF FileThere(doc[d].file)
       THEN insert_chunk(doc[d].file, d) /\ doc' = [doc EXCEPT ![d] = [at |-> "stored", file |-> 0]]
       ELSE UNCHANGED <<chunks, lastId>> /\ doc' = [doc EXCEPT ![d] = [at |-> "failed", file |-> 0]]
    /\ ByAnother /\ UNCHANGED <<files, epa, index, saved, rebuild, backfill, backfills>>
UpsertFails(d) ==
    /\ DocAt(d, "chunk") /\ doc' = [doc EXCEPT ![d] = [at |-> "failed", file |-> 0]]
    /\ UNCHANGED <<files, chunks, lastId, epa, index, saved, rebuild, backfill, backfills, alone>>

\* The file row stays here too.
delete(d) ==
    /\ DocAt(d, "stored") /\ doc' = [doc EXCEPT ![d].at = "deleted"]
    /\ Cascade([files |-> files, without |-> {c.id : c \in {x \in chunks : x.text = d}}])
    /\ ByAnother /\ UNCHANGED <<lastId, index, saved, rebuild, backfill, backfills>>

-----------------------------------------------------------------------------
(* EpaBackfiller.run: rows are loaded, and written in batches of one.      *)

_load_chunks ==
    /\ backfill.at = "idle" /\ backfills < MaxBackfills /\ backfills' = backfills + 1
    /\ backfill' = [at |-> "writing",
                    rows |-> {[id |-> c.id, of |-> c.text] : c \in {x \in chunks : x.text \notin Docs}}]
    /\ UNCHANGED <<files, chunks, lastId, epa, index, saved, rebuild, doc, alone>>

EpaRow(row) == {e \in epa : e.id # row.id} \cup {row}

\* In the order of their ids.  A chunk that is gone fails its batch and ends the run.
FirstLoaded == CHOOSE row \in backfill.rows : \A o \in backfill.rows : row.id <= o.id

_flush_batch ==
    /\ backfill.at = "writing"
    /\ IF backfill.rows = {} \/ \A c \in chunks : c.id # FirstLoaded.id
       THEN backfill' = Loaded /\ UNCHANGED epa
       ELSE /\ epa' = EpaRow(FirstLoaded)
            /\ backfill' = [backfill EXCEPT !.rows = @ \ {FirstLoaded}]
    /\ UNCHANGED <<files, chunks, lastId, index, saved, rebuild, doc, backfills, alone>>

StoreNext ==
    \/ \E r \in Rebuilds :
        \/ TruncateFiles(r) \/ FileInserted(r) \/ PieceInserted(r)
        \/ IndexSaved(r) \/ IndexRenamed(r) \/ RebuildStops(r)
    \/ \E d \in Docs : UpsertFile(d) \/ UpsertChunk(d) \/ UpsertFails(d) \/ delete(d)
    \/ _load_chunks \/ _flush_batch

-----------------------------------------------------------------------------
(* How a chunk fades.  Ages are counted in half lives, scores in parts of  *)
(* Full.                                                                   *)

CONSTANTS Full, FloorScore, RecallBoost, Threshold, Cooling, MaxTime

VARIABLES
    clock,          \* the wall clock, which may be set back
    faded,          \* [ns, decay_score, last_recalled_at, consolidated_at] of one chunk
    listed,         \* it is a candidate that the consolidation job filed
    prior           \* what the applier read before it promoted the chunk, or Null

decayVars == <<clock, faded, listed, prior>>

DecayInit ==
    /\ clock = 0
    /\ faded = [ns |-> "general", decay_score |-> Full, last_recalled_at |-> Null,
                created_at |-> 0, consolidated_at |-> Null]
    /\ listed = FALSE /\ prior = Null

ClockMoves(t) == clock' = t /\ t # clock /\ UNCHANGED <<faded, listed, prior>>

AtMost(a, b) == IF a < b THEN a ELSE b
AtLeast(a, b) == IF a > b THEN a ELSE b

Age(now, row) ==
    AtLeast(0, now - (IF row.last_recalled_at = Null THEN row.created_at ELSE row.last_recalled_at))

apply_decay(now, row) ==
    LET age == Age(now, row) IN
    IF row.ns = "consolidated" THEN row.decay_score
    ELSE AtLeast(FloorScore, IF age < 0 THEN row.decay_score * 2^(0 - age) ELSE row.decay_score \div 2^age)

\* record_recall passes a consolidated chunk over.
record_recall ==
    /\ faded.ns # "consolidated"
    /\ faded' = [faded EXCEPT !.last_recalled_at = clock, !.decay_score = AtMost(Full, @ + RecallBoost)]
    /\ UNCHANGED <<clock, listed, prior>>
reset_chunk_decay ==
    /\ faded' = [faded EXCEPT !.last_recalled_at = clock, !.decay_score = Full]
    /\ UNCHANGED <<clock, listed, prior>>

list_promotion_candidates ==
    /\ ~listed /\ faded.ns # "consolidated" /\ faded.decay_score >= Threshold
    /\ faded.last_recalled_at # Null /\ faded.last_recalled_at <= clock - Cooling
    /\ listed' = TRUE /\ UNCHANGED <<clock, faded, prior>>

promote_to_consolidated ==
    /\ listed /\ prior = Null /\ prior' = faded
    /\ faded' = [faded EXCEPT !.ns = "consolidated", !.decay_score = Full,
                              !.consolidated_at = IF @ = Null THEN clock ELSE @]
    /\ UNCHANGED <<clock, listed>>
demote_from_consolidated ==
    /\ prior # Null /\ prior' = Null /\ listed' = FALSE
    /\ faded' = [faded EXCEPT !.ns = prior.ns, !.decay_score = prior.decay_score,
                              !.consolidated_at = prior.consolidated_at]
    /\ UNCHANGED clock

DecayNext ==
    \/ \E t \in 0..MaxTime : ClockMoves(t)
    \/ record_recall \/ reset_chunk_decay
    \/ list_promotion_candidates \/ promote_to_consolidated \/ demote_from_consolidated

-----------------------------------------------------------------------------
Init == StoreInit /\ DecayInit
Next == (StoreNext /\ UNCHANGED decayVars) \/ (DecayNext /\ UNCHANGED baseVars)
vars == <<baseVars, decayVars>>
Spec == Init /\ [][Next]_vars

AllTexts == Docs \cup UNION {ToSet(Source[i].pieces) : i \in DOMAIN Source}

TypeOK ==
    /\ \A c \in chunks : c.id \in 1..lastId.chunks /\ FileThere(c.file) /\ c.text \in AllTexts
    /\ \A e \in epa : \E c \in chunks : c.id = e.id
    /\ faded.decay_score \in 0..Full /\ clock \in 0..MaxTime

\* However rebuilds, upserts, deletions and backfills overlap or break off, a vector of the
\* index that names a chunk is that chunk's, of whichever index is on disk, and so is a
\* chunk's EPA row (rebuild, _flush_batch): an id never comes back for another text.
DerivedIsItsOwn ==
    /\ index # Null => \A v \in index, c \in chunks : v.key = c.id => v.of = c.text
    /\ \A e \in epa, c \in chunks : e.id = c.id => e.of = c.text

\* A rebuild that reports success and was not disturbed leaves an index with exactly the
\* chunks that are stored, and those are the source's (rebuild).
RebuildAgrees ==
    \A r \in Rebuilds : At(r, "rename") /\ alone[r] =>
        /\ saved = {[key |-> c.id, of |-> c.text] : c \in chunks}
        /\ {c.text : c \in chunks} = UNION {ToSet(Source[i].pieces) : i \in DOMAIN Source}

\* Whatever the clock does, a chunk is never worth more than was stored or the floor, is
\* worth no more as it ages, and a recall never makes it worth less (apply_decay,
\* record_recall).
FadesAndRevives ==
    LET worth(t) == apply_decay(t, faded)
        recalled == [faded EXCEPT !.last_recalled_at = clock, !.decay_score = AtMost(Full, @ + RecallBoost)] IN
    /\ \A t \in 0..MaxTime : worth(t) <= AtLeast(FloorScore, faded.decay_score)
    /\ \A t \in 0..MaxTime : \A u \in t..MaxTime : worth(u) <= worth(t)
    /\ faded.ns # "consolidated" => apply_decay(clock, recalled) >= worth(clock)
=============================================================================
