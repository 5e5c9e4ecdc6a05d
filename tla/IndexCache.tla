------------------------------ MODULE IndexCache ------------------------------
(***************************************************************************)
(* The cache of vector indexes (corlinman-vector, usearch_index.rs): one   *)
(* name of IndexCache, the index loaded for it, and the DebouncedSaver     *)
(* that writes it back.  Clients get the index, add a key under its lock   *)
(* and mark the saver of the name dirty; the sweeper evicts what lies      *)
(* idle, and an insert replaces what is there.  Only tests call this code  *)
(* so far.                                                                 *)
(*                                                                         *)
(* An index is a set of keys, a load or a save one step.  Every load makes *)
(* an instance of its own, with a saver task of its own.                   *)
(***************************************************************************)
EXTENDS Integers, FiniteSets

CONSTANTS
    Clients,        \* each adds one key, its own name
    MaxInstances,   \* bound: how often the file is loaded
    MaxFailures     \* bound: how many saves fail

Instances == 1 .. MaxInstances

VARIABLES
    file,           \* the keys in the .usearch file
    entry,          \* the instance in the map, or 0
    loaded,         \* how many instances there are
    keys, dirty,    \* instance -> its keys, its dirty flag
    wake,           \* instance -> whether a wake-up is queued
    saver,          \* instance -> where its saver task is
    client, using,  \* client -> where it is, and the instance it got
    marks,          \* client -> the instance whose saver it marks
    sweeper, victim,
    failed,
    excused         \* a save failed, two instances were alive at once, or a key went
                    \* into an instance that had left the map (history)

indexVars == <<file, entry, loaded, keys, dirty, wake, saver>>
clientVars == <<client, using, marks>>
sweepVars == <<sweeper, victim>>
cacheVars == <<indexVars, clientVars, sweepVars, failed, excused>>

Init ==
    /\ file = {} /\ entry = 0 /\ loaded = 0
    /\ keys = [i \in Instances |-> {}]
    /\ dirty = [i \in Instances |-> FALSE]
    /\ wake = [i \in Instances |-> FALSE]
    /\ saver = [i \in Instances |-> "none"]
    /\ client = [c \in Clients |-> "begin"]
    /\ using = [c \in Clients |-> 0]
    /\ marks = [c \in Clients |-> 0]
    /\ sweeper = "idle" /\ victim = 0
    /\ failed = 0 /\ excused = FALSE

Alive(i) == saver[i] \notin {"none", "ended"} \/ i = victim

-----------------------------------------------------------------------------
(* A client: IndexCache::get, UsearchIndex::add, DebouncedSaver::mark_dirty. *)

GetCached(c) ==
    /\ client[c] = "begin" /\ entry # 0
    /\ using' = [using EXCEPT ![c] = entry]
    /\ client' = [client EXCEPT ![c] = "got"]
    /\ UNCHANGED <<indexVars, marks, sweepVars, failed, excused>>

\* Not cached: the file is loaded before the map is touched.
Load(c) ==
    /\ client[c] = "begin" /\ entry = 0 /\ loaded < MaxInstances
    /\ loaded' = loaded + 1
    /\ keys' = [keys EXCEPT ![loaded'] = file]
    /\ using' = [using EXCEPT ![c] = loaded']
    /\ client' = [client EXCEPT ![c] = "loaded"]
    /\ excused' = (excused \/ (\E i \in Instances : Alive(i))
                           \/ (\E d \in Clients : client[d] = "loaded"))
    /\ UNCHANGED <<file, entry, dirty, wake, saver, marks, sweepVars, failed>>

\* insert: an entry that got there first is taken out and its saver cancelled.
Insert(c) ==
    /\ client[c] = "loaded"
    /\ saver' = [i \in Instances |->
        IF i = using[c] THEN "waiting"
        ELSE IF i = entry /\ saver[i] # "ended" THEN "cancelled" ELSE saver[i]]
    /\ entry' = using[c]
    /\ excused' = (excused \/ entry # 0)
    /\ client' = [client EXCEPT ![c] = "got"]
    /\ UNCHANGED <<file, loaded, keys, dirty, wake, using, marks, sweepVars, failed>>

Add(c) ==
    /\ client[c] = "got"
    /\ keys' = [keys EXCEPT ![using[c]] = @ \cup {c}]
    /\ excused' = (excused \/ entry # using[c])
    /\ client' = [client EXCEPT ![c] = "added"]
    /\ UNCHANGED <<file, entry, loaded, dirty, wake, saver, using, marks, sweepVars, failed>>

\* saver(name) looks the name up again.
MarkDirty(c) ==
    /\ client[c] = "added" /\ entry # 0
    /\ dirty' = [dirty EXCEPT ![entry] = TRUE]
    /\ marks' = [marks EXCEPT ![c] = entry]
    /\ excused' = (excused \/ entry # using[c])
    /\ client' = [client EXCEPT ![c] = "waking"]
    /\ UNCHANGED <<file, entry, loaded, keys, wake, saver, using, sweepVars, failed>>

NoSaver(c) ==
    /\ client[c] = "added" /\ entry = 0
    /\ excused' = TRUE
    /\ client' = [client EXCEPT ![c] = "done"]
    /\ UNCHANGED <<indexVars, using, marks, sweepVars, failed>>

\* Mutant: a task at work is left alone, it will see the flag.
WakeSaver_idle(c) ==
    /\ client[c] = "waking"
    /\ wake' = [wake EXCEPT ![marks[c]] = saver[marks[c]] = "waiting"]
    /\ client' = [client EXCEPT ![c] = "done"]
    /\ UNCHANGED <<file, entry, loaded, keys, dirty, saver, using, marks, sweepVars, failed, excused>>

\* A second wake-up is dropped.
WakeSaver(c) ==
    /\ client[c] = "waking"
    /\ wake' = [wake EXCEPT ![marks[c]] = TRUE]
    /\ client' = [client EXCEPT ![c] = "done"]
    /\ UNCHANGED <<file, entry, loaded, keys, dirty, saver, using, marks, sweepVars, failed, excused>>

-----------------------------------------------------------------------------
(* The saver task.                                                         *)

SaverWakes(i) ==
    /\ saver[i] = "waiting" /\ wake[i]
    /\ wake' = [wake EXCEPT ![i] = FALSE]
    /\ saver' = [saver EXCEPT ![i] = "debounce"]
    /\ UNCHANGED <<file, entry, loaded, keys, dirty, clientVars, sweepVars, failed, excused>>

\* The flag is taken down before the save; a cancelled task saves once more.
DebounceEnds(i) ==
    /\ saver[i] \in {"debounce", "cancelled"}
    /\ dirty' = [dirty EXCEPT ![i] = FALSE]
    /\ saver' = [saver EXCEPT ![i] =
        IF dirty[i] THEN IF @ = "debounce" THEN "saving" ELSE "last"
        ELSE IF @ = "debounce" THEN "waiting" ELSE "ended"]
    /\ UNCHANGED <<file, entry, loaded, keys, wake, clientVars, sweepVars, failed, excused>>

\* save_now, for the task or for the sweeper's flush.
SaveNow(i) ==
    \/ file' = keys[i] /\ UNCHANGED <<failed, excused>>
    \/ failed < MaxFailures /\ failed' = failed + 1 /\ excused' = TRUE /\ UNCHANGED file

Save(i) ==
    /\ saver[i] \in {"saving", "last"}
    /\ SaveNow(i)
    /\ saver' = [saver EXCEPT ![i] = IF @ = "saving" THEN "waiting" ELSE "ended"]
    /\ UNCHANGED <<entry, loaded, keys, dirty, wake, clientVars, sweepVars>>

-----------------------------------------------------------------------------
(* sweep_once and evict.                                                   *)

\* Idle when it is listed; it may have been touched again when it is evicted.
ListStale ==
    /\ sweeper = "idle" /\ entry # 0
    /\ sweeper' = "listed"
    /\ UNCHANGED <<indexVars, clientVars, victim, failed, excused>>

RemoveEntry ==
    /\ sweeper = "listed"
    /\ victim' = entry /\ entry' = 0
    /\ sweeper' = IF entry = 0 THEN "idle" ELSE "removed"
    /\ UNCHANGED <<file, loaded, keys, dirty, wake, saver, clientVars, failed, excused>>

Flush ==
    /\ sweeper = "removed"
    /\ sweeper' = "flushing" /\ dirty' = [dirty EXCEPT ![victim] = FALSE]
    /\ UNCHANGED <<file, entry, loaded, keys, wake, saver, clientVars, victim, failed, excused>>

FlushSaves ==
    /\ sweeper = "flushing"
    /\ SaveNow(victim)
    /\ sweeper' = "flushed"
    /\ UNCHANGED <<entry, loaded, keys, dirty, wake, saver, clientVars, victim>>

\* A task that is in the middle of a save finishes it first.
CancelSaver ==
    /\ sweeper = "flushed" /\ saver[victim] \notin {"saving", "last"}
    /\ saver' = [saver EXCEPT ![victim] = IF @ = "ended" THEN @ ELSE "cancelled"]
    /\ sweeper' = "idle" /\ victim' = 0
    /\ UNCHANGED <<file, entry, loaded, keys, dirty, wake, clientVars, failed, excused>>

Next ==
    \/ \E c \in Clients :
        GetCached(c) \/ Load(c) \/ Insert(c) \/ Add(c) \/ MarkDirty(c) \/ NoSaver(c) \/ WakeSaver(c)
    \/ \E i \in Instances : SaverWakes(i) \/ DebounceEnds(i) \/ Save(i)
    \/ ListStale \/ RemoveEntry \/ Flush \/ FlushSaves \/ CancelSaver

Spec == Init /\ [][Next]_cacheVars

-----------------------------------------------------------------------------
TypeOK ==
    /\ file \subseteq Clients /\ entry \in 0 .. loaded
    /\ keys \in [Instances -> SUBSET Clients]
    /\ saver \in [Instances ->
        {"none", "waiting", "debounce", "saving", "cancelled", "last", "ended"}]
    /\ client \in [Clients -> {"begin", "loaded", "got", "added", "waking", "done"}]
    /\ sweeper \in {"idle", "listed", "removed", "flushing", "flushed"}

\* A flag that is up has a task on its way to it, however marks and saves cross: no
\* wake-up is lost (mark_dirty, DebouncedSaver::new).
DirtyIsSeen ==
    \A i \in Instances : dirty[i] /\ saver[i] \notin {"none", "ended"} =>
        \/ wake[i] \/ saver[i] \in {"debounce", "cancelled"}
        \/ \E c \in Clients : client[c] = "waking" /\ marks[c] = i

\* A key whose mark has returned is in the file or in an index that is going to be
\* saved, through evictions and reloads: it takes a failed save, or an index that was
\* used after it left the map or loaded twice, to lose one (DebouncedSaver, evict).
MarkedKeysLast ==
    ~excused => \A c \in Clients : client[c] = "done" =>
        \/ c \in file
        \/ \E i \in Instances : c \in keys[i] /\
            \/ dirty[i] \/ saver[i] \in {"saving", "last"}
            \/ i = victim /\ sweeper \in {"removed", "flushing"}
=============================================================================
