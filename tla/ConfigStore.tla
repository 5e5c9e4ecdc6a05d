----------------------------- MODULE ConfigStore -----------------------------
(***************************************************************************)
(* The gateway's configuration: the file, the snapshot every reader shares,*)
(* the admin routes that write both (routes/admin/config.rs, providers.rs, *)
(* channels.rs), the operator's editor, and the reloads that bring the     *)
(* file into the snapshot (config_watcher.rs).                             *)
(*                                                                         *)
(* A configuration is the set of edits it contains; an empty file parses   *)
(* as the defaults, which is the empty set and validates.  All writers     *)
(* share one temporary file, so files are inodes, named by who made them.  *)
(* What a post does after it stored the snapshot (the gate's rules, the    *)
(* Python drop) is left out: nothing below reads it.                       *)
(***************************************************************************)
CONSTANTS
    Writers,    \* admin requests; also the edit each one makes
    Posts,      \* those among them that POST /admin/config, the one route that validates
    Edits,      \* saves of the operator's editor
    Faulty,     \* the edits that validate_report finds an error in
    Undiffed,   \* the edits among them in sections that SECTIONS does not list
    Reloaders,  \* who reloads: the file watcher, SIGHUPs and admin requests
    Watcher,
    Base,       \* what the file says at boot
    Mixed,      \* the content of a file that two writers wrote over each other
    Nil

Inodes == {Base} \cup Writers \cup Edits
Configs == SUBSET Inodes

VARIABLES
    live,       \* the inode at the path
    tmp,        \* the inode at <path>.new, if there is one
    content,    \* what each inode holds
    snapshot,   \* the ArcSwap shared by the watcher and the admin routes
    event,      \* a file event is queued for the watcher
    lock,       \* who holds reload_lock
    at,         \* where each writer and each reloader is
    draft,      \* the configuration each of them is about to publish
    fd,         \* the inode each writer opened
    overtaken   \* a writer published what the file no longer said (history)

fileVars == <<live, tmp, content>>
configVars == <<fileVars, snapshot, event, lock, at, draft, fd, overtaken>>

Init ==
    /\ live = Base /\ tmp = Nil
    /\ content = [i \in Inodes |-> IF i = Base THEN {Base} ELSE Nil]
    /\ snapshot = {Base}
    /\ event = FALSE /\ lock = Nil
    /\ at = [a \in Writers \cup Reloaders |-> "idle"]
    /\ draft = [a \in Writers \cup Reloaders |-> {}]
    /\ fd = [w \in Writers |-> Nil]
    /\ overtaken = FALSE

Goes(a, from, to) == at[a] = from /\ at' = [at EXCEPT ![a] = to]

\* A handler or a reload is over and drops its draft.
Ends(a, from) ==
    /\ Goes(a, from, IF a = Watcher THEN "idle" ELSE "done")
    /\ draft' = [draft EXCEPT ![a] = {}]

\* What a reload takes: a file that can be parsed and in which validate_report finds no error.
Sound(c) == c # Mixed /\ c \cap Faulty = {}

\* A configuration with one edit more, and with the faults of earlier ones mended or not.
Edited(c, e) == {c \cup {e}, (c \ Faulty) \cup {e}}

\* Both can be parsed and agree on every section diff_sections looks at.
SameSections(c, d) == Mixed \notin {c, d} /\ c \ Undiffed = d \ Undiffed

-----------------------------------------------------------------------------
(* An admin request: read the snapshot, write the file, store the snapshot.*)

\* A post that is refused changes nothing, so that only those that go on are here.
LoadConfig(w) ==
    /\ Goes(w, "idle", "loaded")
    /\ \E c \in Edited(snapshot, w) :
        /\ w \in Posts => Sound(c)
        /\ draft' = [draft EXCEPT ![w] = c]
    /\ UNCHANGED <<fileVars, snapshot, event, lock, fd, overtaken>>

\* fs::write opens <path>.new, which truncates it, and then writes.
OpenTmp(w) ==
    /\ Goes(w, "loaded", "opened")
    /\ tmp' = IF tmp = Nil THEN w ELSE tmp
    /\ content' = [content EXCEPT ![tmp'] = {}]
    /\ fd' = [fd EXCEPT ![w] = tmp']
    /\ UNCHANGED <<live, snapshot, event, lock, draft, overtaken>>

\* Over another's content the longer one keeps its tail.
WriteTmp(w) ==
    /\ Goes(w, "opened", "written")
    /\ content' \in {[content EXCEPT ![fd[w]] = c] :
                        c \in {draft[w]} \cup (IF content[fd[w]] = {} THEN {} ELSE {Mixed})}
    /\ event' = (event \/ fd[w] = live)
    /\ UNCHANGED <<live, tmp, snapshot, lock, draft, fd, overtaken>>

WriteFails(w) ==
    /\ Ends(w, "opened")
    /\ UNCHANGED <<fileVars, snapshot, event, lock, fd, overtaken>>

\* What is at <path>.new by now, which another request may have opened.
RenameTmp(w) ==
    /\ tmp # Nil
    /\ Goes(w, "written", "renamed")
    /\ live' = tmp /\ tmp' = Nil
    /\ event' = TRUE
    /\ UNCHANGED <<content, snapshot, lock, draft, fd, overtaken>>

RenameFails(w) ==
    /\ Ends(w, "written")
    /\ UNCHANGED <<fileVars, snapshot, event, lock, fd, overtaken>>

Store(w) ==
    /\ Ends(w, "renamed")
    /\ snapshot' = draft[w]
    /\ overtaken' = ~SameSections(draft[w], content[live])
    /\ UNCHANGED <<fileVars, event, lock, fd>>

\* The client hangs up while the handler waits for the file system.  A write that
\* was begun runs to its end, as another thread does it.
Abandon(w) ==
    /\ \/ Ends(w, "loaded") \/ Ends(w, "written") \/ Ends(w, "renamed")
    /\ UNCHANGED <<fileVars, snapshot, event, lock, fd, overtaken>>

\* The editor saves what the file says and one edit more, by a rename of its own.
EditorSaves(e) ==
    /\ content[e] = Nil
    /\ \E c \in Edited(IF content[live] = Mixed THEN {Base} ELSE content[live], e) :
        content' = [content EXCEPT ![e] = c]
    /\ live' = e /\ event' = TRUE
    /\ UNCHANGED <<tmp, snapshot, lock, at, draft, fd, overtaken>>

-----------------------------------------------------------------------------
(* A reload.                                                               *)

\* The debounce ends: all events so far are drained.
TakeEvents ==
    /\ event
    /\ Goes(Watcher, "idle", "locking")
    /\ event' = FALSE
    /\ UNCHANGED <<fileVars, snapshot, lock, draft, fd, overtaken>>

RequestReload(r) ==
    /\ r # Watcher
    /\ Goes(r, "idle", "locking")
    /\ UNCHANGED <<fileVars, snapshot, event, lock, draft, fd, overtaken>>

LockReload(r) ==
    /\ lock = Nil
    /\ Goes(r, "locking", "reading")
    /\ lock' = r
    /\ UNCHANGED <<fileVars, snapshot, event, draft, fd, overtaken>>

\* The file cannot be parsed, or validate_report finds an error in it: no swap.
LoadFails(r) ==
    /\ ~Sound(content[live])
    /\ Ends(r, "reading")
    /\ lock' = Nil
    /\ UNCHANGED <<fileVars, snapshot, event, fd, overtaken>>

LoadFromPath(r) ==
    /\ Sound(content[live])
    /\ Goes(r, "reading", "diffing")
    /\ draft' = [draft EXCEPT ![r] = content[live]]
    /\ UNCHANGED <<fileVars, snapshot, event, lock, fd, overtaken>>

IsNoop(r) ==
    /\ SameSections(snapshot, draft[r])
    /\ Ends(r, "diffing")
    /\ lock' = Nil
    /\ overtaken' = FALSE
    /\ UNCHANGED <<fileVars, snapshot, event, fd>>

Differs(r) ==
    /\ ~SameSections(snapshot, draft[r])
    /\ Goes(r, "diffing", "swapping")
    /\ UNCHANGED <<fileVars, snapshot, event, lock, draft, fd, overtaken>>

Swap(r) ==
    /\ Goes(r, "swapping", "announcing")
    /\ snapshot' = draft[r]
    /\ overtaken' = FALSE
    /\ UNCHANGED <<fileVars, event, lock, draft, fd>>

Announce(r) ==
    /\ Ends(r, "announcing")
    /\ lock' = Nil
    /\ UNCHANGED <<fileVars, snapshot, event, fd, overtaken>>

WriterStep(w) ==
    \/ LoadConfig(w) \/ OpenTmp(w) \/ WriteTmp(w) \/ WriteFails(w)
    \/ RenameTmp(w) \/ RenameFails(w) \/ Store(w) \/ Abandon(w)

ReloadStep(r) ==
    \/ RequestReload(r) \/ LockReload(r) \/ LoadFails(r) \/ LoadFromPath(r)
    \/ IsNoop(r) \/ Differs(r) \/ Swap(r) \/ Announce(r)

Next ==
    \/ \E w \in Writers : WriterStep(w)
    \/ \E e \in Edits : EditorSaves(e)
    \/ TakeEvents
    \/ \E r \in Reloaders : ReloadStep(r)

Spec == Init /\ [][Next]_configVars

-----------------------------------------------------------------------------
TypeOK ==
    /\ live \in Inodes /\ tmp \in Inodes \cup {Nil} /\ live # tmp
    /\ content \in [Inodes -> Configs \cup {Mixed, Nil}]
    /\ content[live] # Nil
    /\ snapshot \in Configs
    /\ lock \in Reloaders \cup {Nil}
    /\ at \in [Writers \cup Reloaders ->
                 {"idle", "loaded", "opened", "written", "renamed", "locking", "reading",
                  "diffing", "swapping", "announcing", "done"}]
    /\ draft \in [Writers \cup Reloaders -> Configs]
    /\ fd \in [Writers -> Inodes \cup {Nil}]
    /\ {event, overtaken} \subseteq BOOLEAN

Quiet ==
    /\ ~event
    /\ \A w \in Writers : at[w] \in {"idle", "loaded", "opened", "done"}
    /\ \A r \in Reloaders : at[r] \in {"idle", "done"}

\* When no event and no reload is left, the snapshot is what the file says, however
\* saves, admin requests and reloads raced: only a request that stores its snapshot
\* after the file has moved on keeps them apart, or a file that no reload takes, because it
\* cannot be parsed or validate_report finds an error in it (trigger_reload, post_config).
SnapshotFollowsFile ==
    Quiet /\ ~overtaken /\ Sound(content[live]) => SameSections(snapshot, content[live])

\* Whatever is written into the file and read from it in between, what validate_report refuses
\* comes into the snapshot by an admin request that does not validate, or was there at boot:
\* no reload and no POST /admin/config brings it in (trigger_reload, post_config).
FaultsAreUnchecked == snapshot \cap Faulty \subseteq {Base} \cup (Writers \ Posts)

\* The file is found empty or mixed only when two requests have opened the same <path>.new,
\* be it that what a third one opened is put there by them; one request at a time replaces
\* the file whole (atomic_write_toml).
TornByTwoWriters ==
    content[live] \in {{}, Mixed} =>
        \E v, w \in Writers : v # w /\ fd[v] = fd[w] /\ fd[v] # Nil
=============================================================================
