---------------------------- MODULE PluginRegistry ----------------------------
(***************************************************************************)
(* The plugin registry and its hot reload (corlinman-plugins, discovery.rs,*)
(* registry.rs and registry/watcher.rs).  Manifests lie at places, one     *)
(* search root each, and of two that claim a name the higher root wins.    *)
(* The registry is filled at boot; the watcher is installed later, wakes   *)
(* the reloader, which waits out a burst of events, walks the places one   *)
(* after another while they go on changing, and writes what it found name  *)
(* by name.  Where no watcher can be installed a ticker wakes it.  A       *)
(* manifest is its name and a version.                                     *)
(***************************************************************************)
EXTENDS Integers, SequencesExt, FiniteSetsExt

CONSTANTS
    Places,     \* a sequence, in the order of discovery and of rank
    Names,
    MaxEdits,   \* how often the files change
    Nil, Broken

VARIABLES
    disk,       \* what lies at each place: nothing, a broken file or a manifest
    entries,    \* the registry: name -> place and version
    watch,      \* whether the watcher is installed, or the ticker stands in
    unseen,     \* a change the watcher has not told of
    event,      \* the reloader's channel is not empty
    reloader,   \* where the reloader is
    walked,     \* what discovery has found so far, place by place
    removals,   \* the names apply_refresh is still to remove
    upserts,    \* the entries it is still to insert
    edits,
    blind,      \* a change, or a discovery that panicked, nobody was told of (history)
    touched     \* the places that changed since discovery last began (history)

diskVars == <<disk, unseen, edits>>
planVars == <<walked, removals, upserts>>
registryVars == <<diskVars, entries, watch, event, reloader, planVars, blind, touched>>

Manifests == [name : Names, version : 0 .. MaxEdits]
IsManifest(c) == c # Nil /\ c # Broken
Rank(p) == CHOOSE i \in DOMAIN Places : Places[i] = p

Claims(found, n) == {p \in DOMAIN found : IsManifest(found[p]) /\ found[p].name = n}
Fresh(found) == {n \in Names : Claims(found, n) # {}}

Winner(found, n) ==
    CHOOSE p \in Claims(found, n) : \A q \in Claims(found, n) : Rank(q) <= Rank(p)

Entry(found, n) ==
    LET p == Winner(found, n) IN [place |-> p, version |-> found[p].version]

\* from_roots
Init ==
    /\ disk \in [ToSet(Places) -> {Nil, Broken} \cup [name : Names, version : {0}]]
    /\ entries = [n \in Fresh(disk) |-> Entry(disk, n)]
    /\ watch = "none" /\ unseen = FALSE /\ event = FALSE
    /\ reloader = "idle" /\ walked = [p \in {} |-> Nil]
    /\ removals = {} /\ upserts = [n \in {} |-> Nil]
    /\ edits = 0 /\ blind = FALSE /\ touched = {}

\* Someone writes, breaks or deletes a manifest.
Edit(p, content) ==
    /\ edits < MaxEdits /\ disk[p] # content
    /\ edits' = edits + 1
    /\ disk' = [disk EXCEPT ![p] = content]
    /\ touched' = touched \cup {p}
    /\ IF watch = "native" THEN unseen' = TRUE /\ UNCHANGED blind
       ELSE blind' = TRUE /\ UNCHANGED unseen
    /\ UNCHANGED <<entries, watch, event, reloader, planVars>>

\* Every root is taken to exist by now: the native watch skips a missing one, without polling
\* for it, and is never told of what comes to lie there.
InstallWatch ==
    /\ watch = "none"
    /\ watch' \in {"native", "polling"}
    /\ UNCHANGED <<diskVars, entries, event, reloader, planVars, blind, touched>>

Notify ==
    /\ unseen
    /\ unseen' = FALSE /\ event' = TRUE
    /\ UNCHANGED <<disk, edits, entries, watch, reloader, planVars, blind, touched>>

PollTick ==
    /\ watch = "polling" /\ reloader # "stopped"
    /\ event' = TRUE
    /\ UNCHANGED <<diskVars, entries, watch, reloader, planVars, blind, touched>>

ReceiveEvent ==
    /\ reloader \in {"idle", "debounce"} /\ watch # "none" /\ event
    /\ reloader' = "debounce" /\ event' = FALSE
    /\ UNCHANGED <<diskVars, entries, watch, planVars, blind, touched>>

DebounceEnds ==
    /\ reloader = "debounce"
    /\ reloader' = "discover" /\ walked' = [p \in {} |-> Nil]
    /\ blind' = FALSE /\ touched' = {}
    /\ UNCHANGED <<diskVars, entries, watch, event, removals, upserts>>

Walk ==
    /\ reloader = "discover" /\ DOMAIN walked # DOMAIN disk
    /\ LET p == Places[Cardinality(DOMAIN walked) + 1]
       IN walked' = [q \in DOMAIN walked \cup {p} |-> disk[q]]
    /\ UNCHANGED <<diskVars, entries, watch, event, reloader, removals, upserts, blind, touched>>

\* An entry whose own manifest does not parse is kept.
Retained(found) ==
    {n \in DOMAIN entries : LET p == entries[n].place IN p \in DOMAIN found /\ found[p] = Broken}

Plan(found) ==
    /\ reloader' = "apply"
    /\ removals' = DOMAIN entries \ (Fresh(found) \cup Retained(found))
    /\ upserts' = [n \in Fresh(found) |-> Entry(found, n)]

PlanRefresh ==
    /\ reloader = "discover" /\ DOMAIN walked = DOMAIN disk
    /\ Plan(walked)
    /\ UNCHANGED <<diskVars, entries, watch, event, walked, blind, touched>>

\* A discovery that panics has found nothing.
DiscoverPanics ==
    /\ reloader = "discover"
    /\ Plan([p \in {} |-> Nil])
    /\ blind' = TRUE
    /\ UNCHANGED <<diskVars, entries, watch, event, walked, touched>>

RemoveEntry(n) ==
    /\ reloader = "apply" /\ n \in removals
    /\ removals' = removals \ {n}
    /\ entries' = [m \in DOMAIN entries \ {n} |-> entries[m]]
    /\ UNCHANGED <<diskVars, watch, event, reloader, walked, upserts, blind, touched>>

UpsertEntry(n) ==
    /\ reloader = "apply" /\ removals = {} /\ n \in DOMAIN upserts
    /\ upserts' = [m \in DOMAIN upserts \ {n} |-> upserts[m]]
    /\ entries' = [m \in DOMAIN entries \cup {n} |-> IF m = n THEN upserts[n] ELSE entries[m]]
    /\ UNCHANGED <<diskVars, watch, event, reloader, walked, removals, blind, touched>>

RefreshEnds ==
    /\ reloader = "apply" /\ removals = {} /\ DOMAIN upserts = {}
    /\ reloader' = "idle" /\ walked' = [p \in {} |-> Nil]
    /\ UNCHANGED <<diskVars, entries, watch, event, removals, upserts, blind, touched>>

Cancel ==
    /\ reloader \in {"idle", "debounce"}
    /\ reloader' = "stopped"
    /\ UNCHANGED <<diskVars, entries, watch, event, planVars, blind, touched>>

Next ==
    \/ \E p \in DOMAIN disk, n \in Names :
        \E content \in {Nil, Broken, [name |-> n, version |-> edits + 1]} : Edit(p, content)
    \/ InstallWatch \/ Notify \/ PollTick
    \/ ReceiveEvent \/ DebounceEnds \/ Walk \/ PlanRefresh \/ DiscoverPanics
    \/ \E n \in Names : RemoveEntry(n) \/ UpsertEntry(n)
    \/ RefreshEnds \/ Cancel

Spec == Init /\ [][Next]_registryVars

-----------------------------------------------------------------------------
TypeOK ==
    /\ \A p \in DOMAIN disk : disk[p] \in Manifests \cup {Nil, Broken}
    /\ \A n \in DOMAIN entries :
        n \in Names /\ entries[n] \in [place : ToSet(Places), version : 0 .. MaxEdits]
    /\ watch \in {"none", "native", "polling"}
    /\ reloader \in {"idle", "debounce", "discover", "apply", "stopped"}
    /\ removals \subseteq Names /\ DOMAIN upserts \subseteq Names
    /\ DOMAIN walked \subseteq DOMAIN disk

Best(n, p) ==
    /\ p \in Claims(disk, n)
    /\ \A q \in Claims(disk, n) : Rank(q) <= Rank(p)

\* When the reloader has nothing to do and no change went by unseen, each name is the
\* best manifest on the disk, and where none is left it is gone or its file is broken,
\* however edits fall into the walk (run_loop, apply_refresh).
QuietMeansFresh ==
    reloader = "idle" /\ ~event /\ ~unseen /\ ~blind =>
        /\ \A n \in Names, p \in DOMAIN disk : Best(n, p) =>
            n \in DOMAIN entries /\ entries[n] = [place |-> p, version |-> disk[p].version]
        /\ \A n \in DOMAIN entries :
            Claims(disk, n) = {} => disk[entries[n].place] = Broken

\* What a refresh removes, no file that lay still claims, and the file it came from is
\* not one that merely failed to parse (apply_refresh).
RemovedIsGone ==
    ~blind => \A n \in removals, p \in DOMAIN disk \ touched :
        /\ IsManifest(disk[p]) => disk[p].name # n
        /\ p = entries[n].place => disk[p] # Broken
=============================================================================
