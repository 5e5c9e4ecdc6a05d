------------------------------- MODULE TagTree -------------------------------
(***************************************************************************)
(* The tags of the knowledge base: `tag_nodes` and `chunk_tags` of         *)
(* corlinman-vector/src/sqlite.rs, the calls that attach a chunk to a      *)
(* path, and the apply and revert of tag_rebalance proposals in            *)
(* corlinman-gateway/src/evolution_applier.rs.  Every statement commits on *)
(* its own, so each is a step, and a request may end after any of them.    *)
(***************************************************************************)
EXTENDS Integers, Sequences

CONSTANTS
    Paths,          \* the dotted paths, as sequences of their segments
    Tagged,         \* the chunks
    InitialNodes, InitialLastId,
    Merges,         \* proposals of kind tag_rebalance
    MergePath,      \* the path that the target `merge_tag:<path>` names
    Taggers,        \* calls of attach_chunk_to_tag_path
    TagPath, TagChunk,
    MaxTagFailures, \* requests on one proposal that end early
    MaxTagReverts,  \* requests to revert one proposal
    Null

Prefix(p, n) == SubSeq(p, 1, n)
Above(p) == Prefix(p, Len(p) - 1)
Ids == Nat \ {0}
Node == [id : Ids, parent : Ids \cup {Null}, path : Paths]

\* `parent_id INTEGER REFERENCES tag_nodes(id)`: no node without its parent.
Closed(N) == \A n \in N : n.parent = Null \/ \E p \in N : p.id = n.parent

\* The ids of a set of nodes are those of one tree of paths.
Consistent(N) ==
    /\ \A m, n \in N : m.id = n.id \/ m.path = n.path => m = n
    /\ \A n \in N : IF Len(n.path) = 1 THEN n.parent = Null
                    ELSE \E p \in N : p.id = n.parent /\ p.path = Above(n.path)

ASSUME PathsAssumption ==
    /\ Paths \subseteq Seq(STRING) \ {<<>>}
    /\ \A p \in Paths : \A n \in 1..Len(p) : Prefix(p, n) \in Paths
    /\ Null \notin Ids \cup Node
ASSUME InitialAssumption ==
    /\ InitialNodes \in SUBSET Node /\ InitialLastId \in Nat
    /\ Consistent(InitialNodes)
    /\ \A n \in InitialNodes : n.id <= InitialLastId
ASSUME RequestsAssumption ==
    /\ MergePath \in [Merges -> Paths]
    /\ TagPath \in [Taggers -> Paths] /\ TagChunk \in [Taggers -> Tagged]
    /\ MaxTagFailures \in Nat /\ MaxTagReverts \in Nat

VARIABLES
    nodes,          \* tag_nodes
    tags,           \* chunk_tags: <<chunk, id of a node>>
    lastId,         \* AUTOINCREMENT: no id is given twice
    merge,          \* the request on each proposal, and what its history row records
    tagger          \* how far each call of ensure_tag_path is

tagVars == <<nodes, tags, lastId, merge, tagger>>

TagInit ==
    /\ nodes = InitialNodes /\ lastId = InitialLastId
    /\ tags \in SUBSET (Tagged \X {n.id : n \in InitialNodes})
    /\ merge = [m \in Merges |->
         [at |-> "approved", src |-> Null, moved |-> {}, todo |-> {}, chunk |-> Null,
          failures |-> 0, reverts |-> 0]]
    /\ tagger = [t \in Taggers |-> [at |-> "segment", depth |-> 0, parent |-> Null]]

HasId(i) == \E n \in nodes : n.id = i
HasPath(p) == \E n \in nodes : n.path = p
NodeAt(p) == CHOOSE n \in nodes : n.path = p
TaggedWith(i) == {c \in Tagged : <<c, i>> \in tags}
Retagged(c, i, j) == (tags \ {<<c, i>>}) \cup {<<c, j>>}

-----------------------------------------------------------------------------
(* Apply: five statements on the knowledge base, then the history row.     *)

Goes(m, at) == merge' = [merge EXCEPT ![m].at = at]

SelectNode(m) ==
    /\ merge[m].at = "approved" /\ HasPath(MergePath[m])
    /\ NodeAt(MergePath[m]).parent # Null
    /\ merge' = [merge EXCEPT ![m].at = "list", ![m].src = NodeAt(MergePath[m])]
    /\ UNCHANGED <<nodes, tags, lastId, tagger>>

ListChunks(m) ==
    /\ merge[m].at = "list"
    /\ merge' = [merge EXCEPT ![m].at = "clear", ![m].moved = TaggedWith(merge[m].src.id)]
    /\ UNCHANGED <<nodes, tags, lastId, tagger>>

\* Mutant: every row of the node is dropped, not only those the parent has.
ClearConflicts_all(m) ==
    /\ merge[m].at = "clear" /\ Goes(m, "move")
    /\ tags' = tags \ {<<c, merge[m].src.id>> : c \in Tagged}
    /\ UNCHANGED <<nodes, lastId, tagger>>

\* The rows whose chunk has the parent's tag as well.
ClearConflicts(m) ==
    LET src == merge[m].src IN
    /\ merge[m].at = "clear" /\ Goes(m, "move")
    /\ tags' = tags \ {<<c, src.id>> : c \in TaggedWith(src.parent)}
    /\ UNCHANGED <<nodes, lastId, tagger>>

\* The update fails as a whole on the primary key or the foreign key.
MoveFails(src) ==
    \E c \in TaggedWith(src.id) : <<c, src.parent>> \in tags \/ ~HasId(src.parent)

MoveTags(m) ==
    LET src == merge[m].src IN
    /\ merge[m].at = "move" /\ ~MoveFails(src) /\ Goes(m, "delete")
    /\ tags' = {IF t[2] = src.id THEN <<t[1], src.parent>> ELSE t : t \in tags}
    /\ UNCHANGED <<nodes, lastId, tagger>>

\* ON DELETE CASCADE: what stays is the largest set in which no parent is missing.
Without(n) == UNION {N \in SUBSET (nodes \ {n}) : Closed(N)}

DeleteNode(m) ==
    LET kept == Without(merge[m].src) IN
    /\ merge[m].at = "delete" /\ merge[m].src \in nodes /\ Goes(m, "commit")
    /\ nodes' = kept
    /\ tags' = {t \in tags : \E n \in kept : n.id = t[2]}
    /\ UNCHANGED <<lastId, tagger>>

CommitApply(m) ==
    /\ merge[m].at = "commit" /\ Goes(m, "applied")
    /\ UNCHANGED <<nodes, tags, lastId, tagger>>

\* A statement fails or the request is dropped: the proposal is still approved.
ApplyEnds(m) ==
    /\ merge[m].at \in {"list", "clear", "move", "delete", "commit"}
    /\ merge[m].failures < MaxTagFailures
    /\ merge' = [merge EXCEPT ![m].at = "approved", ![m].src = Null, ![m].moved = {},
                              ![m].failures = @ + 1]
    /\ UNCHANGED <<nodes, tags, lastId, tagger>>

-----------------------------------------------------------------------------
(* Revert: the node at its old id, then the listed chunks one by one.      *)

\* INSERT OR IGNORE passes over an id or a path in use, not over a missing parent.
ReinsertNode(m) ==
    LET src == merge[m].src
        ignored == HasId(src.id) \/ HasPath(src.path) IN
    /\ merge[m].at = "applied" /\ merge[m].reverts < MaxTagReverts
    /\ ignored \/ HasId(src.parent)
    /\ nodes' = IF ignored THEN nodes ELSE nodes \cup {src}
    /\ merge' = [merge EXCEPT ![m].at = "unlink", ![m].todo = merge[m].moved,
                              ![m].reverts = @ + 1]
    /\ UNCHANGED <<tags, lastId, tagger>>

UnlinkChunk(m, c) ==
    /\ merge[m].at = "unlink" /\ c \in merge[m].todo
    /\ tags' = tags \ {<<c, merge[m].src.id>>}
    /\ merge' = [merge EXCEPT ![m].at = "relink", ![m].chunk = c]
    /\ UNCHANGED <<nodes, lastId, tagger>>

RelinkChunk(m) ==
    LET src == merge[m].src
        c == merge[m].chunk IN
    /\ merge[m].at = "relink"
    /\ IF <<c, src.parent>> \in tags
       THEN HasId(src.id) /\ <<c, src.id>> \notin tags /\ tags' = Retagged(c, src.parent, src.id)
       ELSE tags' = tags
    /\ merge' = [merge EXCEPT ![m].at = "unlink", ![m].todo = @ \ {c}, ![m].chunk = Null]
    /\ UNCHANGED <<nodes, lastId, tagger>>

RevertDone(m) ==
    /\ merge[m].at = "unlink" /\ merge[m].todo = {} /\ Goes(m, "reverted")
    /\ UNCHANGED <<nodes, tags, lastId, tagger>>

\* A statement fails, or the proposal's row is not updated: it can be reverted again.
RevertEnds(m) ==
    /\ merge[m].at \in {"unlink", "relink"}
    /\ merge' = [merge EXCEPT ![m].at = "applied", ![m].todo = {}, ![m].chunk = Null]
    /\ UNCHANGED <<nodes, tags, lastId, tagger>>

-----------------------------------------------------------------------------
(* attach_chunk_to_tag_path: ensure_tag_path segment by segment, then the  *)
(* row of the chunk.                                                       *)

Segment(t) == Prefix(TagPath[t], tagger[t].depth + 1)

\* The node of the next segment is there, or has just been inserted.
Descend(t, id) ==
    LET depth == tagger[t].depth + 1 IN
    tagger' = [tagger EXCEPT ![t] =
        [at |-> IF depth = Len(TagPath[t]) THEN "attach" ELSE "segment",
         depth |-> depth, parent |-> id]]

\* Mutant: the parent of the next segment is not carried on from a node that was found.
FindSegment_keeps_parent(t) ==
    /\ tagger[t].at = "segment" /\ HasPath(Segment(t))
    /\ Descend(t, IF tagger[t].depth + 1 = Len(TagPath[t]) THEN NodeAt(Segment(t)).id
                  ELSE tagger[t].parent)
    /\ UNCHANGED <<nodes, tags, lastId, merge>>

FindSegment(t) ==
    /\ tagger[t].at = "segment" /\ HasPath(Segment(t))
    /\ Descend(t, NodeAt(Segment(t)).id)
    /\ UNCHANGED <<nodes, tags, lastId, merge>>

MissSegment(t) ==
    /\ tagger[t].at = "segment" /\ ~HasPath(Segment(t))
    /\ tagger' = [tagger EXCEPT ![t].at = "insert"]
    /\ UNCHANGED <<nodes, tags, lastId, merge>>

InsertSegment(t) ==
    LET parent == tagger[t].parent IN
    /\ tagger[t].at = "insert" /\ ~HasPath(Segment(t))
    /\ parent = Null \/ HasId(parent)
    /\ lastId' = lastId + 1
    /\ nodes' = nodes \cup {[id |-> lastId', parent |-> parent, path |-> Segment(t)]}
    /\ Descend(t, lastId')
    /\ UNCHANGED <<tags, merge>>

AttachChunk(t) ==
    /\ tagger[t].at = "attach" /\ HasId(tagger[t].parent)
    /\ tags' = tags \cup {<<TagChunk[t], tagger[t].parent>>}
    /\ tagger' = [tagger EXCEPT ![t].at = "done"]
    /\ UNCHANGED <<nodes, lastId, merge>>

\* A constraint fails, or the caller goes away.
TaggerEnds(t) ==
    /\ tagger[t].at \in {"insert", "attach"}
    /\ tagger' = [tagger EXCEPT ![t].at = "done"]
    /\ UNCHANGED <<nodes, tags, lastId, merge>>

-----------------------------------------------------------------------------
TagNext ==
    \/ \E m \in Merges :
         \/ SelectNode(m) \/ ListChunks(m) \/ ClearConflicts(m) \/ MoveTags(m)
         \/ DeleteNode(m) \/ CommitApply(m) \/ ApplyEnds(m)
         \/ ReinsertNode(m) \/ RelinkChunk(m) \/ RevertDone(m) \/ RevertEnds(m)
         \/ \E c \in Tagged : UnlinkChunk(m, c)
    \/ \E t \in Taggers :
         \/ FindSegment(t) \/ MissSegment(t) \/ InsertSegment(t) \/ AttachChunk(t)
         \/ TaggerEnds(t)

TagSpec == TagInit /\ [][TagNext]_tagVars

Phase == {"approved", "list", "clear", "move", "delete", "commit", "applied",
          "unlink", "relink", "reverted"}

MergeRow ==
    [at : Phase, src : Node \cup {Null}, moved : SUBSET Tagged, todo : SUBSET Tagged,
     chunk : Tagged \cup {Null}, failures : 0..MaxTagFailures, reverts : 0..MaxTagReverts]
TaggerRow ==
    [at : {"segment", "insert", "attach", "done"}, depth : Nat, parent : Ids \cup {Null}]

TagTypeOK ==
    /\ nodes \in SUBSET Node /\ lastId \in Nat
    /\ tags \in SUBSET (Tagged \X Ids)
    /\ merge \in [Merges -> MergeRow]
    /\ tagger \in [Taggers -> TaggerRow]

\* However merges, reverts and taggers meet, the nodes are one tree: a path has one
\* node, its parent is the node of the path without the last segment, and no chunk is
\* tagged with a node that is gone (ensure_tag_path keeps the id of a parent it read
\* before, revert_tag_rebalance inserts a row it recorded before).
TreeIsConsistent ==
    /\ TagTypeOK /\ Consistent(nodes)
    /\ \A t \in tags : HasId(t[2])

\* No other request on a path above, below or at the one of `m`, nor on one beside it:
\* two merges into one parent share the parent's tag of a chunk both listed, and the
\* revert of either takes it away from the other.
Overlap(p, q) == \E n \in 1..Len(p) : Prefix(p, n) = q
Meet(p, q) == Overlap(p, q) \/ Overlap(q, p) \/ Above(p) = Above(q)
Alone(m) ==
    \A o \in Merges \ {m} : Meet(MergePath[m], MergePath[o]) =>
        merge[o].at = "approved" /\ merge[o].failures = 0

\* Wherever a merge or its first revert stops, a chunk it listed has the tag of the
\* node or that of the parent (apply_tag_rebalance, revert_tag_rebalance).
ListedStayFindable ==
    \A m \in Merges : \A c \in merge[m].moved :
        Alone(m) /\ merge[m].reverts <= 1 =>
            {<<c, merge[m].src.id>>, <<c, merge[m].src.parent>>} \cap tags # {}

=============================================================================
