----------------------------- MODULE HybridSearch -----------------------------
(***************************************************************************)
(* Searches of the knowledge base (corlinman-vector, hybrid.rs), in which  *)
(* every statement is an await and the rows change between them, and the   *)
(* federation of memory hosts (corlinman-memory-host).                     *)
(*                                                                         *)
(* One text and one vector are asked for: the index and the full-text      *)
(* table rank what they hold in a fixed order each.  Scores are integers,  *)
(* of which Unit is a 1.0, and so is a factor of Whole.                    *)
(***************************************************************************)
EXTENDS Integers, Sequences, SequencesExt, FiniteSetsExt

CONSTANTS
    Ids,            \* of chunks: AUTOINCREMENT never gives one away twice
    Corpus,         \* the rows at the start: [ns, tags], or Null
    Below,          \* the tag paths of a subtree
    Nearest,        \* the keys of the vector index, ghosts included, the nearest first
    Wordiest,       \* the chunks that match the text, the best first
    Epa, Whole,     \* the factors of the chunks that have an EPA row
    Searches, Requests,
    MaxWrites,
    Unit, K,        \* rrf_k
    Hosts, Answers, TopK,
    Null

VARIABLES
    versions,       \* the tables of chunks since the start, of which the last is the present one
    search_of,
    cache,          \* EpaBoost's, shared by all that search
    raced           \* whose prepared factors another search threw away (history)

searchVars == <<versions, search_of, cache, raced>>

chunks == Last(versions)

Idle == [at |-> "idle", req |-> Null, from |-> 0, till |-> 0, allowed |-> Ids,
         dense |-> <<>>, sparse |-> <<>>, fused |-> <<>>, hits |-> <<>>]

SearchInit ==
    /\ versions = <<Corpus>>
    /\ search_of = [s \in Searches |-> Idle]
    /\ cache = <<>>
    /\ raced = [s \in Searches |-> FALSE]

-----------------------------------------------------------------------------
(* What is written meanwhile, one statement each.                          *)

Write(i, row) ==
    /\ Len(versions) <= MaxWrites
    /\ chunks[i] # row
    /\ versions' = Append(versions, [chunks EXCEPT ![i] = row])
    /\ UNCHANGED <<search_of, cache, raced>>

insert_chunk(i) == Corpus[i] = Null /\ chunks[i] = Null /\ Write(i, [ns |-> "general", tags |-> {}])
delete_chunk_by_id(i) == chunks[i] # Null /\ Write(i, Null)
insert_tag(i, t) == chunks[i] # Null /\ Write(i, [chunks[i] EXCEPT !.tags = @ \cup {t}])
TagRemoved(i, t) == chunks[i] # Null /\ Write(i, [chunks[i] EXCEPT !.tags = @ \ {t}])
promote_to_consolidated(i) == chunks[i] # Null /\ Write(i, [chunks[i] EXCEPT !.ns = "consolidated"])
demote_from_consolidated(i) == chunks[i] # Null /\ Write(i, [chunks[i] EXCEPT !.ns = "general"])

-----------------------------------------------------------------------------
(* HybridSearcher::search_of, search_dense_only and search_sparse_only, a     *)
(* local host's query and the admin's, which differ in what they leave out.*)

Step(s, at, fields) == search_of' = [search_of EXCEPT ![s] = fields @@ [@ EXCEPT !.at = at]]
Returns(s, hits) ==
    search_of' = [search_of EXCEPT ![s] = [@ EXCEPT !.at = "done", !.hits = hits, !.till = Len(versions)]]
Reads == UNCHANGED <<versions, cache, raced>>

At(s, place) == search_of[s].at = place
Req(s) == search_of[s].req

\* Which statement comes first: with filters, without, on a host, for the admin.
search(req) ==
    IF req.filter # Null THEN "tags" ELSE IF req.tag_subtree # Null THEN "subtree" ELSE "namespace"
search_dense_only == "dense"
search_sparse_only == "sparse"
query(req) == IF req.namespaces = Null THEN "sparse" ELSE "namespace"
run_bm25 == "sparse"

search_begin(s, req) ==
    /\ At(s, "idle")
    /\ search_of' = [search_of EXCEPT ![s] = [Idle EXCEPT !.req = req, !.from = Len(versions),
            !.at = CASE req.kind = "hybrid" -> search(req)
                     [] req.kind = "dense"  -> search_dense_only
                     [] req.kind = "sparse" -> search_sparse_only
                     [] req.kind = "host"   -> query(req)
                     [] req.kind = "rag"    -> run_bm25]]
    /\ Reads

Tagged(row, filter) ==
    /\ row # Null
    /\ filter.required \subseteq row.tags
    /\ filter.any_of # {} => filter.any_of \cap row.tags # {}
    /\ filter.excluded \cap row.tags = {}
Under(row, root) == row # Null /\ row.tags \cap Below[root] # {}
Within(row, namespaces) == row # Null /\ row.ns \in namespaces

filter_chunk_ids_by_tags(s) ==
    /\ At(s, "tags")
    /\ Step(s, IF Req(s).tag_subtree = Null THEN "namespace" ELSE "subtree",
            [allowed |-> {i \in Ids : Tagged(chunks[i], Req(s).filter)}])
    /\ Reads

filter_chunk_ids_by_tag_subtree(s) ==
    /\ At(s, "subtree")
    /\ Step(s, "namespace", [allowed |-> {i \in search_of[s].allowed : Under(chunks[i], Req(s).tag_subtree)}])
    /\ Reads

\* Nothing is left: no ranker is asked.
filter_chunk_ids_by_namespace(s) ==
    /\ At(s, "namespace")
    /\ LET left == {i \in search_of[s].allowed : Within(chunks[i], Req(s).namespaces)} IN
       IF left = {} THEN Returns(s, <<>>)
       ELSE Step(s, IF Req(s).kind = "hybrid" THEN "dense" ELSE "sparse", [allowed |-> left])
    /\ Reads

Take(seq, n) == SubSeq(seq, 1, IF n < Len(seq) THEN n ELSE Len(seq))
fetch(req) == req.top_k * req.overfetch_multiplier

\* "HNSW doesn't natively filter by key": four times as many, and then those that may be.
Nearby(s) ==
    LET req == Req(s) IN
    IF req.kind = "dense" THEN Take(Nearest, req.top_k)
    ELSE Take(SelectSeq(Take(Nearest, 4 * fetch(req)), LAMBDA i : i \in search_of[s].allowed), fetch(req))

Unscored(ids) == [j \in DOMAIN ids |-> [id |-> ids[j], score |-> 0]]

SearchIndex(s) ==
    /\ At(s, "dense")
    /\ IF Req(s).kind = "dense" THEN Step(s, "hydrate", [fused |-> Unscored(Nearby(s))])
                                ELSE Step(s, "sparse", [dense |-> Nearby(s)])
    /\ Reads

search_bm25_with_filter(s) ==
    LET req == Req(s)
        found == Take(SelectSeq(Wordiest, LAMBDA i : chunks[i] # Null /\ i \in search_of[s].allowed),
                      IF req.kind = "hybrid" THEN fetch(req) ELSE req.top_k) IN
    /\ At(s, "sparse")
    /\ IF req.kind = "hybrid" THEN Step(s, "fuse", [sparse |-> found])
       ELSE IF found = <<>> THEN Returns(s, <<>>)
       ELSE Step(s, "hydrate", [fused |-> Unscored(found)])
    /\ Reads

Contribution(list, i) ==
    SumSet({0} \cup {Unit \div (K + j) : j \in {r \in DOMAIN list : list[r] = i}})

Before(a, b) == a.score > b.score \/ (a.score = b.score /\ a.id < b.id)
rrf_fuse(dense, sparse) ==
    SetToSortSeq({[id |-> i, score |-> Contribution(dense, i) + Contribution(sparse, i)] :
                  i \in ToSet(dense) \cup ToSet(sparse)}, Before)

Candidates(req, fused) == IF req.rerank_enabled THEN fused ELSE Take(fused, req.top_k)

Fuse(s) ==
    LET fused == rrf_fuse(search_of[s].dense, search_of[s].sparse) IN
    /\ At(s, "fuse")
    /\ IF Req(s).boosted THEN Step(s, "prepare", [fused |-> fused])
       ELSE IF fused = <<>> THEN Returns(s, <<>>)
       ELSE Step(s, "hydrate", [fused |-> Candidates(Req(s), fused)])
    /\ Reads

\* EpaBoost::prepare empties the cache, reads a row per candidate and then fills it.
ThrownAway(s) == [o \in Searches |-> raced[o] \/ (o # s /\ At(o, "boost"))]
PrepareEmpties(s) ==
    /\ At(s, "prepare")
    /\ cache' = <<>> /\ raced' = ThrownAway(s)
    /\ Step(s, "filling", <<>>) /\ UNCHANGED versions
PrepareFills(s) ==
    /\ At(s, "filling")
    /\ cache' = [i \in {f.id : f \in ToSet(search_of[s].fused)} |-> IF i \in DOMAIN Epa THEN Epa[i] ELSE Whole]
    /\ raced' = ThrownAway(s)
    /\ Step(s, "boost", <<>>) /\ UNCHANGED versions

boost(i) == IF i \in DOMAIN cache THEN cache[i] ELSE Whole

Boosted(fused) == SetToSortSeq({[f EXCEPT !.score = @ * boost(f.id)] : f \in ToSet(fused)}, Before)

Boost(s) ==
    LET fused == Boosted(search_of[s].fused) IN
    /\ At(s, "boost")
    /\ IF fused = <<>> THEN Returns(s, <<>>)
                       ELSE Step(s, "hydrate", [fused |-> Candidates(Req(s), fused)])
    /\ Reads

NoopCut(req, hits) == Take(hits, req.top_k)

\* A row that is gone is passed over, but by the admin's query, which shows nothing in its
\* place; NoopReranker then cuts the list.
hydrate(s) ==
    LET there == SelectSeq(search_of[s].fused, LAMBDA f : Req(s).kind = "rag" \/ chunks[f.id] # Null) IN
    /\ At(s, "hydrate")
    /\ Returns(s, NoopCut(Req(s), there))
    /\ Reads

SearchNext ==
    \/ \E i \in Ids :
        \/ insert_chunk(i) \/ delete_chunk_by_id(i)
        \/ promote_to_consolidated(i) \/ demote_from_consolidated(i)
        \/ \E t \in UNION {Below[root] : root \in DOMAIN Below} : insert_tag(i, t) \/ TagRemoved(i, t)
    \/ \E s \in Searches :
        \/ \E req \in Requests[s] : search_begin(s, req)
        \/ filter_chunk_ids_by_tags(s) \/ filter_chunk_ids_by_tag_subtree(s)
        \/ filter_chunk_ids_by_namespace(s) \/ SearchIndex(s) \/ search_bm25_with_filter(s)
        \/ Fuse(s) \/ PrepareEmpties(s) \/ PrepareFills(s) \/ Boost(s) \/ hydrate(s)

-----------------------------------------------------------------------------
(* FederatedMemoryHost::query: all hosts are asked at once and all are     *)
(* waited for.  A host's answer is a list of its documents, in which a     *)
(* remote one may name a document twice.                                   *)

VARIABLES
    answers,        \* what each host has answered, or Null
    fusedHits       \* what the caller got, or Null

federationVars == <<answers, fusedHits>>

FederationInit == answers = [h \in Hosts |-> Null] /\ fusedHits = Null

\* A host that fails, or a remote one that is not back within REQUEST_TIMEOUT, is skipped.
HostAnswers(h, list) ==
    /\ answers[h] = Null
    /\ answers' = [answers EXCEPT ![h] = list]
    /\ UNCHANGED fusedHits
HostFails(h) == HostAnswers(h, <<>>)

Keys == UNION {{[source |-> h, id |-> d] : d \in ToSet(answers[h])} : h \in Hosts}

Score(key) ==
    MapThenSumSet(LAMBDA r : Unit \div (K + r), {r \in DOMAIN answers[key.source] : answers[key.source][r] = key.id})

FusedBefore(a, b) ==
    \/ Score(a) > Score(b)
    \/ Score(a) = Score(b) /\ (a.source < b.source \/ (a.source = b.source /\ a.id < b.id))

fuse ==
    /\ fusedHits = Null /\ \A h \in Hosts : answers[h] # Null
    /\ fusedHits' = Take(SetToSortSeq(Keys, FusedBefore), TopK)
    /\ UNCHANGED answers

FederationNext ==
    \/ \E h \in Hosts : HostFails(h) \/ \E list \in Answers[h] : HostAnswers(h, list)
    \/ fuse

-----------------------------------------------------------------------------
Init == SearchInit /\ FederationInit
Next == (SearchNext /\ UNCHANGED federationVars) \/ (FederationNext /\ UNCHANGED searchVars)
vars == <<searchVars, federationVars>>
Spec == Init /\ [][Next]_vars

TypeOK ==
    /\ \A v \in ToSet(versions) : DOMAIN v = Ids /\ Len(versions) \in 1..(MaxWrites + 1)
    /\ \A s \in Searches :
        /\ search_of[s].allowed \subseteq Ids
        /\ ToSet(search_of[s].dense) \cup ToSet(search_of[s].sparse) \subseteq Ids
        /\ \A h \in ToSet(search_of[s].fused \o search_of[s].hits) : h.id \in Ids /\ h.score \in Nat
    /\ DOMAIN cache \subseteq Ids

Returned(s) == {h.id : h \in ToSet(search_of[s].hits)}
Span(s) == search_of[s].from..search_of[s].till

\* However rows are written meanwhile, a chunk is returned that had the tags, then was in
\* a namespace that was asked for and then was still there, each when it was looked up, and
\* no more than were asked for; a search that needs neither returns what was there at one
\* time at least (search_of, hydrate).
HitsWereAllowed ==
    \A s \in Searches : At(s, "done") =>
        LET req == Req(s) IN
        /\ Len(search_of[s].hits) <= req.top_k /\ Cardinality(Returned(s)) = Len(search_of[s].hits)
        /\ req.kind # "rag" => \A i \in Returned(s) :
            \E a, b, c, d \in Span(s) :
                /\ a <= b /\ b <= c /\ c <= d
                /\ req.filter # Null => Tagged(versions[a][i], req.filter)
                /\ req.tag_subtree # Null => Under(versions[b][i], req.tag_subtree)
                /\ req.namespaces # Null => Within(versions[c][i], req.namespaces)
                /\ versions[d][i] # Null

Ahead(list, i, j) ==
    \E a \in DOMAIN list : list[a] = i /\ \A b \in DOMAIN list : list[b] = j => a < b
NotBehind(list, i, j) == j \in ToSet(list) => Ahead(list, i, j)
Factor(i) == IF i \in DOMAIN Epa THEN Epa[i] ELSE Whole

\* Unless something was written, or another search threw its factors away, a chunk that
\* may be returned, that both rankers put before one that is returned and that is boosted
\* no less is returned before it (search_of, rrf_fuse, EpaBoost).
BetterGoesFirst ==
    \A s \in Searches :
        At(s, "done") /\ search_of[s].from = search_of[s].till /\ ~raced[s] /\ Req(s).kind = "hybrid" =>
            \A j \in DOMAIN search_of[s].hits : \A i \in search_of[s].allowed :
                LET worse == search_of[s].hits[j].id IN
                /\ i # worse /\ chunks[i] # Null /\ versions[search_of[s].till][i] # Null
                /\ NotBehind(search_of[s].dense, i, worse) /\ NotBehind(search_of[s].sparse, i, worse)
                /\ ~Req(s).boosted \/ Factor(i) >= Factor(worse)
                => \E a \in 1..(j - 1) : search_of[s].hits[a].id = i

Places(key) == SetToSortSeq({r \in DOMAIN answers[key.source] : answers[key.source][r] = key.id}, <)
Beats(a, b) ==
    /\ Len(Places(a)) >= Len(Places(b)) /\ Places(a) # Places(b)
    /\ \A r \in DOMAIN Places(b) : Places(a)[r] <= Places(b)[r]

\* Whichever hosts fail, what the others answered is merged: each document of each host
\* once, the places of the hosts taken in turn, and only as much left out as was asked for
\* (FederatedMemoryHost::query, fuse).
HostsTakeTurns ==
    fusedHits # Null =>
        /\ ToSet(fusedHits) \subseteq Keys
        /\ Len(fusedHits) = Min({TopK, Cardinality(Keys)}) /\ Cardinality(ToSet(fusedHits)) = Len(fusedHits)
        /\ \A a \in Keys : \A j \in DOMAIN fusedHits :
            Beats(a, fusedHits[j]) => \E b \in 1..(j - 1) : fusedHits[b] = a
=============================================================================
